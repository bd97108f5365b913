--------------------------- MODULE DownloadPromise ---------------------------
(***************************************************************************)
(* What a worker may rely on when it runs a download, without yt-dlp,      *)
(* pipes, lines and files.  JobLifecycle has of a download the steps       *)
(* Progress, DownloadOk and DownloadErr, and rests on three things.  Who   *)
(* writes the progress of the job is gone when the download returns and    *)
(* when the next quality is tried.  No program and no request is started   *)
(* once the job's context is done, and none runs when the download has     *)
(* returned.  A download that returns an error was canceled or has tried   *)
(* every quality there was.                                                *)
(***************************************************************************)
EXTENDS Naturals

CONSTANT Writer     \* the goroutines that can write the job's progress

VARIABLES
    outcome,        \* "none" until the download has returned
    canceled,       \* the job's context is done
    calling,        \* an external program or request is running
    writers,        \* the goroutines that may write progress now
    left            \* qualities not tried yet

vars == <<outcome, canceled, calling, writers, left>>

Init ==
    /\ outcome = "none"
    /\ canceled = FALSE
    /\ calling = FALSE
    /\ writers = {}
    /\ left \in Nat

\* The download has not returned, and nothing it started goes on.
Quiet == outcome = "none" /\ ~calling /\ writers = {}

\* A call may have its output read by goroutines of its own.
Call ==
    /\ Quiet /\ ~canceled
    /\ calling' = TRUE
    /\ writers' \in {{}, Writer}
    /\ UNCHANGED <<outcome, canceled, left>>

CallOver ==
    /\ calling
    /\ calling' = FALSE
    /\ UNCHANGED <<outcome, canceled, writers, left>>

WriterOver(p) ==
    /\ p \in writers
    /\ writers' = writers \ {p}
    /\ UNCHANGED <<outcome, canceled, calling, left>>

TryNext ==
    /\ Quiet /\ ~canceled /\ left > 0
    /\ left' = left - 1
    /\ UNCHANGED <<outcome, canceled, calling, writers>>

Return(r) ==
    /\ Quiet
    /\ r = "error" => canceled \/ left = 0
    /\ outcome' = r
    /\ UNCHANGED <<canceled, calling, writers, left>>

Cancel ==
    /\ outcome = "none" /\ ~canceled
    /\ canceled' = TRUE
    /\ UNCHANGED <<outcome, calling, writers, left>>

Next ==
    \/ Call \/ CallOver \/ TryNext \/ Cancel
    \/ \E p \in Writer : WriterOver(p)
    \/ \E r \in {"ok", "error"} : Return(r)

Spec == Init /\ [][Next]_vars
=============================================================================
