----------------------------- MODULE Downloader -----------------------------
(***************************************************************************)
(* One download, from the worker's choice of a mode to the result it goes  *)
(* on with: the chain of qualities, yt-dlp and its two pipes, the image    *)
(* fallback, the files of the job's directory and the cancellation.        *)
(*                                                                         *)
(* The worker's goroutine (`step`), the goroutines that read stdout and    *)
(* stderr (`reader`), the external program (`proc`) and whoever cancels    *)
(* the job's context run concurrently.  The steps of the goroutine:        *)
(*   attempt     at the head of the chain's loop                           *)
(*   metadata, running, thumbnail, url   an external call is in flight:    *)
(*               fetchMetadata, the download, --write-thumbnail, HTTP GET  *)
(*   start       about to start the download                               *)
(*   join        Wait has returned, the readers have not been joined       *)
(*   judge       about to look at what yt-dlp did                          *)
(*   find        about to look for the output file                         *)
(*   image, link about to try --write-thumbnail, the thumbnail's URL       *)
(*   failed      the attempt has returned an error to the worker           *)
(*   returned    the worker goes on with `result`                          *)
(***************************************************************************)
EXTENDS Naturals, Sequences

CONSTANTS
    PipeCap,        \* lines that fit into a pipe
    MaxLines        \* bound: lines yt-dlp writes to one pipe in one run

ASSUME BoundsAssumption == PipeCap \in Nat \ {0} /\ MaxLines \in Nat

VARIABLES
    chain,          \* what the worker tries, in this order
    rung,           \* the place in it
    step,
    canceled,       \* the job's context is done
    proc,           \* the external call: none, running, hung, ok or failed
    todo,           \* per pipe: lines yt-dlp has yet to write in this run
    said,           \* a line it wrote said that there is no video
    pipe,           \* per pipe: the lines in it
    closed,         \* Wait has closed the read ends
    reader,         \* per pipe: the goroutine in readPipe
    heard,          \* the lines the readers have collected
    thumb,          \* the metadata has the URL of a thumbnail
    files,          \* the directory job-<id>
    result

vars == <<chain, rung, step, canceled, proc, todo, said, pipe, closed, reader,
          heard, thumb, files, result>>

runVars == <<todo, said, pipe, closed, reader, heard>>

Pipes == {"stdout", "stderr"}

\* A percentage, "no video", a line that does not fit into a bufio.Scanner
\* (64 kB), anything else.
Lines == {"progress", "noVideo", "long", "other"}

Qualities == <<"q1080", "q720", "q480", "q360">>

\* From the preferred quality downwards, then whatever there is.
QualityFallbackChain(q) ==
    LET i == CHOOSE n \in DOMAIN Qualities : Qualities[n] = q IN
    Append(SubSeq(Qualities, i, Len(Qualities)), "best")

Chains == {<<"audio">>, <<"best">>} \cup
          {QualityFallbackChain(Qualities[i]) : i \in DOMAIN Qualities}

\* A file knows the attempt that made it and what it is: a finished download,
\* a .part or .ytdl file, a thumbnail.
File == [rung : Nat, kind : {"media", "part", "thumb"}]
NoFile == [rung |-> 0, kind |-> "part"]

InFlight == {"metadata", "running", "thumbnail", "url"}

TypeOK ==
    /\ chain \in Chains
    /\ rung \in 1..Len(chain)
    /\ step \in InFlight \cup {"attempt", "start", "join", "judge", "find",
                               "image", "link", "failed", "returned"}
    /\ canceled \in BOOLEAN
    /\ proc \in {"none", "running", "hung", "ok", "failed"}
    /\ todo \in [Pipes -> 0..MaxLines]
    /\ said \in BOOLEAN
    /\ pipe \in [Pipes -> Seq(Lines)] /\ \A p \in Pipes : Len(pipe[p]) <= PipeCap
    /\ closed \in BOOLEAN
    /\ reader \in [Pipes -> {"none", "reading", "reporting", "done"}]
    /\ heard \subseteq Lines
    /\ thumb \in BOOLEAN
    /\ files \subseteq File
    /\ result \in [status : {"none", "ok", "error"}, file : File]

Init ==
    /\ chain \in Chains
    /\ rung = 1
    /\ step = "attempt"
    /\ canceled = FALSE
    /\ proc = "none"
    /\ todo = [p \in Pipes |-> 0]
    /\ said = FALSE
    /\ pipe = [p \in Pipes |-> <<>>]
    /\ closed = TRUE
    /\ reader = [p \in Pipes |-> "none"]
    /\ heard = {}
    /\ thumb = FALSE
    /\ files = {}
    /\ result = [status |-> "none", file |-> NoFile]

-----------------------------------------------------------------------------
(* The worker's goroutine.  Download, DownloadWithQuality and DownloadAudio    *)
(* are the same steps with other arguments; only Download goes on to an image. *)

Goto(from, to) == step = from /\ step' = to

\* Slip: exec.Command, http.Get: the context is not looked at.
LaunchDetached(to) ==
    /\ step' = to
    /\ proc' = "running"

\* exec.CommandContext and Start, http.NewRequestWithContext and Do: nothing is
\* started for a context that is done.
Launch(to) ==
    /\ ~canceled
    /\ step' = to
    /\ proc' = "running"

Over == proc \in {"ok", "failed"}

\* os.MkdirAll fails, or fetchMetadata runs yt-dlp, or cannot start it.
Attempt ==
    /\ step = "attempt"
    /\ \/ step' = "failed" /\ UNCHANGED proc
       \/ Launch("metadata")
       \/ step' = "start" /\ UNCHANGED proc
    /\ thumb' = FALSE
    /\ UNCHANGED <<chain, rung, canceled, runVars, files, result>>

\* Whatever comes of the metadata, the download is tried.
MetadataOver ==
    /\ Over
    /\ Goto("metadata", "start")
    /\ thumb' \in (IF proc = "ok" THEN BOOLEAN ELSE {FALSE})
    /\ proc' = "none"
    /\ UNCHANGED <<chain, rung, canceled, runVars, files, result>>

\* The two goroutines of readPipe start as soon as yt-dlp has.
Run ==
    /\ step = "start"
    /\ Launch("running")
    /\ todo' \in [Pipes -> 0..MaxLines]
    /\ said' = FALSE
    /\ pipe' = [p \in Pipes |-> <<>>]
    /\ closed' = FALSE
    /\ reader' = [p \in Pipes |-> "reading"]
    /\ heard' = {}
    /\ UNCHANGED <<chain, rung, canceled, thumb, files, result>>

RunFails ==
    /\ Goto("start", "failed")
    /\ UNCHANGED <<chain, rung, canceled, proc, runVars, thumb, files, result>>

\* cmd.Wait returns when yt-dlp has exited, and closes the read ends of the
\* pipes whether or not they are empty.
WaitOver ==
    /\ Over
    /\ Goto("running", "join")
    /\ closed' = TRUE
    /\ UNCHANGED <<chain, rung, canceled, proc, todo, said, pipe, reader, heard,
                   thumb, files, result>>

\* <-stdoutCh, <-stderrCh
Join ==
    /\ Goto("join", "judge")
    /\ \A p \in Pipes : reader[p] = "done"
    /\ pipe' = [p \in Pipes |-> <<>>]
    /\ UNCHANGED <<chain, rung, canceled, proc, todo, said, closed, reader, heard,
                   thumb, files, result>>

\* Only Download, the last rung or the only one, falls back to an image.
Judge ==
    /\ \/ proc = "ok" /\ Goto("judge", "find")
       \/ /\ proc = "failed"
          /\ IF chain[rung] = "best" /\ "noVideo" \in heard
             THEN Goto("judge", "image") ELSE Goto("judge", "failed")
    /\ proc' = "none"
    /\ UNCHANGED <<chain, rung, canceled, runVars, thumb, files, result>>

Return(s, f) ==
    /\ step' = "returned"
    /\ result' = [status |-> s, file |-> f]

\* findOutputFile: the first file whose name is not that of a partial one.
Found == {f \in files : f.kind # "part"}

FindOutput ==
    /\ step = "find"
    /\ \/ \E f \in Found : Return("ok", f)
       \/ Found = {} /\ step' = "failed" /\ UNCHANGED result
    /\ UNCHANGED <<chain, rung, canceled, proc, runVars, thumb, files>>

\* downloadImage: yt-dlp --write-thumbnail --skip-download ...
Image ==
    /\ step = "image"
    /\ \/ Launch("thumbnail")
       \/ step' = "link" /\ UNCHANGED proc
    /\ UNCHANGED <<chain, rung, canceled, runVars, thumb, files, result>>

ThumbnailOver ==
    /\ step = "thumbnail" /\ Over
    /\ \/ proc = "ok" /\ \E f \in Found : Return("ok", f)
       \/ (proc = "failed" \/ Found = {}) /\ step' = "link" /\ UNCHANGED result
    /\ proc' = "none"
    /\ UNCHANGED <<chain, rung, canceled, runVars, thumb, files>>

\* ... and then the URL of the thumbnail, by http.DefaultClient.
Link ==
    /\ step = "link"
    /\ \/ thumb /\ Launch("url")
       \/ step' = "failed" /\ UNCHANGED proc
    /\ UNCHANGED <<chain, rung, canceled, runVars, thumb, files, result>>

UrlOver ==
    /\ step = "url" /\ Over
    /\ \/ proc = "ok" /\ Return("ok", [rung |-> rung, kind |-> "thumb"])
       \/ proc = "failed" /\ step' = "failed" /\ UNCHANGED result
    /\ proc' = "none"
    /\ UNCHANGED <<chain, rung, canceled, runVars, thumb, files>>

\* Slip: the directory is not cleaned before the next quality.
NextRungKeepsFiles ==
    /\ ~canceled /\ rung < Len(chain)
    /\ Goto("failed", "attempt")
    /\ rung' = rung + 1
    /\ UNCHANGED <<chain, canceled, proc, runVars, thumb, files, result>>

\* Slip: one more round at the end of the chain.
NextRungPastEnd ==
    /\ ~canceled
    /\ Goto("failed", "attempt")
    /\ rung' = rung + 1
    /\ files' = {}
    /\ UNCHANGED <<chain, canceled, proc, runVars, thumb, result>>

\* Slip: the loop over the qualities only looks at the error, which does not wrap
\* context.Canceled.
NextRungCanceled ==
    /\ rung < Len(chain)
    /\ Goto("failed", "attempt")
    /\ rung' = rung + 1
    /\ files' = {}
    /\ UNCHANGED <<chain, canceled, proc, runVars, thumb, result>>

\* The next quality, in a clean directory (cleanJobDir).
NextRung ==
    /\ ~canceled /\ rung < Len(chain)
    /\ Goto("failed", "attempt")
    /\ rung' = rung + 1
    /\ files' = {}
    /\ UNCHANGED <<chain, canceled, proc, runVars, thumb, result>>

GiveUp ==
    /\ step = "failed"
    /\ canceled \/ rung = Len(chain)
    /\ Return("error", NoFile)
    /\ UNCHANGED <<chain, rung, canceled, proc, runVars, thumb, files>>

Code ==
    \/ Attempt \/ MetadataOver \/ Run \/ RunFails \/ WaitOver \/ Join \/ Judge
    \/ FindOutput \/ Image \/ ThumbnailOver \/ Link \/ UrlOver \/ NextRung
    \/ GiveUp

-----------------------------------------------------------------------------
(* readPipe. *)

\* Slip: stderr is read once stdout is at its end.
ReadLineInTurn(p) ==
    /\ reader[p] = "reading"
    /\ p = "stderr" => reader["stdout"] = "done"
    /\ pipe[p] # <<>> /\ Head(pipe[p]) # "long"
    /\ pipe' = [pipe EXCEPT ![p] = Tail(@)]
    /\ heard' = heard \cup {Head(pipe[p])}
    /\ reader' = [reader EXCEPT ![p] = IF Head(pipe[p]) = "progress"
                                       THEN "reporting" ELSE @]
    /\ UNCHANGED <<chain, rung, step, canceled, proc, todo, said, closed, thumb,
                   files, result>>

\* One line; a line with a percentage goes through progressFn.  What the scanner
\* has in its buffer it returns even after the pipe was closed.
ReadLine(p) ==
    /\ reader[p] = "reading"
    /\ pipe[p] # <<>> /\ Head(pipe[p]) # "long"
    /\ pipe' = [pipe EXCEPT ![p] = Tail(@)]
    /\ heard' = heard \cup {Head(pipe[p])}
    /\ reader' = [reader EXCEPT ![p] = IF Head(pipe[p]) = "progress"
                                       THEN "reporting" ELSE @]
    /\ UNCHANGED <<chain, rung, step, canceled, proc, todo, said, closed, thumb,
                   files, result>>

\* progressFn is back from the database and from Telegram.
Reported(p) ==
    /\ reader[p] = "reporting"
    /\ reader' = [reader EXCEPT ![p] = "reading"]
    /\ UNCHANGED <<chain, rung, step, canceled, proc, todo, said, pipe, closed,
                   heard, thumb, files, result>>

\* The end of the output, a pipe that was closed under the reader, or a line
\* that is too long: Scan gives up, and nobody reads the pipe any more.
ReadEnd(p) ==
    /\ reader[p] = "reading"
    /\ \/ closed \/ (Over /\ pipe[p] = <<>>)
       \/ pipe[p] # <<>> /\ Head(pipe[p]) = "long"
    /\ reader' = [reader EXCEPT ![p] = "done"]
    /\ UNCHANGED <<chain, rung, step, canceled, proc, todo, said, pipe, closed,
                   heard, thumb, files, result>>

Reader(p) == ReadLine(p) \/ Reported(p) \/ ReadEnd(p)

-----------------------------------------------------------------------------
(* yt-dlp, the thumbnail's server, and whoever cancels. *)

\* yt-dlp blocks on a full pipe.  Errors go to stderr, percentages to stdout.
Write(p, line) ==
    /\ step = "running" /\ proc = "running"
    /\ todo[p] > 0 /\ Len(pipe[p]) < PipeCap
    /\ p = "stdout" => line # "noVideo"
    /\ p = "stderr" => line # "progress"
    /\ todo' = [todo EXCEPT ![p] = @ - 1]
    /\ said' = (said \/ line = "noVideo")
    /\ pipe' = [pipe EXCEPT ![p] = Append(@, line)]
    /\ UNCHANGED <<chain, rung, step, canceled, proc, closed, reader, heard, thumb,
                   files, result>>

\* What the call may have left behind.  A run that failed may leave complete
\* files beside partial ones (one of two streams, say); a run that found no
\* video has not begun to download.
Leaves(ok) ==
    LET kinds == IF step = "running"
                 THEN IF ok THEN {"media"} ELSE IF said THEN {} ELSE {"media", "part"}
                 ELSE IF step \in {"thumbnail", "url"} THEN {"thumb"} ELSE {}
    IN  {new \in SUBSET {[rung |-> rung, kind |-> k] : k \in kinds} :
            step = "url" /\ ok => new # {}}

\* yt-dlp exits when it has written what it had to; a run that said there is no
\* video fails.
Exit(ok) ==
    /\ proc = "running"
    /\ step = "running" => (\A p \in Pipes : todo[p] = 0) /\ (said => ~ok)
    /\ proc' = IF ok THEN "ok" ELSE "failed"
    /\ \E new \in Leaves(ok) : files' = files \cup new
    /\ UNCHANGED <<chain, rung, step, canceled, runVars, thumb, result>>

\* A call nothing ends but the context: yt-dlp has no time limit here, and
\* http.DefaultClient has none.
Hang ==
    /\ proc = "running"
    /\ proc' = "hung"
    /\ UNCHANGED <<chain, rung, step, canceled, runVars, thumb, files, result>>

\* Slip: exec.Command without the context in fetchMetadata.
KillSparesMetadata ==
    /\ canceled /\ proc \in {"running", "hung"} /\ step # "metadata"
    /\ proc' = "failed"
    /\ \E new \in Leaves(FALSE) : files' = files \cup new
    /\ UNCHANGED <<chain, rung, step, canceled, runVars, thumb, result>>

\* The context kills the process and ends the request.
Kill ==
    /\ canceled /\ proc \in {"running", "hung"}
    /\ proc' = "failed"
    /\ \E new \in Leaves(FALSE) : files' = files \cup new
    /\ UNCHANGED <<chain, rung, step, canceled, runVars, thumb, result>>

Cancel ==
    /\ ~canceled /\ step # "returned"
    /\ canceled' = TRUE
    /\ UNCHANGED <<chain, rung, step, proc, runVars, thumb, files, result>>

YtDlp ==
    \/ \E p \in Pipes, line \in Lines : Write(p, line)
    \/ Exit(TRUE) \/ Exit(FALSE)

\* yt-dlp waits for a reader that gave up on a line too long for it.
Stuck ==
    /\ step = "running" /\ proc = "running"
    /\ \E p \in Pipes : /\ reader[p] = "done" /\ Len(pipe[p]) = PipeCap
                        /\ todo[p] > 0 /\ Head(pipe[p]) = "long"

\* After the download comes module JobLifecycle; a hung call, or a yt-dlp that
\* nobody reads, just stays.
Rest == (step = "returned" \/ proc = "hung" \/ Stuck) /\ UNCHANGED vars

Next ==
    \/ Code
    \/ \E p \in Pipes : Reader(p)
    \/ YtDlp \/ Hang \/ Kill \/ Cancel
    \/ Rest

Spec == Init /\ [][Next]_vars

\* Goroutines are scheduled, a kill arrives, and an external call goes on
\* unless it hangs.
Fairness ==
    /\ WF_vars(Code)
    /\ \A p \in Pipes : WF_vars(Reader(p))
    /\ WF_vars(YtDlp)
    /\ WF_vars(Kill)

FairSpec == Spec /\ Fairness

-----------------------------------------------------------------------------
(* The promise this implements.                                               *)

Live(p) == reader[p] \in {"reading", "reporting"}

Promise == INSTANCE DownloadPromise WITH
               Writer <- Pipes,
               outcome <- result.status,
               calling <- proc \in {"running", "hung"},
               writers <- {p \in Pipes : Live(p)},
               left <- Len(chain) - rung

\* Worker, readers, external programs and whoever cancels keep DownloadPromise
\* together: no reader and no program outlives the attempt it belongs to, nothing
\* is started for a context that is done, and only a cancellation keeps the chain
\* from being tried to its end.
KeepsDownloadPromise == Promise!Spec

-----------------------------------------------------------------------------
(* Properties. *)

\* No goroutine of a run is left when its output is judged, so no progress is
\* written after the download has returned: JobLifecycle lets a worker write
\* progress only while it is downloading, and the text of a row that is done or
\* queued again rests on that.
NoReaderOutlivesRun ==
    (\E p \in Pipes : Live(p)) => step \in {"running", "join"}

\* What is sent was made by the attempt that succeeded: not left by a quality
\* that failed, not a partial file, not an image when there is a video.
ResultIsOfThisAttempt ==
    result.status = "ok" =>
        /\ result.file \in files
        /\ result.file.rung = rung
        /\ result.file.kind = "thumb" => chain[rung] = "best" /\ said

\* A cancelled download returns, wherever the cancellation finds it, and even
\* when yt-dlp hangs.  JobLifecycle's shutdown and /cancel rest on it.
CancelStopsDownload == canceled ~> step = "returned"

\* How far a canceled download is from its return: the steps of the worker's
\* goroutine, the end of the call, and per pipe a line to be written, read and
\* reported.
Distance(at) ==
    CASE at = "running" -> 6
      [] at = "join" -> 5
      [] at = "judge" -> 4
      [] at \in {"attempt", "metadata", "image", "thumbnail"} -> 3
      [] at \in {"start", "find", "link", "url"} -> 2
      [] at = "failed" -> 1
      [] at = "returned" -> 0

CallWork(call) ==
    CASE call = "running" -> 2 [] call = "hung" -> 1 [] OTHER -> 0

ReaderWork(at) ==
    CASE at = "reporting" -> 2 [] at = "reading" -> 1 [] OTHER -> 0

PipeWork(p) == 3 * todo[p] + 2 * Len(pipe[p]) + ReaderWork(reader[p])

WorkLeft ==
    Distance(step) + CallWork(proc) + PipeWork("stdout") + PipeWork("stderr")

\* A cancellation winds the download down, whoever moves: the worker, a reader,
\* yt-dlp and the kill each bring it nearer to its return.  No quality, image or
\* link is tried any more, and no two of them undo each other's work.
CancelWindsDown == [][canceled => WorkLeft' < WorkLeft]_vars

\* A download returns unless an external call hangs or a line does not fit into
\* the scanner.  Otherwise the goroutine, its two readers and a yt-dlp that
\* blocks on a full pipe never wait for each other for ever.
DownloadReturns == <>(step = "returned") \/ <>[](proc = "hung") \/ <>[]Stuck

-----------------------------------------------------------------------------
(* What a comment says and the code does not do. *)

\* Download: "If video download failed, try image fallback", namely when yt-dlp
\* says that there is no video.
NoVideoMeansImage ==
    [][step = "judge" /\ step' = "failed" /\ chain[rung] = "best" => ~said]_vars
=============================================================================
