----------------------------- MODULE JobPromise -----------------------------
(***************************************************************************)
(* What the bot promises about a job, without workers, handlers, contexts  *)
(* or processes: a status, the set of jobs being attempted, and how often  *)
(* each was delivered.                                                     *)
(*                                                                         *)
(* An attempt may deliver once and may then settle the row, truthfully:    *)
(* done only after a delivery, canceled or queued again only without one.  *)
(* It may also end without settling anything (the process went down, the   *)
(* write failed), and the row of an attempt may be reaped or forgotten     *)
(* while the attempt goes on.                                              *)
(***************************************************************************)
EXTENDS Naturals

CONSTANT JobId

VARIABLES status, open, delivered

vars == <<status, open, delivered>>

Verdict == {"done", "failed", "canceled"}

Init ==
    /\ status = [j \in JobId |-> "none"]
    /\ open = {}
    /\ delivered = [j \in JobId |-> 0]

Become(j, s) == status' = [status EXCEPT ![j] = s]

Submit(j) ==
    /\ status[j] = "none"
    /\ Become(j, "pending")
    /\ UNCHANGED <<open, delivered>>

Withdraw(j) ==
    /\ status[j] = "pending"
    /\ Become(j, "canceled")
    /\ UNCHANGED <<open, delivered>>

\* A claim opens an attempt, or is lost on the way back to its worker.
Take(j) ==
    /\ status[j] = "pending" /\ j \notin open
    /\ Become(j, "processing")
    /\ open' \in {open, open \cup {j}}
    /\ UNCHANGED delivered

Deliver(j) ==
    /\ j \in open /\ delivered[j] = 0
    /\ delivered' = [delivered EXCEPT ![j] = 1]
    /\ UNCHANGED <<status, open>>

Truthful(j, s) ==
    /\ status[j] \in {"processing"} \cup Verdict
    /\ s = "done" => delivered[j] = 1
    /\ s = "canceled" => delivered[j] = 0
    /\ s = "pending" => delivered[j] = 0 /\ status[j] = "processing"

Settle(j) ==
    /\ j \in open
    /\ open' = open \ {j}
    /\ \/ UNCHANGED status
       \/ \E s \in Verdict \cup {"pending"} : Truthful(j, s) /\ Become(j, s)
    /\ UNCHANGED delivered

Abandon == open' = {} /\ UNCHANGED <<status, delivered>>

Reap(S) ==
    /\ \A j \in S : status[j] = "processing"
    /\ status' = [j \in JobId |-> IF j \in S THEN "failed" ELSE status[j]]
    /\ UNCHANGED <<open, delivered>>

Forget(S) ==
    /\ \A j \in S : status[j] \in Verdict
    /\ status' = [j \in JobId |-> IF j \in S THEN "deleted" ELSE status[j]]
    /\ UNCHANGED <<open, delivered>>

Next ==
    \/ \E j \in JobId :
          Submit(j) \/ Withdraw(j) \/ Take(j) \/ Deliver(j) \/ Settle(j)
    \/ \E S \in SUBSET JobId : Reap(S) \/ Forget(S)
    \/ Abandon

Spec == Init /\ [][Next]_vars

-----------------------------------------------------------------------------

\* What a user reads off a row is true: a job that waits or was canceled has not
\* been delivered, a job that is done has been, once, and nobody still works on
\* it who could change that.
Honest ==
    /\ delivered \in [JobId -> {0, 1}]
    /\ \A j \in JobId :
          /\ status[j] \in {"none", "pending", "canceled"} =>
                j \notin open /\ delivered[j] = 0
          /\ status[j] = "done" => j \notin open /\ delivered[j] = 1
=============================================================================
