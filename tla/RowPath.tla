------------------------------- MODULE RowPath -------------------------------
(***************************************************************************)
(* The way of a row of download_jobs, whoever writes to it: queued, taken  *)
(* by one worker, ended, removed.  A row never goes back.  JobLifecycle    *)
(* models every statement on a row; Admission, QueueView and Housekeeping  *)
(* model some of them and assume that the others do no more than this.     *)
(* All four implement this module, so the assumption is one they share.    *)
(* It rests on the order in Loop that run doc_retry is about: cancel() is  *)
(* called before a failed download is judged, so no row is queued again.   *)
(*                                                                         *)
(* The column status has more values: "ended" stands for done, failed and  *)
(* canceled, and a worker that overwrites one of them with another changes *)
(* nothing here.  "none" is an id that was not handed out yet, "deleted"   *)
(* one that has no row any more, or never got one.                         *)
(***************************************************************************)
CONSTANT JobId

VARIABLE at     \* per id: how far its row has come

\* What one statement makes of the rows it matches.  An insert that fails uses
\* its id up.
Moves == {<<"none", "pending">>, <<"none", "deleted">>,
          <<"pending", "processing">>, <<"pending", "ended">>,
          <<"processing", "ended">>, <<"ended", "deleted">>}

\* A row may be watched from its insert on, or from the queue on.
Init == at \in [JobId -> {"none", "pending"}]

\* The claim and the verdicts match one row, the reaper and the cleanup several.
Statement(S, move) ==
    /\ \A j \in S : at[j] = move[1]
    /\ at' = [j \in JobId |-> IF j \in S THEN move[2] ELSE at[j]]

Next == \E S \in SUBSET JobId, move \in Moves : Statement(S, move)

Spec == Init /\ [][Next]_at
=============================================================================
