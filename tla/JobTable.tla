------------------------------ MODULE JobTable ------------------------------
(***************************************************************************)
(* The table download_jobs and the statements the program runs on it.      *)
(*                                                                         *)
(* A row keeps the columns the program decides on.  Texts are classes: the *)
(* progress text is one of the six the code distinguishes, the error text  *)
(* says who failed the job.  Time is abstracted: started_at and            *)
(* finished_at are kept as "set or null", and a row may be as old as a     *)
(* statement needs it to be.                                               *)
(***************************************************************************)
EXTENDS Integers

CONSTANTS
    JobId,      \* values of the bigserial key, in the order of its sequence
    Created,    \* created_at of the row an id gets, the start of its insert: of
                \* inserts that overlap it may be the same or in the other order
    User,       \* Telegram users
    NoUser,     \* the user column of an id that has no row
    Admin       \* the users listed in admin.user_ids

ASSUME JobIdAssumption == JobId \subseteq Nat \ {0}

ASSUME CreatedAssumption == Created \in [JobId -> Nat]

ASSUME UserAssumption == NoUser \notin User /\ Admin \subseteq User

VARIABLE jobs   \* jobs[j]: the row of id j

(***************************************************************************)
(* "none": the sequence has not handed the id out yet.  "deleted": the     *)
(* cleanup removed the row; ids are never handed out twice.                *)
(***************************************************************************)
Terminal == {"done", "failed", "canceled"}

Status == {"none", "pending", "processing", "deleted"} \cup Terminal

Row == [status   : Status,
        user     : User \cup {NoUser},
        priority : {0, 1, 10},
        started  : BOOLEAN,
        finished : BOOLEAN,
        error    : {"none", "worker", "timeout"},
        progress : {"none", "Queued", "Active", "Completed", "Failed",
                    "Canceled", "Reaped"},
        retries  : Nat]

NoRow(s) == [status |-> s, user |-> NoUser, priority |-> 0,
             started |-> FALSE, finished |-> FALSE, error |-> "none",
             progress |-> "none", retries |-> 0]

Exists(j) == jobs[j].status \notin {"none", "deleted"}

\* Where a row is on the path of module RowPath.
Place(j) == IF jobs[j].status \in Terminal THEN "ended" ELSE jobs[j].status

-----------------------------------------------------------------------------
(* What each statement writes into the row it matches. *)

InsertedRow(u, p) ==
    [NoRow("pending") EXCEPT !.user = u, !.priority = p, !.progress = "Queued"]

\* Slip: the claim does not stamp started_at.
ClaimedRowUnstamped(r) ==
    [r EXCEPT !.status = "processing", !.progress = "Active"]

ClaimedRow(r) ==
    [r EXCEPT !.status = "processing", !.started = TRUE, !.progress = "Active"]

DoneRow(r) ==
    [r EXCEPT !.status = "done", !.error = "none", !.progress = "Completed",
              !.finished = TRUE]

RetryRow(r) ==
    [r EXCEPT !.status = "pending", !.error = "worker", !.retries = @ + 1,
              !.progress = "Queued", !.started = FALSE, !.finished = FALSE]

FailedRow(r) ==
    [r EXCEPT !.status = "failed", !.error = "worker", !.retries = @ + 1,
              !.progress = "Failed", !.finished = TRUE]

\* Slips: finished_at is not stamped, progress_text is not rewritten.
CanceledRowUnstamped(r) ==
    [r EXCEPT !.status = "canceled", !.progress = "Canceled"]

CanceledRowOldText(r) == [r EXCEPT !.status = "canceled", !.finished = TRUE]

CanceledRow(r) ==
    [r EXCEPT !.status = "canceled", !.progress = "Canceled", !.finished = TRUE]

ReapedRow(r) ==
    [r EXCEPT !.status = "failed", !.error = "timeout", !.progress = "Reaped",
              !.finished = TRUE]

ProgressRow(r) == [r EXCEPT !.progress = "Active"]

-----------------------------------------------------------------------------
(* The rows a statement's where clause selects. *)

NextId(j) == jobs[j].status = "none" /\ \A k \in JobId : k < j => jobs[k].status # "none"

\* order by priority desc, created_at asc; two rows with the same of both stand in
\* either order, and not always in the same.
Before(j, k) ==
    \/ jobs[j].priority > jobs[k].priority
    \/ jobs[j].priority = jobs[k].priority /\ Created[j] < Created[k]

\* Slip: the reaper goes by started_at alone.
ReapableByAge(j) == jobs[j].started

\* where status = 'processing' and started_at < now() - stuckMinutes
Reapable(j) == jobs[j].status = "processing" /\ jobs[j].started

\* where status in (...) and finished_at is not null and finished_at < ...
Removable(j) == jobs[j].status \in Terminal /\ jobs[j].finished
=============================================================================
