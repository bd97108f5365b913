------------------------ MODULE JobRefinementProofs ------------------------
(***************************************************************************)
(* JobLifecycle implements JobPromise.  An attempt is open from the commit *)
(* of a claim to the worker's "continue": every other detail of the worker *)
(* loops, the controller, the handlers and the process is a stutter, or    *)
(* one of the steps of the promise.                                        *)
(***************************************************************************)
EXTENDS JobLifecycleProofs

statusOf == [j \in JobId |-> jobs[j].status]

\* One row's status changes: how the mapped function changes.
LEMMA OneStatus ==
    ASSUME NEW j \in JobId, NEW s,
           \A k \in JobId : k # j => jobs'[k].status = jobs[k].status,
           jobs'[j].status = s
    PROVE  statusOf' = [statusOf EXCEPT ![j] = s]
BY DEF statusOf

LEMMA SameStatus ==
    ASSUME \A k \in JobId : jobs'[k].status = jobs[k].status
    PROVE  statusOf' = statusOf
BY DEF statusOf

-----------------------------------------------------------------------------
(* How the set of open attempts changes. *)

\* A worker moves inside an attempt, or outside of any.
LEMMA OpenStays ==
    ASSUME Core, NEW w \in Worker,
           \A v \in Worker \ {w} : pc'[v] = pc[v] /\ held'[v] = held[v],
           pc[w] \in Attempt <=> pc'[w] \in Attempt,
           pc[w] \in Attempt => held'[w] = held[w]
    PROVE  Open' = Open
BY DEF Open

\* A worker ends its attempt: no other worker has the same job.
LEMMA OpenEnds ==
    ASSUME Core, NEW w \in Worker, pc[w] \in Attempt, NextJob(w)
    PROVE  Open' = Open \ {held[w]}
<1>1. \A v \in Worker \ {w} :
         /\ pc'[v] = pc[v] /\ held'[v] = held[v]
         /\ pc[v] \in Attempt => held[v] # held[w]
  BY DEF NextJob, Core, Typing, TypeOK, Busy, ExclusiveClaim, Attempt, InHand, PC
<1>2. pc'[w] \notin Attempt
  BY DEF NextJob, Core, Typing, TypeOK, Attempt, InHand
<1>. QED BY <1>1, <1>2 DEF Open

LEMMA OpenBegins ==
    ASSUME Core, NEW w \in Worker, ClaimCommit(w)
    PROVE  Open' = Open \cup {held[w]} /\ held[w] \notin Open
<1>1. \A v \in Worker \ {w} :
         /\ pc'[v] = pc[v] /\ held'[v] = held[v]
         /\ pc[v] \in Attempt => held[v] # held[w]
  BY DEF ClaimCommit, Goto, Core, Typing, TypeOK, Busy, ExclusiveClaim, Attempt,
         InHand, PC
<1>2. pc[w] \notin Attempt /\ pc'[w] \in Attempt /\ held'[w] = held[w]
  BY DEF ClaimCommit, Goto, Core, Typing, TypeOK, Attempt, InHand, PC
<1>. QED BY <1>1, <1>2 DEF Open

-----------------------------------------------------------------------------
(* Each step maps to a step of the promise. *)

Mapped == Promise!Next \/ UNCHANGED Promise!vars

LEMMA WorkerMaps ==
    ASSUME Core, NEW w \in Worker, WorkerStep(w)
    PROVE  Mapped
<1>. DEFINE j == held[w]
<1>0. /\ jobs \in [JobId -> Row]
      /\ pc[w] \in InHand => j \in JobId
      /\ pc[w] \in Attempt => j \in Open
  BY DEF Core, Typing, TypeOK, Busy, Open
<1>. USE <1>0 DEF Attempt, InHand, PC, Mapped
<1>1. CASE ClaimCommit(w) \/ ClaimLost(w)
  <2>1. /\ pc[w] = "claiming" /\ jobs[j].status = "pending"
        /\ jobs' = [jobs EXCEPT ![j] = ClaimedRow(jobs[j])]
        /\ delivered' = delivered
    BY <1>1 DEF ClaimCommit, ClaimLost, Goto, Core, ClaimingPending
  <2>2. statusOf' = [statusOf EXCEPT ![j] = "processing"]
    BY <2>1, OneStatus, RowStatus
  <2>3. j \notin Open /\ Open' \in {Open, Open \cup {j}}
    <3>1. CASE ClaimCommit(w)
      BY <3>1, OpenBegins
    <3>2. CASE ClaimLost(w)
      <4>1. Open' = Open
        BY <3>2, <2>1, OpenStays DEF ClaimLost, NextJob, Core, Typing, TypeOK
      <4>2. ASSUME NEW v \in Worker, pc[v] \in Attempt
            PROVE  held[v] # j
        <5>1. v # w /\ held[v] # NoJob
          BY <2>1, <4>2 DEF Core, Typing, Busy
        <5>. QED BY <5>1 DEF Core, ExclusiveClaim
      <4>3. j \notin Open
        BY <4>2 DEF Open
      <4>. QED BY <4>1, <4>3
    <3>. QED BY <1>1, <3>1, <3>2
  <2>4. ASSUME NEW k \in JobId, k = j
        PROVE  Promise!Take(k)
    BY <2>1, <2>2, <2>3, <2>4 DEF Promise!Take, Promise!Become, statusOf
  <2>. QED BY <2>1, <2>4 DEF Promise!Next
<1>2. CASE HandleError(w) \/ FailJob(w) \/ MarkDone(w)
  <2>1. pc[w] \in Attempt /\ NextJob(w) /\ delivered' = delivered
    BY <1>2 DEF HandleError, FailJob, MarkDone
  <2>2. Open' = Open \ {j}
    BY <2>1, OpenEnds
  <2>3. jobs[j].status \in {"processing", "failed", "deleted"}
    BY <2>1 DEF Core, AttemptRow
  <2>4. CASE UNCHANGED jobs
    <3>1. Promise!Settle(j)
      BY <2>1, <2>2, <2>4 DEF Promise!Settle
    <3>. QED BY <2>1, <3>1 DEF Promise!Next
  <2>5. CASE jobs' # jobs
    <3>1. \E s \in {"done", "failed", "canceled"} :
             /\ jobs'[j].status = s
             /\ s = "done" => pc[w] = "sent"
             /\ s = "canceled" => pc[w] = "errored"
      <4>1. /\ jobs[j] \in Row
            /\ pc[w] \in {"errored", "inspect", "uploading", "sendFailed", "sent"}
            /\ \/ pc[w] = "errored" /\ jobs'[j] = CanceledRow(jobs[j])
               \/ jobs'[j] = FailedRow(jobs[j])
               \/ pc[w] = "sent" /\ jobs'[j] = DoneRow(jobs[j])
               \/ pc[w] \in {"downloading", "inspect"}
        BY <1>2, <2>1, <2>5, WorkerWrites DEF HandleError, FailJob, MarkDone
      <4>2. CASE pc[w] = "inspect"
        <5>1. TryUpdate(j, FailedRow(jobs[j]))
          BY <1>2, <4>2 DEF HandleError, FailJob, MarkDone
        <5>2. jobs'[j] = FailedRow(jobs[j])
          BY <2>1, <2>5, <5>1 DEF TryUpdate
        <5>. QED BY <4>1, <5>2, RowStatus
      <4>. QED BY <4>1, <4>2, RowStatus
    <3>2. /\ Exists(j)
          /\ \A k \in JobId : k # j => jobs'[k].status = jobs[k].status
      BY <2>5, WorkerWrites
    <3>3. PICK s \in {"done", "failed", "canceled"} :
             /\ jobs'[j].status = s
             /\ s = "done" => pc[w] = "sent"
             /\ s = "canceled" => pc[w] = "errored"
      BY <3>1
    <3>4. statusOf' = [statusOf EXCEPT ![j] = s]
      BY <2>1, <3>2, <3>3, OneStatus
    <3>5. /\ s = "done" => delivered[j] = 1
          /\ s = "canceled" => delivered[j] = 0
      BY <2>1, <3>3 DEF Core, AttemptDelivered
    <3>6. statusOf[j] \in {"processing", "failed"}
      BY <2>1, <2>3, <3>2 DEF statusOf, Exists
    <3>7. Promise!Truthful(j, s)
      BY <3>5, <3>6 DEF Promise!Truthful, Promise!Verdict, statusOf
    <3>8. Promise!Settle(j)
      BY <2>1, <2>2, <3>4, <3>7
         DEF Promise!Settle, Promise!Verdict, Promise!Become, statusOf
    <3>. QED BY <2>1, <3>8 DEF Promise!Next
  <2>. QED BY <2>4, <2>5
<1>3. CASE (SendOk(w) \/ SendErr(w)) /\ delivered' # delivered
  <2>1. /\ pc[w] = "uploading" /\ delivered' = [delivered EXCEPT ![j] = @ + 1]
        /\ UNCHANGED jobs
    BY <1>3 DEF SendOk, SendErr, Goto, Deliver
  <2>2. Open' = Open
    BY <1>3, OpenStays DEF SendOk, SendErr, Goto, Core, Typing, TypeOK
  <2>3. delivered[j] = 0
    BY <2>1 DEF Core, AttemptDelivered
  <2>4. Promise!Deliver(j)
    BY <2>1, <2>2, <2>3 DEF Promise!Deliver
  <2>. QED BY <2>1, <2>4 DEF Promise!Next
<1>4. CASE (SendOk(w) \/ SendErr(w)) /\ delivered' = delivered
  <2>1. Open' = Open
    BY <1>4, OpenStays DEF SendOk, SendErr, Goto, Core, Typing, TypeOK
  <2>2. UNCHANGED jobs
    BY <1>4 DEF SendOk, SendErr
  <2>. QED BY <1>4, <2>1, <2>2 DEF Promise!vars
<1>5. CASE Progress(w) \/ StartUpload(w)
  <2>1. Open' = Open
    BY <1>5, OpenStays DEF Progress, StartUpload, workerVars, Goto, Core, Typing, TypeOK
  <2>2. j \in JobId /\ TryUpdate(j, ProgressRow(jobs[j]))
    BY <1>5 DEF Progress, StartUpload, Goto
  <2>3. \A k \in JobId : jobs'[k].status = jobs[k].status
    BY <2>2, RowStatus DEF TryUpdate
  <2>4. UNCHANGED delivered
    BY <1>5 DEF Progress, StartUpload
  <2>. QED BY <2>1, <2>3, <2>4, SameStatus DEF Promise!vars, statusOf
<1>6. CASE \/ LoopExit(w) \/ ClaimSelect(w) \/ ClaimAbort(w) \/ Register(w)
           \/ DownloadOk(w) \/ DownloadErr(w) \/ Release(w)
  <2>1. Open' = Open
    BY <1>6, OpenStays
       DEF LoopExit, ClaimSelect, ClaimAbort, NextJob, Register, DownloadOk,
           DownloadErr, Release, Goto, Core, Typing, TypeOK
  <2>2. UNCHANGED <<jobs, delivered>>
    BY <1>6 DEF LoopExit, ClaimSelect, ClaimAbort, Register, DownloadOk,
                DownloadErr, Release
  <2>. QED BY <2>1, <2>2 DEF Promise!vars
<1>. QED
  BY <1>1, <1>2, <1>3, <1>4, <1>5, <1>6 DEF WorkerStep

LEMMA HandlerMaps ==
    ASSUME Core, NEW h \in Handler, HandlerStep(h)
    PROVE  Mapped
<1>0. UNCHANGED <<pc, held, delivered>>
  BY DEF HandlerStep, CancelPending, CheckOwner, Lookup, CallCancel, workerVars
<1>1. UNCHANGED delivered /\ Open' = Open
  BY <1>0 DEF Open
<1>2. CASE UNCHANGED jobs
  BY <1>1, <1>2 DEF Mapped, Promise!vars
<1>3. ASSUME NEW j \in JobId, jobs[j].status = "pending",
             jobs' = [jobs EXCEPT ![j] = CanceledRow(@)]
      PROVE  Mapped
  <2>1. /\ \A k \in JobId : k # j => jobs'[k].status = jobs[k].status
        /\ jobs'[j].status = "canceled"
    BY <1>3, RowStatus DEF Core, Typing, TypeOK
  <2>2. statusOf' = [statusOf EXCEPT ![j] = "canceled"]
    BY <2>1, OneStatus
  <2>3. Promise!Withdraw(j)
    BY <1>1, <1>3, <2>2 DEF Promise!Withdraw, Promise!Become, statusOf
  <2>. QED BY <2>3 DEF Mapped, Promise!Next
<1>. QED BY <1>2, <1>3, HandlerWrites

LEMMA SubmitMaps ==
    ASSUME Core, NEW u \in User, NEW p \in {0, 1}, Submit(u, p)
    PROVE  Mapped
<1>1. PICK j \in JobId : NextId(j) /\ jobs' = [jobs EXCEPT ![j] = InsertedRow(u, p)]
  BY DEF Submit
<1>2. /\ \A k \in JobId : k # j => jobs'[k].status = jobs[k].status
      /\ jobs'[j].status = "pending" /\ jobs[j].status = "none"
  BY <1>1 DEF Core, Typing, TypeOK, NextId, InsertedRow, NoRow
<1>3. statusOf' = [statusOf EXCEPT ![j] = "pending"]
  BY <1>2, OneStatus
<1>4. UNCHANGED delivered /\ Open' = Open
  BY DEF Submit, workerVars, Open
<1>5. Promise!Submit(j)
  BY <1>2, <1>3, <1>4 DEF Promise!Submit, Promise!Become, statusOf
<1>. QED BY <1>5 DEF Mapped, Promise!Next

LEMMA SetPriorityMaps ==
    ASSUME Core, NEW j \in JobId, NEW p \in {0, 10}, SetPriority(j, p)
    PROVE  Mapped
<1>1. \A k \in JobId : jobs'[k].status = jobs[k].status
  BY DEF SetPriority, Core, Typing, TypeOK, Row
<1>2. UNCHANGED delivered /\ Open' = Open
  BY DEF SetPriority, workerVars, Open
<1>. QED BY <1>1, <1>2, SameStatus DEF Mapped, Promise!vars, statusOf

LEMMA SweepMaps ==
    ASSUME Core, NEW S \in SUBSET JobId, Reap(S) \/ Cleanup(S)
    PROVE  Mapped
<1>0. jobs \in [JobId -> Row]
  BY DEF Core, Typing, TypeOK
<1>1. UNCHANGED delivered /\ Open' = Open
  BY DEF Reap, Cleanup, workerVars, Open
<1>2. CASE Reap(S)
  <2>1. \A k \in JobId :
           jobs'[k].status = IF k \in S THEN "failed" ELSE jobs[k].status
    BY <1>0, <1>2, RowStatus DEF Reap
  <2>2. statusOf' = [k \in JobId |-> IF k \in S THEN "failed" ELSE statusOf[k]]
    BY <2>1 DEF statusOf
  <2>3. Promise!Reap(S)
    BY <1>1, <1>2, <2>2 DEF Promise!Reap, statusOf, Reap, Reapable
  <2>. QED BY <2>3 DEF Mapped, Promise!Next
<1>3. CASE Cleanup(S)
  <2>1. \A k \in JobId :
           jobs'[k].status = IF k \in S THEN "deleted" ELSE jobs[k].status
    BY <1>3 DEF Cleanup, NoRow
  <2>2. statusOf' = [k \in JobId |-> IF k \in S THEN "deleted" ELSE statusOf[k]]
    BY <2>1 DEF statusOf
  <2>3. Promise!Forget(S)
    BY <1>1, <1>3, <2>2
       DEF Promise!Forget, Promise!Verdict, statusOf, Cleanup, Removable, Terminal
  <2>. QED BY <2>3 DEF Mapped, Promise!Next
<1>. QED BY <1>2, <1>3

LEMMA ProcessMaps ==
    ASSUME Core, ProcessStep
    PROVE  Mapped
<1>1. UNCHANGED <<jobs, delivered>>
  BY DEF ProcessStep, Signal, ExitClean, Crash, Vanish, Start
<1>2. CASE Signal
  BY <1>1, <1>2 DEF Signal, workerVars, Open, Mapped, Promise!vars
<1>3. CASE Vanish
  <2>1. Open' = {}
    BY <1>3 DEF Vanish, Open, Attempt, InHand
  <2>2. Promise!Abandon
    BY <1>1, <2>1 DEF Promise!Abandon
  <2>. QED BY <2>2 DEF Mapped, Promise!Next
<1>4. CASE Start
  <2>1. Open = {} /\ Open' = {}
    BY <1>4 DEF Start, Open, Attempt, InHand, Core, Typing, DownIsStopped
  <2>. QED BY <1>1, <2>1 DEF Mapped, Promise!vars
<1>. QED BY <1>2, <1>3, <1>4 DEF ProcessStep, ExitClean, Crash

\* The initial states map to the initial state of the promise.
LEMMA InitMaps == Init => Promise!Init
<1>. SUFFICES ASSUME Init PROVE Promise!Init
  OBVIOUS
<1>1. statusOf = [j \in JobId |-> "none"]
  BY DEF Init, statusOf, NoRow
<1>2. Open = {}
  BY DEF Init, Open, Attempt, InHand
<1>. QED BY <1>1, <1>2 DEF Init, Promise!Init, statusOf

LEMMA StepMaps == Core /\ [Next]_vars => [Promise!Next]_(Promise!vars)
<1>. SUFFICES ASSUME Core, [Next]_vars PROVE Mapped
  BY DEF Mapped
<1>1. CASE UNCHANGED vars
  BY <1>1 DEF vars, Mapped, Promise!vars, Open
<1>. QED
  BY <1>1, WorkerMaps, HandlerMaps, SubmitMaps, SetPriorityMaps, SweepMaps,
     ProcessMaps DEF Next

\* Workers, controller, handlers, reaper, cleanup and process together do what
\* JobPromise says of a job, and nothing else.
THEOREM LifecycleKeepsPromise == Spec => KeepsPromise
BY InitMaps, StepMaps, CoreInvariant, PTL DEF Spec, KeepsPromise, Promise!Spec

-----------------------------------------------------------------------------
(* What the promise is worth, from its own steps alone. *)

\* One status changes.
LEMMA BecomesOne ==
    ASSUME NEW j \in JobId, NEW s, Promise!Become(j, s)
    PROVE  /\ jobs'[j].status = s
           /\ \A k \in JobId : k # j => jobs'[k].status = jobs[k].status
<1>1. statusOf' = [statusOf EXCEPT ![j] = s]
  BY DEF Promise!Become, statusOf
<1>2. \A k \in JobId : statusOf'[k] = IF k = j THEN s ELSE statusOf[k]
  BY <1>1 DEF statusOf
<1>. QED BY <1>2 DEF statusOf

LEMMA SameHonest ==
    ASSUME Promise!Honest, UNCHANGED Promise!vars
    PROVE  Promise!Honest'
<1>1. statusOf' = statusOf /\ Open' = Open /\ delivered' = delivered
  BY DEF Promise!vars, statusOf
<1>2. \A k \in JobId : jobs'[k].status = jobs[k].status
  BY <1>1 DEF statusOf
<1>. QED BY <1>1, <1>2 DEF Promise!Honest

LEMMA JobHonest ==
    ASSUME Promise!Honest, NEW j \in JobId,
           \/ Promise!Submit(j) \/ Promise!Withdraw(j) \/ Promise!Take(j)
           \/ Promise!Deliver(j) \/ Promise!Settle(j)
    PROVE  Promise!Honest'
<1>. USE DEF Promise!Honest
<1>1. CASE Promise!Submit(j) \/ Promise!Withdraw(j)
  <2>1. \E s \in {"pending", "canceled"} : Promise!Become(j, s)
    BY <1>1 DEF Promise!Submit, Promise!Withdraw
  <2>2. jobs[j].status \in {"none", "pending"} /\ Open' = Open /\ delivered' = delivered
    BY <1>1 DEF Promise!Submit, Promise!Withdraw
  <2>. QED BY <2>1, <2>2, BecomesOne
<1>2. CASE Promise!Take(j)
  <2>1. /\ Promise!Become(j, "processing") /\ delivered' = delivered
        /\ Open' \in {Open, Open \cup {j}}
    BY <1>2 DEF Promise!Take
  <2>. QED BY <2>1, BecomesOne
<1>3. CASE Promise!Deliver(j)
  <2>1. /\ j \in Open /\ delivered' = [delivered EXCEPT ![j] = 1]
        /\ statusOf' = statusOf /\ Open' = Open
    BY <1>3 DEF Promise!Deliver, statusOf
  <2>2. \A k \in JobId : jobs'[k].status = jobs[k].status
    BY <2>1 DEF statusOf
  <2>. QED BY <2>1, <2>2
<1>4. CASE Promise!Settle(j)
  <2>1. Open' = Open \ {j} /\ delivered' = delivered /\ j \in Open
    BY <1>4 DEF Promise!Settle
  <2>2. CASE statusOf' = statusOf
    <3>1. \A k \in JobId : jobs'[k].status = jobs[k].status
      BY <2>2 DEF statusOf
    <3>. QED BY <2>1, <3>1
  <2>3. ASSUME NEW s \in Promise!Verdict \cup {"pending"},
               Promise!Truthful(j, s), Promise!Become(j, s)
        PROVE  Promise!Honest'
    <3>1. /\ s = "done" => delivered[j] = 1
          /\ s \in {"canceled", "pending"} => delivered[j] = 0
          /\ s # "none"
      BY <2>3 DEF Promise!Truthful, Promise!Verdict
    <3>. QED BY <2>1, <2>3, <3>1, BecomesOne
  <2>. QED BY <1>4, <2>2, <2>3 DEF Promise!Settle, statusOf
<1>. QED BY <1>1, <1>2, <1>3, <1>4

LEMMA SweepHonest ==
    ASSUME Promise!Honest, NEW S \in SUBSET JobId,
           Promise!Reap(S) \/ Promise!Forget(S)
    PROVE  Promise!Honest'
<1>1. PICK to \in {"failed", "deleted"} :
         statusOf' = [j \in JobId |-> IF j \in S THEN to ELSE statusOf[j]]
  BY DEF Promise!Reap, Promise!Forget, statusOf
<1>2. \A k \in JobId :
         jobs'[k].status = IF k \in S THEN to ELSE jobs[k].status
  BY <1>1 DEF statusOf
<1>3. Open' = Open /\ delivered' = delivered
  BY DEF Promise!Reap, Promise!Forget
<1>. QED BY <1>2, <1>3 DEF Promise!Honest

LEMMA AbandonHonest ==
    ASSUME Promise!Honest, Promise!Abandon
    PROVE  Promise!Honest'
<1>1. statusOf' = statusOf /\ Open' = {} /\ delivered' = delivered
  BY DEF Promise!Abandon, statusOf
<1>2. \A k \in JobId : jobs'[k].status = jobs[k].status
  BY <1>1 DEF statusOf
<1>. QED BY <1>1, <1>2 DEF Promise!Honest

\* Whatever keeps the promise is honest about its jobs: waiting and canceled ones
\* were not delivered, and a done one was, exactly once.  The steps of the promise
\* are enough for that; nothing of workers, registry or process is used.
THEOREM PromiseIsHonest == Promise!Spec => []Promise!Honest
<1>1. Promise!Init => Promise!Honest
  <2>. SUFFICES ASSUME Promise!Init PROVE Promise!Honest
    OBVIOUS
  <2>1. statusOf = [j \in JobId |-> "none"] /\ Open = {}
        /\ delivered = [j \in JobId |-> 0]
    BY DEF Promise!Init, statusOf
  <2>2. \A j \in JobId : jobs[j].status = "none"
    BY <2>1 DEF statusOf
  <2>. QED BY <2>1, <2>2 DEF Promise!Honest
<1>2. Promise!Honest /\ [Promise!Next]_(Promise!vars) => Promise!Honest'
  BY SameHonest, JobHonest, SweepHonest, AbandonHonest DEF Promise!Next
<1>. QED BY <1>1, <1>2, PTL DEF Promise!Spec

\* So the rows of the bot are honest, through the refinement.
THEOREM LifecycleIsHonest == Spec => []Promise!Honest
BY LifecycleKeepsPromise, PromiseIsHonest, PTL DEF KeepsPromise

-----------------------------------------------------------------------------
(* Rows only move on. *)

\* A statement that takes the rows of S one move further, and leaves the others.
LEMMA PathStep ==
    ASSUME NEW S \in SUBSET JobId, NEW from, NEW to, <<from, to>> \in Path!Moves,
           \A j \in S : Place(j) = from,
           \A j \in JobId : Place(j)' = IF j \in S THEN to ELSE Place(j)
    PROVE  Path!Next
<1>. DEFINE m == <<from, to>>
<1>1. m[1] = from /\ m[2] = to
  OBVIOUS
<1>2. Path!Statement(S, m)
  BY <1>1 DEF Path!Statement
<1>. QED BY <1>2 DEF Path!Next

\* One row moves.
LEMMA PathOne ==
    ASSUME NEW j \in JobId, NEW from, NEW to, <<from, to>> \in Path!Moves,
           Place(j) = from, Place(j)' = to,
           \A k \in JobId : k # j => jobs'[k] = jobs[k]
    PROVE  Path!Next
<1>1. \A k \in JobId : Place(k)' = IF k \in {j} THEN to ELSE Place(k)
  BY DEF Place
<1>2. {j} \in SUBSET JobId /\ \A k \in {j} : Place(k) = from
  OBVIOUS
<1>. QED BY <1>1, <1>2, PathStep

\* No row does.
LEMMA PathStutters ==
    ASSUME \A k \in JobId : Place(k)' = Place(k)
    PROVE  UNCHANGED [j \in JobId |-> Place(j)]
OBVIOUS

OnPath == Path!Next \/ UNCHANGED [j \in JobId |-> Place(j)]

\* A worker's statement takes its row from the queue, ends it, or writes to a row
\* that has ended already.  That a failed download never comes back to the queue
\* is in WorkerWrites: the worker has called cancel() itself by then.
LEMMA WorkerOnPath ==
    ASSUME Core, NEW w \in Worker, WorkerStep(w)
    PROVE  OnPath
<1>0. jobs \in [JobId -> Row]
  BY DEF Core, Typing, TypeOK
<1>1. CASE UNCHANGED jobs
  <2>1. \A k \in JobId : Place(k)' = Place(k)
    BY <1>1 DEF Place
  <2>. QED BY <2>1, PathStutters DEF OnPath
<1>2. CASE jobs' # jobs
  <2>0. held[w] \in JobId
    BY <1>2, WorkerWrites
  <2>. PICK j \in JobId : j = held[w]
    BY <2>0
  <2>1. /\ Exists(j) /\ jobs[j] \in Row
        /\ \A k \in JobId : k # j => jobs'[k] = jobs[k]
    BY <1>0, <1>2, WorkerWrites
  <2>2. CASE jobs'[j] = ProgressRow(jobs[j])
    <3>1. \A k \in JobId : Place(k)' = Place(k)
      BY <2>1, <2>2, RowStatus DEF Place
    <3>. QED BY <3>1, PathStutters DEF OnPath
  <2>3. CASE pc[w] = "claiming" /\ jobs'[j] = ClaimedRow(jobs[j])
    <3>1. jobs[j].status = "pending" /\ jobs'[j].status = "processing"
      BY <2>1, <2>3, RowStatus DEF Core, ClaimingPending
    <3>2. Place(j) = "pending" /\ Place(j)' = "processing"
      BY <3>1 DEF Place, Terminal
    <3>. QED BY <2>1, <3>2, PathOne DEF OnPath, Path!Moves
  <2>4. CASE /\ pc[w] \in {"errored", "inspect", "uploading", "sendFailed", "sent"}
             /\ jobs'[j] \in {CanceledRow(jobs[j]), FailedRow(jobs[j]), DoneRow(jobs[j])}
    <3>1. jobs'[j].status \in {"canceled", "failed", "done"}
      BY <2>1, <2>4, RowStatus
    <3>2. Place(j)' = "ended"
      BY <3>1 DEF Place, Terminal
    <3>3. jobs[j].status \in {"processing", "failed"}
      <4>1. jobs[j].status \in {"processing", "failed", "deleted"}
        BY <2>4 DEF Core, AttemptRow, Attempt, InHand, PC
      <4>. QED BY <2>1, <4>1 DEF Exists
    <3>4. CASE jobs[j].status = "processing"
      <4>1. Place(j) = "processing"
        BY <3>4 DEF Place, Terminal
      <4>. QED BY <2>1, <3>2, <4>1, PathOne DEF OnPath, Path!Moves
    <3>5. CASE jobs[j].status = "failed"
      <4>1. \A k \in JobId : Place(k)' = Place(k)
        BY <2>1, <3>2, <3>5 DEF Place, Terminal
      <4>. QED BY <4>1, PathStutters DEF OnPath
    <3>. QED BY <3>3, <3>4, <3>5
  <2>. QED BY <1>2, <2>2, <2>3, <2>4, WorkerWrites
<1>. QED BY <1>1, <1>2

LEMMA OthersOnPath ==
    ASSUME Core, [Next]_vars, \A w \in Worker : ~WorkerStep(w)
    PROVE  OnPath
<1>0. jobs \in [JobId -> Row]
  BY DEF Core, Typing, TypeOK
<1>1. CASE UNCHANGED jobs
  <2>1. \A k \in JobId : Place(k)' = Place(k)
    BY <1>1 DEF Place
  <2>. QED BY <2>1, PathStutters DEF OnPath
<1>2. ASSUME NEW h \in Handler, HandlerStep(h)
      PROVE  OnPath
  <2>1. CASE UNCHANGED jobs
    BY <1>1, <2>1
  <2>2. ASSUME NEW j \in JobId, jobs[j].status = "pending",
               jobs' = [jobs EXCEPT ![j] = CanceledRow(@)]
        PROVE  OnPath
    <3>1. jobs'[j].status = "canceled" /\ \A k \in JobId : k # j => jobs'[k] = jobs[k]
      BY <1>0, <2>2, RowStatus
    <3>2. Place(j) = "pending" /\ Place(j)' = "ended"
      BY <2>2, <3>1 DEF Place, Terminal
    <3>. QED BY <3>1, <3>2, PathOne DEF OnPath, Path!Moves
  <2>. QED BY <1>2, <2>1, <2>2, HandlerWrites
<1>3. ASSUME NEW u \in User, NEW p \in {0, 1}, Submit(u, p)
      PROVE  OnPath
  <2>1. PICK j \in JobId : NextId(j) /\ jobs' = [jobs EXCEPT ![j] = InsertedRow(u, p)]
    BY <1>3 DEF Submit
  <2>2. /\ jobs[j].status = "none" /\ jobs'[j].status = "pending"
        /\ \A k \in JobId : k # j => jobs'[k] = jobs[k]
    BY <1>0, <2>1 DEF NextId, InsertedRow, NoRow
  <2>3. Place(j) = "none" /\ Place(j)' = "pending"
    BY <2>2 DEF Place, Terminal
  <2>. QED BY <2>2, <2>3, PathOne DEF OnPath, Path!Moves
<1>4. ASSUME NEW j \in JobId, NEW p \in {0, 10}, SetPriority(j, p)
      PROVE  OnPath
  <2>1. \A k \in JobId : jobs'[k].status = jobs[k].status
    BY <1>0, <1>4 DEF SetPriority, Row
  <2>2. \A k \in JobId : Place(k)' = Place(k)
    BY <2>1 DEF Place
  <2>. QED BY <2>2, PathStutters DEF OnPath
<1>5. ASSUME NEW S \in SUBSET JobId, Reap(S)
      PROVE  OnPath
  <2>1. \A k \in S : jobs[k].status = "processing" /\ jobs'[k].status = "failed"
    BY <1>0, <1>5, RowStatus DEF Reap, Reapable
  <2>2. \A k \in JobId \ S : jobs'[k] = jobs[k]
    BY <1>5 DEF Reap
  <2>3. /\ \A k \in S : Place(k) = "processing"
        /\ \A k \in JobId : Place(k)' = IF k \in S THEN "ended" ELSE Place(k)
    BY <2>1, <2>2 DEF Place, Terminal
  <2>. QED BY <2>3, PathStep DEF OnPath, Path!Moves
<1>6. ASSUME NEW S \in SUBSET JobId, Cleanup(S)
      PROVE  OnPath
  <2>1. \A k \in S : jobs[k].status \in Terminal /\ jobs'[k].status = "deleted"
    BY <1>6 DEF Cleanup, Removable, NoRow
  <2>2. \A k \in JobId \ S : jobs'[k] = jobs[k]
    BY <1>6 DEF Cleanup
  <2>3. /\ \A k \in S : Place(k) = "ended"
        /\ \A k \in JobId : Place(k)' = IF k \in S THEN "deleted" ELSE Place(k)
    BY <2>1, <2>2 DEF Place, Terminal
  <2>. QED BY <2>3, PathStep DEF OnPath, Path!Moves
<1>7. CASE ProcessStep \/ UNCHANGED vars
  BY <1>1, <1>7 DEF ProcessStep, Signal, ExitClean, Crash, Vanish, Start, vars
<1>. QED BY <1>2, <1>3, <1>4, <1>5, <1>6, <1>7 DEF Next

\* A row is queued once, taken once and ended before it is removed, whatever the
\* workers, /cancel, the reaper, the cleanup and restarts do to it at the same
\* time: what the other modules assume of the statements they leave out.
THEOREM LifecycleRowsMoveOn == Spec => RowsMoveOn
<1>1. Init => Path!Init
  BY DEF Init, Path!Init, Place, NoRow, Terminal
<1>2. Core /\ [Next]_vars => [Path!Next]_([j \in JobId |-> Place(j)])
  BY WorkerOnPath, OthersOnPath DEF OnPath
<1>. QED BY <1>1, <1>2, CoreInvariant, PTL DEF Spec, RowsMoveOn, Path!Spec
=============================================================================
