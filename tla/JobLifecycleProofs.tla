------------------------- MODULE JobLifecycleProofs -------------------------
(***************************************************************************)
(* Theorems about JobLifecycle, for every set of jobs, users, workers and  *)
(* handlers and every retry limit.                                         *)
(***************************************************************************)
EXTENDS JobLifecycle, TLAPS

-----------------------------------------------------------------------------
(* The statements write well-formed rows. *)

LEMMA RowsWellFormed ==
    /\ \A u \in User, p \in {0, 1} : InsertedRow(u, p) \in Row
    /\ NoRow("none") \in Row /\ NoRow("deleted") \in Row
    /\ \A r \in Row : /\ ClaimedRow(r) \in Row /\ DoneRow(r) \in Row
                      /\ RetryRow(r) \in Row /\ FailedRow(r) \in Row
                      /\ CanceledRow(r) \in Row /\ ReapedRow(r) \in Row
                      /\ ProgressRow(r) \in Row
<1>1. \A u \in User, p \in {0, 1} : InsertedRow(u, p) \in Row
  BY DEF InsertedRow, NoRow, Row, Status, Terminal
<1>2. NoRow("none") \in Row /\ NoRow("deleted") \in Row
  BY DEF NoRow, Row, Status, Terminal
<1>3. ASSUME NEW r \in Row
      PROVE  /\ ClaimedRow(r) \in Row /\ DoneRow(r) \in Row
             /\ RetryRow(r) \in Row /\ FailedRow(r) \in Row
             /\ CanceledRow(r) \in Row /\ ReapedRow(r) \in Row
             /\ ProgressRow(r) \in Row
  <2>. USE DEF Row, Status, Terminal
  <2>1. r.retries + 1 \in Nat
    OBVIOUS
  <2>2. ClaimedRow(r) \in Row /\ ProgressRow(r) \in Row
    BY DEF ClaimedRow, ProgressRow
  <2>3. DoneRow(r) \in Row
    BY DEF DoneRow
  <2>4. RetryRow(r) \in Row
    BY <2>1 DEF RetryRow
  <2>5. FailedRow(r) \in Row
    BY <2>1 DEF FailedRow
  <2>6. CanceledRow(r) \in Row /\ ReapedRow(r) \in Row
    BY DEF CanceledRow, ReapedRow
  <2>. QED BY <2>2, <2>3, <2>4, <2>5, <2>6
<1>. QED BY <1>1, <1>2, <1>3

\* A statement by primary key leaves a well-formed table.
LEMMA TryUpdateTyped ==
    ASSUME jobs \in [JobId -> Row], NEW j, NEW r \in Row, TryUpdate(j, r)
    PROVE  jobs' \in [JobId -> Row]
BY DEF TryUpdate

-----------------------------------------------------------------------------
(* Type correctness. *)

\* A worker that has a job has one of the table's.
Busy == \A w \in Worker : held[w] # NoJob <=> pc[w] \in InHand

\* While there is no process, no worker runs.
DownIsStopped == ~up => \A w \in Worker : pc[w] = "stopped"

\* A /cancel on its way names a job, and a worker once it has found one.
CommandsNamed ==
    \A h \in Handler :
        /\ cmd[h].step # "idle" => cmd[h].job \in JobId /\ cmd[h].user \in User
        /\ cmd[h].step = "call" => cmd[h].target \in Worker

Typing == TypeOK /\ Busy /\ DownIsStopped /\ CommandsNamed

LEMMA TypingInit == Init => Typing
<1>. SUFFICES ASSUME Init PROVE Typing
  OBVIOUS
<1>1. jobs \in [JobId -> Row]
  BY RowsWellFormed DEF Init
<1>2. cmd \in [Handler -> [step   : {"idle", "check", "lookup", "call"},
                          job    : JobId \cup {NoJob},
                          user   : User \cup {NoUser},
                          target : Worker \cup {NoWorker}]]
  BY DEF Init, NoCmd
<1>3. TypeOK
  BY <1>1, <1>2 DEF Init, TypeOK, PC
<1>. QED
  BY <1>3 DEF Init, Typing, Busy, DownIsStopped, CommandsNamed, PC, InHand, NoCmd

LEMMA WorkerTyping ==
    ASSUME Typing, NEW w \in Worker, WorkerStep(w)
    PROVE  Typing'
<1>. USE DEF Typing, TypeOK, Busy, DownIsStopped, CommandsNamed, PC, InHand
<1>a. pc[w] \in InHand => held[w] \in JobId /\ jobs[held[w]] \in Row
  BY DEF InHand
<1>1. CASE LoopExit(w)
  BY <1>1 DEF LoopExit, Goto
<1>2. CASE ClaimSelect(w)
  <2>1. PICK j \in JobId : /\ held' = [held EXCEPT ![w] = j]
                           /\ tries' = [tries EXCEPT ![w] = jobs[j].retries]
    BY <1>2 DEF ClaimSelect
  <2>2. jobs[j].retries \in Nat
    BY DEF Row
  <2>. QED BY <1>2, <2>1, <2>2, NoJobAssumption DEF ClaimSelect, Goto
<1>3. CASE ClaimCommit(w)
  <2>1. jobs' \in [JobId -> Row]
    BY <1>3, <1>a, RowsWellFormed DEF ClaimCommit, Goto
  <2>. QED BY <1>3, <2>1 DEF ClaimCommit, Goto
<1>4. CASE ClaimAbort(w)
  BY <1>4 DEF ClaimAbort, NextJob
<1>5. CASE ClaimLost(w)
  <2>1. jobs' \in [JobId -> Row]
    BY <1>5, <1>a, RowsWellFormed DEF ClaimLost
  <2>. QED BY <1>5, <2>1 DEF ClaimLost, NextJob
<1>6. CASE Register(w)
  BY <1>6 DEF Register, Goto
<1>7. CASE Progress(w)
  <2>1. jobs' \in [JobId -> Row]
    BY <1>7, <1>a, RowsWellFormed, TryUpdateTyped DEF Progress
  <2>. QED BY <1>7, <2>1 DEF Progress, workerVars
<1>8. CASE DownloadOk(w)
  BY <1>8 DEF DownloadOk, Goto
<1>9. CASE DownloadErr(w)
  BY <1>9 DEF DownloadErr, Goto
<1>10. CASE Release(w)
  BY <1>10 DEF Release, Goto
<1>11. CASE HandleError(w)
  <2>1. ErrorRow(w, jobs[held[w]]) \in Row
    BY <1>11, <1>a, RowsWellFormed DEF HandleError, ErrorRow
  <2>2. jobs' \in [JobId -> Row]
    BY <1>11, <2>1, TryUpdateTyped DEF HandleError
  <2>. QED BY <1>11, <2>2 DEF HandleError, NextJob
<1>12. CASE FailJob(w)
  <2>1. jobs' \in [JobId -> Row]
    BY <1>12, <1>a, RowsWellFormed, TryUpdateTyped DEF FailJob
  <2>. QED BY <1>12, <2>1 DEF FailJob, NextJob
<1>13. CASE StartUpload(w)
  <2>1. jobs' \in [JobId -> Row]
    BY <1>13, <1>a, RowsWellFormed, TryUpdateTyped DEF StartUpload, Goto
  <2>. QED BY <1>13, <2>1 DEF StartUpload, Goto
<1>14. CASE SendOk(w)
  BY <1>14 DEF SendOk, Goto, Deliver
<1>15. CASE SendErr(w)
  BY <1>15 DEF SendErr, Goto, Deliver
<1>16. CASE MarkDone(w)
  <2>1. jobs' \in [JobId -> Row]
    BY <1>16, <1>a, RowsWellFormed, TryUpdateTyped DEF MarkDone
  <2>. QED BY <1>16, <2>1 DEF MarkDone, NextJob
<1>. QED
  BY <1>1, <1>2, <1>3, <1>4, <1>5, <1>6, <1>7, <1>8, <1>9, <1>10, <1>11,
     <1>12, <1>13, <1>14, <1>15, <1>16 DEF WorkerStep

LEMMA HandlerTyping ==
    ASSUME Typing, NEW h \in Handler, HandlerStep(h)
    PROVE  Typing'
<1>. USE DEF Typing, TypeOK, Busy, DownIsStopped, CommandsNamed, PC, workerVars
<1>1. ASSUME NEW j \in JobId, NEW u \in User, CancelPending(h, j, u)
      PROVE  Typing'
  <2>1. jobs' \in [JobId -> Row]
    BY <1>1, RowsWellFormed DEF CancelPending
  <2>2. CASE Withdrawable(j, u)
    BY <1>1, <2>1, <2>2 DEF CancelPending
  <2>3. CASE ~Withdrawable(j, u)
    <3>. DEFINE c == [NoCmd EXCEPT !.step = "check", !.job = j, !.user = u]
    <3>1. cmd' = [cmd EXCEPT ![h] = c]
      BY <1>1, <2>3 DEF CancelPending
    <3>2. c \in [step   : {"idle", "check", "lookup", "call"},
                job    : JobId \cup {NoJob},
                user   : User \cup {NoUser},
                target : Worker \cup {NoWorker}]
      BY DEF NoCmd
    <3>3. /\ c.step = "check" /\ c.job = j /\ c.user = u
      BY DEF NoCmd
    <3>. HIDE DEF c
    <3>. QED BY <1>1, <2>1, <2>3, <3>1, <3>2, <3>3 DEF CancelPending
  <2>. QED BY <2>2, <2>3
<1>2. CASE CheckOwner(h)
  BY <1>2 DEF CheckOwner, NoCmd
<1>3. CASE Lookup(h)
  <2>1. cmd[h].job \in JobId => cancels[cmd[h].job] \in Worker \cup {NoWorker}
    OBVIOUS
  <2>. QED BY <1>3, <2>1 DEF Lookup, NoCmd
<1>4. CASE CallCancel(h)
  BY <1>4 DEF CallCancel, NoCmd
<1>. QED BY <1>1, <1>2, <1>3, <1>4 DEF HandlerStep


LEMMA SubmitTyping ==
    ASSUME Typing, NEW u \in User, NEW p \in {0, 1}, Submit(u, p)
    PROVE  Typing'
<1>1. jobs' \in [JobId -> Row]
  BY RowsWellFormed DEF Submit, Typing, TypeOK
<1>. QED
  BY <1>1 DEF Submit, Typing, TypeOK, Busy, DownIsStopped, CommandsNamed, workerVars

LEMMA SetPriorityTyping ==
    ASSUME Typing, NEW j \in JobId, NEW p \in {0, 10}, SetPriority(j, p)
    PROVE  Typing'
<1>1. [jobs[j] EXCEPT !.priority = p] \in Row
  <2>1. jobs[j] \in Row
    BY DEF Typing, TypeOK
  <2>. QED BY <2>1 DEF Row
<1>2. jobs' = [jobs EXCEPT ![j] = [jobs[j] EXCEPT !.priority = p]]
  BY DEF SetPriority
<1>3. jobs' \in [JobId -> Row]
  BY <1>1, <1>2 DEF Typing, TypeOK
<1>. QED
  BY <1>3 DEF SetPriority, Typing, TypeOK, Busy, DownIsStopped, CommandsNamed,
              workerVars

LEMMA SweepTyping ==
    ASSUME Typing, NEW S \in SUBSET JobId, Reap(S) \/ Cleanup(S)
    PROVE  Typing'
<1>1. jobs' \in [JobId -> Row]
  BY RowsWellFormed DEF Reap, Cleanup, Typing, TypeOK
<1>. QED
  BY <1>1 DEF Reap, Cleanup, Typing, TypeOK, Busy, DownIsStopped, CommandsNamed,
              workerVars

LEMMA ProcessTyping ==
    ASSUME Typing, ProcessStep
    PROVE  Typing'
<1>. USE DEF Typing, TypeOK, Busy, DownIsStopped, CommandsNamed, PC, InHand
<1>1. CASE Signal
  BY <1>1 DEF Signal, workerVars
<1>2. CASE Vanish
  BY <1>2 DEF Vanish, NoCmd
<1>3. CASE Start
  BY <1>3 DEF Start
<1>. QED BY <1>1, <1>2, <1>3 DEF ProcessStep, ExitClean, Crash

LEMMA TypingStep == Typing /\ [Next]_vars => Typing'
<1>. SUFFICES ASSUME Typing, [Next]_vars PROVE Typing'
  OBVIOUS
<1>1. CASE UNCHANGED vars
  BY <1>1 DEF vars, Typing, TypeOK, Busy, DownIsStopped, CommandsNamed
<1>. QED
  BY <1>1, WorkerTyping, HandlerTyping, SubmitTyping, SetPriorityTyping,
     SweepTyping, ProcessTyping DEF Next

\* Every variable keeps its type: in particular no worker, handler or statement
\* ever names a job or a worker that does not exist.
THEOREM TypeCorrect == Spec => []TypeOK
<1>1. Typing => TypeOK
  BY DEF Typing
<1>. QED BY <1>1, TypingInit, TypingStep, PTL DEF Spec


-----------------------------------------------------------------------------
(* The inductive invariant.  What the row says is tied to where the worker *)
(* that holds the job has come, and both to what was delivered.            *)

\* The row of a candidate stays pending under the row lock.
ClaimingPending ==
    \A w \in Worker : pc[w] = "claiming" => jobs[held[w]].status = "pending"

\* The row of a running attempt is processing, unless the reaper (and perhaps
\* the cleanup after it) has taken it from under the worker.
AttemptRow ==
    \A w \in Worker : pc[w] \in Attempt =>
        \/ jobs[held[w]].status \in {"processing", "deleted"}
        \/ jobs[held[w]].status = "failed" /\ jobs[held[w]].error = "timeout"

\* Before its attempt a job is undelivered; a canceled one stays so.
Undelivered ==
    \A j \in JobId :
        jobs[j].status \in {"none", "pending", "canceled"} => delivered[j] = 0

\* An attempt delivers in sendMedia and nowhere else.
AttemptDelivered ==
    \A w \in Worker :
        /\ pc[w] \in InHand \ {"sent", "sendFailed"} => delivered[held[w]] = 0
        /\ pc[w] = "sent" => delivered[held[w]] = 1

\* cancel() has been called by the time the error is looked at.
Released == \A w \in Worker : pc[w] = "errored" => jobCtxDone[w]

Core ==
    /\ Typing
    /\ ExclusiveClaim
    /\ ClaimingPending
    /\ AttemptRow
    /\ Undelivered
    /\ AttemptDelivered
    /\ AtMostOnceDelivery
    /\ DoneMeansDelivered
    /\ RegistryExact
    /\ Released

LEMMA CoreInit == Init => Core
<1>. SUFFICES ASSUME Init PROVE Core
  OBVIOUS
<1>1. \A j \in JobId : jobs[j].status = "none" /\ delivered[j] = 0
  BY DEF Init, NoRow
<1>. QED
  BY <1>1, TypingInit, WorkerAssumption
     DEF Init, Core, ExclusiveClaim, ClaimingPending, AttemptRow, Undelivered,
         AttemptDelivered, AtMostOnceDelivery, DoneMeansDelivered,
         RegistryExact, Released, InHand, Attempt, PC, Cancelable

\* The status each statement leaves in its row.
LEMMA RowStatus ==
    ASSUME NEW r \in Row
    PROVE  /\ ClaimedRow(r).status = "processing"
           /\ DoneRow(r).status = "done"
           /\ RetryRow(r).status = "pending"
           /\ FailedRow(r).status = "failed"
           /\ CanceledRow(r).status = "canceled"
           /\ ReapedRow(r).status = "failed" /\ ReapedRow(r).error = "timeout"
           /\ ProgressRow(r).status = r.status /\ ProgressRow(r).error = r.error
BY DEF Row, ClaimedRow, DoneRow, RetryRow, FailedRow, CanceledRow, ReapedRow,
       ProgressRow

\* A statement by primary key touches one row, and only an existing one.
LEMMA TryUpdateEffect ==
    ASSUME jobs \in [JobId -> Row], NEW j \in JobId, NEW r \in Row,
           TryUpdate(j, r)
    PROVE  /\ \A k \in JobId : k # j => jobs'[k] = jobs[k]
           /\ jobs'[j] = jobs[j] \/ (Exists(j) /\ jobs'[j] = r)
BY DEF TryUpdate

LEMMA WorkerCore ==
    ASSUME Core, NEW w \in Worker, WorkerStep(w)
    PROVE  Core'
<1>0. Typing'
  BY WorkerTyping DEF Core
<1>. USE DEF Core, Typing, TypeOK, Busy, ExclusiveClaim, ClaimingPending,
         AttemptRow, Undelivered, AttemptDelivered, AtMostOnceDelivery,
         DoneMeansDelivered, RegistryExact, Released, PC, InHand, Attempt,
         Cancelable
<1>1. CASE LoopExit(w)
  BY <1>0, <1>1 DEF LoopExit, Goto
<1>2. CASE ClaimSelect(w)
  <2>1. PICK j \in JobId : Claimable(j) /\ held' = [held EXCEPT ![w] = j]
    BY <1>2 DEF ClaimSelect
  <2>. QED BY <1>0, <1>2, <2>1 DEF ClaimSelect, Claimable, Locked, Goto
<1>3. CASE ClaimCommit(w)
  BY <1>0, <1>3, RowStatus DEF ClaimCommit, Goto
<1>4. CASE ClaimAbort(w)
  BY <1>0, <1>4 DEF ClaimAbort, NextJob
<1>5. CASE ClaimLost(w)
  BY <1>0, <1>5, RowStatus DEF ClaimLost, NextJob
<1>6. CASE Register(w)
  BY <1>0, <1>6, WorkerAssumption DEF Register, Goto
<1>7. CASE Progress(w)
  <2>. DEFINE j == held[w]
              r == ProgressRow(jobs[held[w]])
  <2>1. j \in JobId /\ r \in Row
    BY <1>7, RowsWellFormed DEF Progress
  <2>2. TryUpdate(j, r)
    BY <1>7 DEF Progress
  <2>3. /\ \A k \in JobId : k # j => jobs'[k] = jobs[k]
        /\ jobs'[j] = jobs[j] \/ (Exists(j) /\ jobs'[j] = r)
    BY <2>1, <2>2, TryUpdateEffect
  <2>4. r.status = jobs[j].status /\ r.error = jobs[j].error
    BY <2>1, RowStatus
  <2>. HIDE DEF r
  <2>. QED BY <1>0, <1>7, <2>1, <2>3, <2>4 DEF Progress, workerVars
<1>8. CASE DownloadOk(w)
  BY <1>0, <1>8 DEF DownloadOk, Goto
<1>9. CASE DownloadErr(w)
  BY <1>0, <1>9 DEF DownloadErr, Goto
<1>10. CASE Release(w)
  BY <1>0, <1>10, WorkerAssumption DEF Release, Goto
<1>11. CASE HandleError(w)
  <2>. DEFINE j == held[w]
              r == CanceledRow(jobs[held[w]])
  <2>1. j \in JobId /\ r \in Row
    BY <1>11, RowsWellFormed DEF HandleError
  <2>2. TryUpdate(j, r)
    BY <1>11 DEF HandleError, ErrorRow, JobCtxErr
  <2>3. /\ \A k \in JobId : k # j => jobs'[k] = jobs[k]
        /\ jobs'[j] = jobs[j] \/ (Exists(j) /\ jobs'[j] = r)
    BY <2>1, <2>2, TryUpdateEffect
  <2>4. r.status = "canceled"
    BY <2>1, RowStatus
  <2>. HIDE DEF r
  <2>5. /\ NextJob(w) /\ pc[w] = "errored" /\ delivered[j] = 0
        /\ UNCHANGED <<up, ctxDone, cancels, cmd, delivered, asked>>
    BY <1>11 DEF HandleError
  <2>. QED BY <1>0, <2>1, <2>3, <2>4, <2>5 DEF NextJob
<1>12. CASE FailJob(w)
  <2>. DEFINE j == held[w]
              r == FailedRow(jobs[held[w]])
  <2>1. j \in JobId /\ r \in Row
    BY <1>12, RowsWellFormed DEF FailJob
  <2>2. TryUpdate(j, r)
    BY <1>12 DEF FailJob
  <2>3. /\ \A k \in JobId : k # j => jobs'[k] = jobs[k]
        /\ jobs'[j] = jobs[j] \/ (Exists(j) /\ jobs'[j] = r)
    BY <2>1, <2>2, TryUpdateEffect
  <2>4. r.status = "failed"
    BY <2>1, RowStatus
  <2>. HIDE DEF r
  <2>. QED BY <1>0, <1>12, <2>1, <2>3, <2>4 DEF FailJob, NextJob
<1>13. CASE StartUpload(w)
  <2>. DEFINE j == held[w]
              r == ProgressRow(jobs[held[w]])
  <2>1. j \in JobId /\ r \in Row
    BY <1>13, RowsWellFormed DEF StartUpload, Goto
  <2>2. TryUpdate(j, r)
    BY <1>13 DEF StartUpload
  <2>3. /\ \A k \in JobId : k # j => jobs'[k] = jobs[k]
        /\ jobs'[j] = jobs[j] \/ (Exists(j) /\ jobs'[j] = r)
    BY <2>1, <2>2, TryUpdateEffect
  <2>4. r.status = jobs[j].status /\ r.error = jobs[j].error
    BY <2>1, RowStatus
  <2>. HIDE DEF r
  <2>. QED BY <1>0, <1>13, <2>1, <2>3, <2>4 DEF StartUpload, Goto
<1>14. CASE SendOk(w)
  BY <1>0, <1>14 DEF SendOk, Goto, Deliver
<1>15. CASE SendErr(w)
  BY <1>0, <1>15 DEF SendErr, Goto, Deliver
<1>16. CASE MarkDone(w)
  <2>. DEFINE j == held[w]
              r == DoneRow(jobs[held[w]])
  <2>1. j \in JobId /\ r \in Row
    BY <1>16, RowsWellFormed DEF MarkDone
  <2>2. TryUpdate(j, r)
    BY <1>16 DEF MarkDone
  <2>3. /\ \A k \in JobId : k # j => jobs'[k] = jobs[k]
        /\ jobs'[j] = jobs[j] \/ (Exists(j) /\ jobs'[j] = r)
    BY <2>1, <2>2, TryUpdateEffect
  <2>4. r.status = "done"
    BY <2>1, RowStatus
  <2>. HIDE DEF r
  <2>. QED BY <1>0, <1>16, <2>1, <2>3, <2>4 DEF MarkDone, NextJob
<1>. QED
  BY <1>1, <1>2, <1>3, <1>4, <1>5, <1>6, <1>7, <1>8, <1>9, <1>10, <1>11,
     <1>12, <1>13, <1>14, <1>15, <1>16 DEF WorkerStep

\* A step that changes neither workers nor deliveries preserves Core if it
\* leaves the row of every attempt in one of the three states AttemptRow names,
\* every candidate pending, and writes no false verdict.
LEMMA TableCore ==
    ASSUME Core, Typing',
           UNCHANGED <<pc, held, cancels, delivered>>,
           \A w \in Worker : jobCtxDone[w] => jobCtxDone'[w],
           ClaimingPending', AttemptRow', Undelivered', DoneMeansDelivered'
    PROVE  Core'
BY DEF Core, Typing, TypeOK, ExclusiveClaim, AttemptDelivered,
       AtMostOnceDelivery, RegistryExact, Released

\* No worker has a pending row in its hands, except under its row lock.
LEMMA PendingIsFree ==
    ASSUME Core, NEW j \in JobId, jobs[j].status = "pending", ~Locked(j)
    PROVE  \A w \in Worker : held[w] # j
BY NoJobAssumption
   DEF Core, Typing, TypeOK, Busy, AttemptRow, ClaimingPending, Locked, PC,
       InHand, Attempt

LEMMA HandlerCore ==
    ASSUME Core, NEW h \in Handler, HandlerStep(h)
    PROVE  Core'
<1>0. Typing'
  BY HandlerTyping DEF Core
<1>. USE DEF Core, Typing, TypeOK, ClaimingPending, AttemptRow, Undelivered,
         DoneMeansDelivered
<1>1. ASSUME NEW j \in JobId, NEW u \in User, CancelPending(h, j, u)
      PROVE  Core'
  <2>1. CASE UNCHANGED jobs
    BY <1>0, <1>1, <2>1, TableCore DEF CancelPending, workerVars
  <2>2. CASE Withdrawable(j, u) /\ jobs' = [jobs EXCEPT ![j] = CanceledRow(@)]
    <3>1. /\ \A k \in JobId : k # j => jobs'[k] = jobs[k]
          /\ jobs'[j].status = "canceled"
      BY <2>2, RowStatus
    <3>2. \A w \in Worker : held[w] # j
      BY <1>1, <2>2, PendingIsFree DEF CancelPending, Withdrawable
    <3>3. ClaimingPending' /\ AttemptRow'
      BY <1>1, <3>1, <3>2 DEF CancelPending, workerVars, Attempt, InHand, PC, Busy
    <3>4. Undelivered' /\ DoneMeansDelivered'
      BY <1>1, <2>2, <3>1 DEF CancelPending, Withdrawable
    <3>. QED BY <1>0, <1>1, <3>3, <3>4, TableCore DEF CancelPending, workerVars
  <2>. QED BY <1>1, <2>1, <2>2 DEF CancelPending
<1>2. CASE CheckOwner(h)
  BY <1>0, <1>2, TableCore DEF CheckOwner, workerVars
<1>3. CASE Lookup(h)
  BY <1>0, <1>3, TableCore DEF Lookup, workerVars
<1>4. CASE CallCancel(h)
  BY <1>0, <1>4, TableCore DEF CallCancel
<1>. QED BY <1>1, <1>2, <1>3, <1>4 DEF HandlerStep

LEMMA SubmitCore ==
    ASSUME Core, NEW u \in User, NEW p \in {0, 1}, Submit(u, p)
    PROVE  Core'
<1>0. Typing'
  BY SubmitTyping DEF Core
<1>1. PICK j \in JobId : NextId(j) /\ jobs' = [jobs EXCEPT ![j] = InsertedRow(u, p)]
  BY DEF Submit
<1>2. /\ \A k \in JobId : k # j => jobs'[k] = jobs[k]
      /\ jobs'[j].status = "pending" /\ jobs[j].status = "none"
  BY <1>1 DEF Core, Typing, TypeOK, NextId, InsertedRow, NoRow
<1>3. ClaimingPending' /\ AttemptRow'
  BY <1>2 DEF Submit, workerVars, Core, Typing, TypeOK, Busy, ClaimingPending,
              AttemptRow, PC, InHand, Attempt
<1>4. Undelivered' /\ DoneMeansDelivered'
  BY <1>2 DEF Submit, Core, Undelivered, DoneMeansDelivered
<1>. QED BY <1>0, <1>3, <1>4, TableCore DEF Submit, workerVars

LEMMA SetPriorityCore ==
    ASSUME Core, NEW j \in JobId, NEW p \in {0, 10}, SetPriority(j, p)
    PROVE  Core'
<1>0. Typing'
  BY SetPriorityTyping DEF Core
<1>1. \A k \in JobId : /\ jobs'[k].status = jobs[k].status
                       /\ jobs'[k].error = jobs[k].error
  BY DEF SetPriority, Core, Typing, TypeOK, Row
<1>2. ClaimingPending' /\ AttemptRow'
  BY <1>1 DEF SetPriority, workerVars, Core, Typing, TypeOK, Busy,
              ClaimingPending, AttemptRow, PC, InHand, Attempt
<1>3. Undelivered' /\ DoneMeansDelivered'
  BY <1>1 DEF SetPriority, Core, Undelivered, DoneMeansDelivered
<1>. QED BY <1>0, <1>2, <1>3, TableCore DEF SetPriority, workerVars

LEMMA SweepCore ==
    ASSUME Core, NEW S \in SUBSET JobId, Reap(S) \/ Cleanup(S)
    PROVE  Core'
<1>0. Typing'
  BY SweepTyping DEF Core
<1>. DEFINE Swept(k) == \/ Reapable(k) /\ jobs'[k] = ReapedRow(jobs[k])
                        \/ Removable(k) /\ jobs'[k] = NoRow("deleted")
<1>1. \A k \in JobId : jobs'[k] = jobs[k] \/ Swept(k)
  BY DEF Reap, Cleanup
<1>2. \A k \in JobId :
         \/ jobs'[k] = jobs[k]
         \/ /\ jobs[k].status = "processing"
            /\ jobs'[k].status = "failed" /\ jobs'[k].error = "timeout"
         \/ jobs[k].status \in Terminal /\ jobs'[k].status = "deleted"
  BY <1>1, RowStatus DEF Core, Typing, TypeOK, Reapable, Removable, NoRow
<1>3. UNCHANGED <<pc, held, cancels, delivered, jobCtxDone>>
  BY DEF Reap, Cleanup, workerVars
<1>4. ClaimingPending' /\ AttemptRow'
  BY <1>2, <1>3 DEF Core, Typing, TypeOK, Busy, ClaimingPending, AttemptRow,
                    PC, InHand, Attempt, Terminal
<1>5. Undelivered' /\ DoneMeansDelivered'
  BY <1>2, <1>3 DEF Core, Undelivered, DoneMeansDelivered
<1>. QED BY <1>0, <1>3, <1>4, <1>5, TableCore

LEMMA ProcessCore ==
    ASSUME Core, ProcessStep
    PROVE  Core'
<1>0. Typing'
  BY ProcessTyping DEF Core
<1>. USE DEF Core, Typing, TypeOK, Busy, DownIsStopped, ExclusiveClaim,
         ClaimingPending, AttemptRow, Undelivered, AttemptDelivered,
         AtMostOnceDelivery, DoneMeansDelivered, RegistryExact, Released, PC,
         InHand, Attempt, Cancelable
<1>1. CASE Signal
  BY <1>0, <1>1 DEF Signal, workerVars
<1>2. CASE Vanish
  BY <1>0, <1>2, WorkerAssumption DEF Vanish
<1>3. CASE Start
  BY <1>0, <1>3 DEF Start
<1>. QED BY <1>1, <1>2, <1>3 DEF ProcessStep, ExitClean, Crash

LEMMA CoreStep == Core /\ [Next]_vars => Core'
<1>. SUFFICES ASSUME Core, [Next]_vars PROVE Core'
  OBVIOUS
<1>1. CASE UNCHANGED vars
  <2>1. Typing'
    BY <1>1, TypingStep DEF Core
  <2>. QED
    BY <1>1, <2>1, TableCore
       DEF vars, Core, ClaimingPending, AttemptRow, Undelivered, DoneMeansDelivered
<1>. QED
  BY <1>1, WorkerCore, HandlerCore, SubmitCore, SetPriorityCore, SweepCore,
     ProcessCore DEF Next

\* The inductive invariant holds in every reachable state.
THEOREM CoreInvariant == Spec => []Core
BY CoreInit, CoreStep, PTL DEF Spec

-----------------------------------------------------------------------------
(* Safety. *)

\* However many workers poll one table, no job is ever in two pairs of hands.
THEOREM ClaimsAreExclusive == Spec => []ExclusiveClaim
<1>1. Core => ExclusiveClaim
  BY DEF Core
<1>. QED BY <1>1, CoreInvariant, PTL

\* No crash, restart, lost answer, reaper or handler makes the bot send the
\* same job's media twice.
THEOREM DeliversAtMostOnce == Spec => []AtMostOnceDelivery
<1>1. Core => AtMostOnceDelivery
  BY DEF Core
<1>. QED BY <1>1, CoreInvariant, PTL

\* A row says done only after its file was delivered, in spite of lost answers,
\* crashes and late verdicts.
THEOREM DoneRowsWereDelivered == Spec => []DoneMeansDelivered
<1>1. Core => DoneMeansDelivered
  BY DEF Core
<1>. QED BY <1>1, CoreInvariant, PTL

\* A row that says canceled was never delivered, whoever canceled it and when.
THEOREM CanceledRowsWereNot == Spec => []CanceledNeverDelivered
<1>1. Core => CanceledNeverDelivered
  BY DEF Core, Undelivered, CanceledNeverDelivered
<1>. QED BY <1>1, CoreInvariant, PTL

\* So what a row says of its end is true.
THEOREM EndsAreTrue == Spec => []VerdictsAreTrue
BY DoneRowsWereDelivered, CanceledRowsWereNot, PTL DEF VerdictsAreTrue

\* The controller knows exactly the downloads that run, each by its worker.
THEOREM RegistryIsExact == Spec => []RegistryExact
<1>1. Core => RegistryExact
  BY DEF Core
<1>. QED BY <1>1, CoreInvariant, PTL

-----------------------------------------------------------------------------
(* Which rows a step rewrites, and how. *)

\* A worker rewrites no row but that of the job it has: by a claim, by the
\* verdict that ends its attempt, or by a progress report.
LEMMA WorkerWrites ==
    ASSUME Core, NEW w \in Worker, WorkerStep(w)
    PROVE  \/ UNCHANGED jobs
           \/ /\ held[w] \in JobId /\ Exists(held[w])
              /\ \A k \in JobId : k # held[w] => jobs'[k] = jobs[k]
              /\ \/ /\ pc[w] = "claiming"
                    /\ jobs'[held[w]] = ClaimedRow(jobs[held[w]])
                 \/ /\ pc[w] = "errored"
                    /\ jobs'[held[w]] = CanceledRow(jobs[held[w]])
                 \/ /\ pc[w] \in {"inspect", "uploading", "sendFailed"}
                    /\ jobs'[held[w]] = FailedRow(jobs[held[w]])
                 \/ /\ pc[w] = "sent"
                    /\ jobs'[held[w]] = DoneRow(jobs[held[w]])
                 \/ /\ pc[w] \in {"downloading", "inspect"}
                    /\ jobs'[held[w]] = ProgressRow(jobs[held[w]])
<1>. DEFINE j == held[w]
<1>0. pc[w] \in InHand => j \in JobId
  BY DEF Core, Typing, TypeOK, Busy
<1>. USE <1>0 DEF InHand, PC
<1>1. CASE ClaimCommit(w) \/ ClaimLost(w)
  <2>1. /\ pc[w] = "claiming" /\ jobs[j].status = "pending"
        /\ jobs' = [jobs EXCEPT ![j] = ClaimedRow(jobs[j])]
    BY <1>1 DEF ClaimCommit, ClaimLost, Goto, Core, ClaimingPending
  <2>2. jobs \in [JobId -> Row] /\ Exists(j)
    BY <2>1 DEF Core, Typing, TypeOK, Exists
  <2>. QED BY <2>1, <2>2
<1>2. CASE HandleError(w)
  <2>1. pc[w] = "errored" /\ TryUpdate(j, CanceledRow(jobs[j]))
    BY <1>2 DEF HandleError, ErrorRow, JobCtxErr, Core, Released
  <2>. QED BY <2>1 DEF TryUpdate, Core, Typing, TypeOK
<1>3. CASE FailJob(w)
  BY <1>3 DEF FailJob, TryUpdate, Core, Typing, TypeOK
<1>4. CASE MarkDone(w)
  BY <1>4 DEF MarkDone, TryUpdate, Core, Typing, TypeOK
<1>5. CASE Progress(w)
  BY <1>5 DEF Progress, TryUpdate, Core, Typing, TypeOK
<1>6. CASE StartUpload(w)
  BY <1>6 DEF StartUpload, Goto, TryUpdate, Core, Typing, TypeOK
<1>7. CASE \/ LoopExit(w) \/ ClaimSelect(w) \/ ClaimAbort(w) \/ Register(w)
           \/ DownloadOk(w) \/ DownloadErr(w) \/ Release(w) \/ SendOk(w)
           \/ SendErr(w)
  BY <1>7 DEF LoopExit, ClaimSelect, ClaimAbort, Register, DownloadOk,
              DownloadErr, Release, SendOk, SendErr
<1>. QED
  BY <1>1, <1>2, <1>3, <1>4, <1>5, <1>6, <1>7 DEF WorkerStep

\* A handler withdraws a pending row that no worker has, or writes nothing.
LEMMA HandlerWrites ==
    ASSUME Core, NEW h \in Handler, HandlerStep(h)
    PROVE  \/ UNCHANGED jobs
           \/ \E j \in JobId : /\ jobs[j].status = "pending"
                               /\ \A w \in Worker : held[w] # j
                               /\ jobs' = [jobs EXCEPT ![j] = CanceledRow(@)]
<1>1. ASSUME NEW j \in JobId, NEW u \in User, CancelPending(h, j, u),
             Withdrawable(j, u)
      PROVE  /\ jobs[j].status = "pending"
             /\ \A w \in Worker : held[w] # j
             /\ jobs' = [jobs EXCEPT ![j] = CanceledRow(@)]
  BY <1>1, PendingIsFree DEF CancelPending, Withdrawable
<1>2. ASSUME NEW j \in JobId, NEW u \in User, CancelPending(h, j, u),
             ~Withdrawable(j, u)
      PROVE  UNCHANGED jobs
  BY <1>2 DEF CancelPending
<1>3. CASE CheckOwner(h) \/ Lookup(h) \/ CallCancel(h)
  BY <1>3 DEF CheckOwner, Lookup, CallCancel
<1>. QED BY <1>1, <1>2, <1>3 DEF HandlerStep

\* The reaper fails processing rows, the cleanup deletes terminal ones.
LEMMA SweepWrites ==
    ASSUME Core, NEW S \in SUBSET JobId, Reap(S) \/ Cleanup(S), NEW k \in JobId
    PROVE  \/ jobs'[k] = jobs[k]
           \/ jobs[k].status = "processing" /\ jobs'[k] = ReapedRow(jobs[k])
           \/ jobs[k].status \in Terminal /\ jobs'[k] = NoRow("deleted")
BY DEF Reap, Cleanup, Reapable, Removable

LEMMA VerdictStep ==
    ASSUME Core, Next, NEW j \in JobId,
           jobs[j].status \in Terminal, jobs'[j].status # jobs[j].status
    PROVE  \/ jobs'[j].status = "deleted"
           \/ /\ jobs[j].error = "timeout"
              /\ \E w \in Worker : held[w] = j /\ pc[w] \in Attempt
<1>. USE DEF Terminal
<1>0. jobs \in [JobId -> Row]
  BY DEF Core, Typing, TypeOK
<1>1. ASSUME NEW w \in Worker, WorkerStep(w)
      PROVE  /\ jobs[j].error = "timeout"
             /\ held[w] = j /\ pc[w] \in Attempt
  <2>1. held[w] = j /\ pc[w] \in InHand
    BY <1>1, WorkerWrites DEF InHand, PC
  <2>2. pc[w] \in Attempt
    BY <2>1 DEF Attempt, Core, ClaimingPending
  <2>. QED BY <2>1, <2>2 DEF Core, AttemptRow
<1>2. ASSUME NEW h \in Handler, HandlerStep(h)
      PROVE  FALSE
  BY <1>0, <1>2, HandlerWrites
<1>3. ASSUME NEW u \in User, NEW p \in {0, 1}, Submit(u, p)
      PROVE  FALSE
  BY <1>0, <1>3 DEF Submit, NextId
<1>4. ASSUME NEW k \in JobId, NEW p \in {0, 10}, SetPriority(k, p)
      PROVE  FALSE
  BY <1>0, <1>4 DEF SetPriority, Row
<1>5. ASSUME NEW S \in SUBSET JobId, Reap(S) \/ Cleanup(S)
      PROVE  jobs'[j].status = "deleted"
  BY <1>5, SweepWrites DEF NoRow
<1>6. CASE ProcessStep
  BY <1>6 DEF ProcessStep, Signal, ExitClean, Crash, Vanish, Start
<1>. QED BY <1>1, <1>2, <1>3, <1>4, <1>5, <1>6 DEF Next

\* A terminal status is final, up to the cleanup, for every job that was not
\* reaped under a living worker.
THEOREM VerdictsStand == Spec => VerdictStands
<1>. DEFINE A == \A j \in JobId :
          jobs[j].status \in Terminal /\ jobs'[j].status # jobs[j].status
          => \/ jobs'[j].status = "deleted"
             \/ /\ jobs[j].error = "timeout"
                /\ \E w \in Worker : held[w] = j /\ pc[w] \in Attempt
<1>1. Core /\ [Next]_vars => [A]_vars
  BY VerdictStep
<1>. QED BY <1>1, CoreInvariant, PTL DEF Spec, VerdictStands

-----------------------------------------------------------------------------
(* The end of the workers. *)

\* A process that is down has no context that is done: the next start has its own.
FreshContext == ~up => ~ctxDone

LEMMA FreshContextStep == FreshContext /\ [Next]_vars => FreshContext'
<1>. SUFFICES ASSUME FreshContext, [Next]_vars PROVE FreshContext'
  OBVIOUS
<1>1. CASE \E w \in Worker : WorkerStep(w)
  <2>1. up' = up /\ ctxDone' = ctxDone
    BY <1>1 DEF WorkerStep, LoopExit, ClaimSelect, ClaimCommit, ClaimAbort, ClaimLost,
                Register, Progress, DownloadOk, DownloadErr, Release, HandleError,
                FailJob, StartUpload, SendOk, SendErr, MarkDone
  <2>. QED BY <2>1 DEF FreshContext
<1>2. CASE \E h \in Handler : HandlerStep(h)
  <2>1. up' = up /\ ctxDone' = ctxDone
    BY <1>2 DEF HandlerStep, CancelPending, CheckOwner, Lookup, CallCancel
  <2>. QED BY <2>1 DEF FreshContext
<1>3. CASE ProcessStep
  BY <1>3 DEF ProcessStep, Signal, ExitClean, Crash, Vanish, Start, FreshContext
<1>. QED
  BY <1>1, <1>2, <1>3
     DEF Next, Submit, SetPriority, Reap, Cleanup, vars, FreshContext

LEMMA FreshContextAlways == Spec => []FreshContext
<1>1. Init => FreshContext
  BY DEF Init, FreshContext
<1>. QED BY <1>1, FreshContextStep, PTL DEF Spec

LEMMA Countdown ==
    /\ StepsLeft("claimed") = 7 /\ StepsLeft("downloading") = 6
    /\ StepsLeft("returnedOk") = 5 /\ StepsLeft("returnedErr") = 5
    /\ StepsLeft("inspect") = 4 /\ StepsLeft("uploading") = 3
    /\ StepsLeft("claiming") = 2 /\ StepsLeft("errored") = 2
    /\ StepsLeft("sent") = 2 /\ StepsLeft("sendFailed") = 2
    /\ StepsLeft("poll") = 1 /\ StepsLeft("stopped") = 0
BY DEF StepsLeft

Down(w) ==
    /\ StepsLeft(pc'[w]) < StepsLeft(pc[w])
    /\ \A v \in Worker \ {w} : pc'[v] = pc[v]

LEMMA DownTo ==
    ASSUME Core, NEW w \in Worker, NEW to,
           pc' = [pc EXCEPT ![w] = to], StepsLeft(to) < StepsLeft(pc[w])
    PROVE  Down(w)
<1>1. pc \in [Worker -> PC]
  BY DEF Core, Typing, TypeOK
<1>. QED BY <1>1 DEF Down

\* After a signal nothing but the worker itself moves it, and its way is down.
LEMMA WorkerDown ==
    ASSUME Core, NEW w \in Worker, WorkerStep(w), ctxDone
    PROVE  Down(w)
<1>0. /\ ~Progress(w) /\ ~ClaimSelect(w) /\ ~ClaimCommit(w) /\ ~ClaimLost(w)
      /\ ~SendOk(w)
  BY DEF Progress, JobCtxErr, ClaimSelect, ClaimCommit, ClaimLost, SendOk
<1>1. ASSUME NEW from, NEW to, Goto(w, from, to), StepsLeft(to) < StepsLeft(from)
      PROVE  Down(w)
  BY <1>1, DownTo DEF Goto
<1>2. ASSUME NextJob(w), 1 < StepsLeft(pc[w])
      PROVE  Down(w)
  BY <1>2, DownTo, Countdown DEF NextJob
<1>3. CASE LoopExit(w)
  BY <1>1, <1>3, Countdown DEF LoopExit
<1>4. CASE ClaimAbort(w)
  BY <1>2, <1>4, Countdown DEF ClaimAbort
<1>5. CASE Register(w)
  BY <1>1, <1>5, Countdown DEF Register
<1>6. CASE DownloadOk(w) \/ DownloadErr(w)
  <2>1. CASE DownloadOk(w)
    BY <1>1, <2>1, Countdown DEF DownloadOk
  <2>2. CASE DownloadErr(w)
    BY <1>1, <2>2, Countdown DEF DownloadErr
  <2>. QED BY <1>6, <2>1, <2>2
<1>7. CASE Release(w)
  <2>1. CASE Goto(w, "returnedOk", "inspect")
    BY <1>1, <2>1, Countdown
  <2>2. CASE Goto(w, "returnedErr", "errored")
    BY <1>1, <2>2, Countdown
  <2>. QED BY <1>7, <2>1, <2>2 DEF Release
<1>8. CASE StartUpload(w) \/ SendErr(w)
  <2>1. CASE StartUpload(w)
    BY <1>1, <2>1, Countdown DEF StartUpload
  <2>2. CASE SendErr(w)
    BY <1>1, <2>2, Countdown DEF SendErr
  <2>. QED BY <1>8, <2>1, <2>2
<1>9. CASE HandleError(w) \/ FailJob(w) \/ MarkDone(w)
  <2>1. /\ NextJob(w)
        /\ pc[w] \in {"errored", "inspect", "uploading", "sendFailed", "sent"}
    BY <1>9 DEF HandleError, FailJob, MarkDone
  <2>. QED BY <1>2, <2>1, Countdown
<1>. QED
  BY <1>0, <1>3, <1>4, <1>5, <1>6, <1>7, <1>8, <1>9 DEF WorkerStep

\* Wherever a signal finds a worker, the worker has a bounded number of steps to
\* its return, seven at most, and takes no others.
THEOREM SignalsWindDown == Spec => SignalWindsDown
<1>. DEFINE D == ctxDone /\ ctxDone' =>
          \A w \in Worker :
              pc'[w] # pc[w] => StepsLeft(pc'[w]) < StepsLeft(pc[w])
<1>1. Core /\ FreshContext /\ [Next]_vars => [D]_vars
  <2>. SUFFICES ASSUME Core, FreshContext, Next, ctxDone, ctxDone'
               PROVE  \A w \in Worker :
                          pc'[w] # pc[w] => StepsLeft(pc'[w]) < StepsLeft(pc[w])
    OBVIOUS
  <2>1. CASE \E w \in Worker : WorkerStep(w)
    BY <2>1, WorkerDown DEF Down
  <2>2. CASE \E h \in Handler : HandlerStep(h)
    <3>1. pc' = pc
      BY <2>2 DEF HandlerStep, CancelPending, CheckOwner, Lookup, CallCancel, workerVars
    <3>. QED BY <3>1
  <2>3. CASE ProcessStep
    BY <2>3 DEF ProcessStep, Signal, ExitClean, Crash, Vanish, Start, FreshContext,
                workerVars
  <2>4. CASE \/ \E u \in User, p \in {0, 1} : Submit(u, p)
             \/ \E j \in JobId, p \in {0, 10} : SetPriority(j, p)
             \/ \E S \in SUBSET JobId : Reap(S) \/ Cleanup(S)
    BY <2>4 DEF Submit, SetPriority, Reap, Cleanup
  <2>. QED BY <2>1, <2>2, <2>3, <2>4 DEF Next
<1>. QED BY <1>1, CoreInvariant, FreshContextAlways, PTL DEF Spec, SignalWindsDown

-----------------------------------------------------------------------------
(* What a row says next to its status. *)

Stamped(r) ==
    /\ r.status = "pending" => ~r.started /\ ~r.finished
    /\ r.status = "processing" => r.started /\ ~r.finished
    /\ r.status \in Terminal => r.finished

Labelled(r) ==
    /\ r.status = "pending" => r.progress = "Queued"
    /\ r.status = "done" => r.progress = "Completed"
    /\ r.status = "canceled" => r.progress = "Canceled"

RowsConsistent == \A j \in JobId : Stamped(jobs[j]) /\ Labelled(jobs[j])

\* Every statement leaves a consistent row when it is applied to one in a
\* status it can meet.
LEMMA StatementsKeepRows ==
    ASSUME NEW r \in Row, Stamped(r), Labelled(r)
    PROVE  /\ r.status = "pending" =>
                Stamped(ClaimedRow(r)) /\ Labelled(ClaimedRow(r))
           /\ Stamped(DoneRow(r)) /\ Labelled(DoneRow(r))
           /\ Stamped(FailedRow(r)) /\ Labelled(FailedRow(r))
           /\ Stamped(CanceledRow(r)) /\ Labelled(CanceledRow(r))
           /\ Stamped(ReapedRow(r)) /\ Labelled(ReapedRow(r))
           /\ r.status \in {"processing", "failed", "deleted"} =>
                Stamped(ProgressRow(r)) /\ Labelled(ProgressRow(r))
<1>. USE DEF Stamped, Labelled, Terminal, Row
<1>1. r.status = "pending" => Stamped(ClaimedRow(r)) /\ Labelled(ClaimedRow(r))
  BY DEF ClaimedRow
<1>2. Stamped(DoneRow(r)) /\ Labelled(DoneRow(r))
  BY DEF DoneRow
<1>3. Stamped(FailedRow(r)) /\ Labelled(FailedRow(r))
  BY DEF FailedRow
<1>4. Stamped(CanceledRow(r)) /\ Labelled(CanceledRow(r))
  BY DEF CanceledRow
<1>5. Stamped(ReapedRow(r)) /\ Labelled(ReapedRow(r))
  BY DEF ReapedRow
<1>6. r.status \in {"processing", "failed", "deleted"} =>
        Stamped(ProgressRow(r)) /\ Labelled(ProgressRow(r))
  BY DEF ProgressRow
<1>. QED BY <1>1, <1>2, <1>3, <1>4, <1>5, <1>6

LEMMA RowsConsistentStep == Core /\ RowsConsistent /\ [Next]_vars => RowsConsistent'
<1>. SUFFICES ASSUME Core, RowsConsistent, [Next]_vars, NEW j \in JobId
              PROVE  Stamped(jobs'[j]) /\ Labelled(jobs'[j])
  BY DEF RowsConsistent, Stamped, Labelled
<1>0. /\ jobs \in [JobId -> Row] /\ jobs[j] \in Row
      /\ Stamped(jobs[j]) /\ Labelled(jobs[j])
  BY DEF Core, Typing, TypeOK, RowsConsistent
<1>1. ASSUME NEW w \in Worker, WorkerStep(w)
      PROVE  Stamped(jobs'[j]) /\ Labelled(jobs'[j])
  <2>1. CASE jobs'[j] = jobs[j]
    BY <1>0, <2>1
  <2>2. CASE jobs'[j] # jobs[j]
    <3>1. held[w] = j
      BY <1>1, <2>2, WorkerWrites
    <3>2. /\ pc[w] = "claiming" => jobs[j].status = "pending"
          /\ pc[w] \in {"downloading", "inspect"} =>
                jobs[j].status \in {"processing", "failed", "deleted"}
      BY <3>1 DEF Core, ClaimingPending, AttemptRow, Attempt, InHand, PC
    <3>. QED BY <1>0, <1>1, <2>2, <3>1, <3>2, WorkerWrites, StatementsKeepRows
  <2>. QED BY <2>1, <2>2
<1>2. ASSUME NEW h \in Handler, HandlerStep(h)
      PROVE  Stamped(jobs'[j]) /\ Labelled(jobs'[j])
  <2>1. jobs'[j] = jobs[j] \/ jobs'[j] = CanceledRow(jobs[j])
    BY <1>0, <1>2, HandlerWrites
  <2>. QED BY <1>0, <2>1, StatementsKeepRows
<1>3. ASSUME NEW u \in User, NEW p \in {0, 1}, Submit(u, p)
      PROVE  Stamped(jobs'[j]) /\ Labelled(jobs'[j])
  <2>1. jobs'[j] = jobs[j] \/ jobs'[j] = InsertedRow(u, p)
    BY <1>0, <1>3 DEF Submit
  <2>2. Stamped(InsertedRow(u, p)) /\ Labelled(InsertedRow(u, p))
    BY DEF Stamped, Labelled, InsertedRow, NoRow, Terminal
  <2>. QED BY <1>0, <2>1, <2>2
<1>4. ASSUME NEW k \in JobId, NEW p \in {0, 10}, SetPriority(k, p)
      PROVE  Stamped(jobs'[j]) /\ Labelled(jobs'[j])
  <2>1. /\ jobs'[j].status = jobs[j].status /\ jobs'[j].progress = jobs[j].progress
        /\ jobs'[j].started = jobs[j].started
        /\ jobs'[j].finished = jobs[j].finished
    BY <1>0, <1>4 DEF SetPriority, Row
  <2>. QED BY <1>0, <2>1 DEF Stamped, Labelled
<1>5. ASSUME NEW S \in SUBSET JobId, Reap(S) \/ Cleanup(S)
      PROVE  Stamped(jobs'[j]) /\ Labelled(jobs'[j])
  <2>1. Stamped(NoRow("deleted")) /\ Labelled(NoRow("deleted"))
    BY DEF Stamped, Labelled, NoRow, Terminal
  <2>. QED BY <1>0, <1>5, <2>1, SweepWrites, StatementsKeepRows
<1>6. CASE ProcessStep
  BY <1>0, <1>6 DEF ProcessStep, Signal, ExitClean, Crash, Vanish, Start
<1>7. CASE UNCHANGED vars
  BY <1>0, <1>7 DEF vars
<1>. QED BY <1>1, <1>2, <1>3, <1>4, <1>5, <1>6, <1>7 DEF Next

LEMMA RowsInvariant == Spec => []RowsConsistent
<1>1. Init => RowsConsistent
  <2>1. Stamped(NoRow("none")) /\ Labelled(NoRow("none"))
    BY DEF Stamped, Labelled, NoRow, Terminal
  <2>. QED BY <2>1 DEF Init, RowsConsistent
<1>. QED BY <1>1, RowsConsistentStep, CoreInvariant, PTL DEF Spec

\* The timestamps the reaper and the cleanup go by never contradict the status,
\* whoever wrote the row last.
THEOREM TimestampsAreConsistent == Spec => []TimestampsMatchStatus
<1>1. RowsConsistent => TimestampsMatchStatus
  BY DEF RowsConsistent, Stamped, Labelled, TimestampsMatchStatus
<1>. QED BY <1>1, RowsInvariant, PTL

\* The progress text users are shown never contradicts the status, although late
\* progress and verdicts are written without looking at it.
THEOREM ProgressIsConsistent == Spec => []ProgressMatchesStatus
<1>1. RowsConsistent => ProgressMatchesStatus
  BY DEF RowsConsistent, Stamped, Labelled, ProgressMatchesStatus
<1>. QED BY <1>1, RowsInvariant, PTL
=============================================================================
