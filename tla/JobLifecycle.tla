---------------------------- MODULE JobLifecycle ----------------------------
(***************************************************************************)
(* The life of a download job: the worker loops, the cancel controller,    *)
(* the /cancel, /promote and /demote handlers, the reaper, the cleanup and *)
(* the start and end of the process, all acting on one job table.          *)
(*                                                                         *)
(* A worker is a goroutine of worker.Loop.  Its program counter:           *)
(*   poll         at the top of the loop, or asleep between two polls      *)
(*   claiming     inside ClaimJob, holding the row lock of its candidate   *)
(*   claimed      the claim has committed, nothing is registered yet       *)
(*   downloading  registered with the controller, yt-dlp is running        *)
(*   returnedOk, returnedErr   the download returned, still registered     *)
(*   errored      unregistered, about to decide what a failure means       *)
(*   inspect      unregistered, about to look at the output file           *)
(*   uploading    "Uploading to Telegram"                                  *)
(*   sent, sendFailed   sendMedia has returned                             *)
(*   stopped      the loop has returned, or there is no process            *)
(***************************************************************************)
EXTENDS JobTable

CONSTANTS
    Worker,         \* worker goroutines (worker.number_of_workers)
    Handler,        \* goroutines that can be inside handleCancel at a time
    NoWorker,
    NoJob,
    MaxRetries      \* limits.max_retries

ASSUME WorkerAssumption == NoWorker \notin Worker

ASSUME NoJobAssumption == NoJob \notin JobId

ASSUME MaxRetriesAssumption == MaxRetries \in Nat \ {0}

VARIABLES
    up,             \* the process runs
    ctxDone,        \* the root context has been cancelled (SIGINT, SIGTERM)
    pc, held,       \* per worker: where it is, and the job in its hands
    tries,          \* per worker: job.RetryCount as ClaimJob read it
    jobCtxDone,     \* per worker: cancel() of the current job was called
    cancels,        \* Controller.cancels: the worker whose cancel() is stored
    cmd,            \* per handler: how far its /cancel has come
    delivered,      \* per job: media messages Telegram has delivered for it
    asked           \* jobs whose owner was told "Cancellation requested"

workerVars == <<pc, held, tries, jobCtxDone>>
vars == <<jobs, up, ctxDone, pc, held, tries, jobCtxDone, cancels, cmd,
          delivered, asked>>

PC == {"poll", "claiming", "claimed", "downloading", "returnedOk",
       "returnedErr", "errored", "inspect", "uploading", "sent", "sendFailed",
       "stopped"}

InHand    == PC \ {"poll", "stopped"}       \* the worker has a job
Attempt   == InHand \ {"claiming"}          \* and its claim has committed
Cancelable == {"downloading", "returnedOk", "returnedErr"}  \* registered

NoCmd == [step |-> "idle", job |-> NoJob, user |-> NoUser, target |-> NoWorker]

TypeOK ==
    /\ jobs \in [JobId -> Row]
    /\ up \in BOOLEAN /\ ctxDone \in BOOLEAN
    /\ pc \in [Worker -> PC]
    /\ held \in [Worker -> JobId \cup {NoJob}]
    /\ tries \in [Worker -> Nat]
    /\ jobCtxDone \in [Worker -> BOOLEAN]
    /\ cancels \in [JobId -> Worker \cup {NoWorker}]
    /\ cmd \in [Handler -> [step   : {"idle", "check", "lookup", "call"},
                            job    : JobId \cup {NoJob},
                            user   : User \cup {NoUser},
                            target : Worker \cup {NoWorker}]]
    /\ delivered \in [JobId -> Nat]
    /\ asked \subseteq JobId

Init ==
    /\ jobs = [j \in JobId |-> NoRow("none")]
    /\ up = TRUE
    /\ ctxDone = FALSE
    /\ pc = [w \in Worker |-> "poll"]
    /\ held = [w \in Worker |-> NoJob]
    /\ tries = [w \in Worker |-> 0]
    /\ jobCtxDone = [w \in Worker |-> FALSE]
    /\ cancels = [j \in JobId |-> NoWorker]
    /\ cmd = [h \in Handler |-> NoCmd]
    /\ delivered = [j \in JobId |-> 0]
    /\ asked = {}

-----------------------------------------------------------------------------
(* The statements of a worker. *)

\* Slip: the job's context derived from context.Background().
JobCtxErrDetached(w) == jobCtxDone[w]

\* The job's context ends with its own cancel() and with the root context.
JobCtxErr(w) == ctxDone \/ jobCtxDone[w]

\* A statement by primary key whose error the caller drops.  Once the context
\* is done it fails before it reaches the database; otherwise it may fail too.
TryUpdate(j, r) ==
    \/ UNCHANGED jobs
    \/ ~ctxDone /\ Exists(j) /\ jobs' = [jobs EXCEPT ![j] = r]

\* "continue": the worker is done with its job and goes back to polling.
NextJob(w) ==
    /\ pc' = [pc EXCEPT ![w] = "poll"]
    /\ held' = [held EXCEPT ![w] = NoJob]
    /\ tries' = [tries EXCEPT ![w] = 0]
    /\ jobCtxDone' = [jobCtxDone EXCEPT ![w] = FALSE]

Goto(w, from, to) == pc[w] = from /\ pc' = [pc EXCEPT ![w] = to]

-----------------------------------------------------------------------------
(* worker.Loop: polling and ClaimJob.                                      *)

\* The row lock of "for update" is held from the select to the commit.
LockedNever(j) == FALSE     \* slip: a select without "for update"
Locked(j) == \E w \in Worker : pc[w] = "claiming" /\ held[w] = j

Claimable(j) == jobs[j].status = "pending" /\ ~Locked(j)

LoopExit(w) ==
    /\ ctxDone
    /\ Goto(w, "poll", "stopped")
    /\ UNCHANGED <<jobs, up, ctxDone, held, tries, jobCtxDone, cancels, cmd,
                   delivered, asked>>

\* select ... order by priority desc, created_at asc for update skip locked
ClaimSelect(w) ==
    /\ ~ctxDone
    /\ Goto(w, "poll", "claiming")
    /\ \E j \in JobId :
          /\ Claimable(j)
          /\ \A k \in JobId \ {j} : Claimable(k) => ~Before(k, j)
          /\ held' = [held EXCEPT ![w] = j]
          /\ tries' = [tries EXCEPT ![w] = jobs[j].retries]
    /\ UNCHANGED <<jobs, up, ctxDone, jobCtxDone, cancels, cmd, delivered, asked>>

ClaimCommit(w) ==
    /\ ~ctxDone
    /\ Goto(w, "claiming", "claimed")
    /\ jobs' = [jobs EXCEPT ![held[w]] = ClaimedRow(@)]
    /\ UNCHANGED <<up, ctxDone, held, tries, jobCtxDone, cancels, cmd,
                   delivered, asked>>

\* Slip: the loop returns on a claim error instead of polling again.
ClaimAbortReturns(w) ==
    /\ Goto(w, "claiming", "stopped")
    /\ held' = [held EXCEPT ![w] = NoJob]
    /\ UNCHANGED <<jobs, up, ctxDone, tries, jobCtxDone, cancels, cmd,
                   delivered, asked>>

\* The update or the commit fails: the transaction is rolled back.
ClaimAbort(w) ==
    /\ pc[w] = "claiming"
    /\ NextJob(w)
    /\ UNCHANGED <<jobs, up, ctxDone, cancels, cmd, delivered, asked>>

\* The commit takes effect and its answer is lost: ClaimJob returns the error,
\* the worker sleeps, and the row stays in processing with nobody behind it.
ClaimLost(w) ==
    /\ ~ctxDone
    /\ pc[w] = "claiming"
    /\ jobs' = [jobs EXCEPT ![held[w]] = ClaimedRow(@)]
    /\ NextJob(w)
    /\ UNCHANGED <<up, ctxDone, cancels, cmd, delivered, asked>>

-----------------------------------------------------------------------------
(* worker.Loop: the download. *)

\* context.WithCancel(ctx) and controller.Register(job.ID, cancel)
Register(w) ==
    /\ Goto(w, "claimed", "downloading")
    /\ cancels' = [cancels EXCEPT ![held[w]] = w]
    /\ UNCHANGED <<jobs, up, ctxDone, held, tries, jobCtxDone, cmd, delivered, asked>>

\* progressFn, with the job's context
Progress(w) ==
    /\ pc[w] = "downloading"
    /\ ~JobCtxErr(w)
    /\ TryUpdate(held[w], ProgressRow(jobs[held[w]]))
    /\ UNCHANGED <<up, ctxDone, workerVars, cancels, cmd, delivered, asked>>

\* The chain of yt-dlp runs is module Downloader.  It may succeed after its
\* context has ended: yt-dlp can finish before the kill reaches it.
DownloadOk(w) ==
    /\ Goto(w, "downloading", "returnedOk")
    /\ UNCHANGED <<jobs, up, ctxDone, held, tries, jobCtxDone, cancels, cmd,
                   delivered, asked>>

DownloadErr(w) ==
    /\ Goto(w, "downloading", "returnedErr")
    /\ UNCHANGED <<jobs, up, ctxDone, held, tries, jobCtxDone, cancels, cmd,
                   delivered, asked>>

\* Slip: the entry is left in the controller.
ReleaseKeepsEntry(w) ==
    /\ \/ Goto(w, "returnedOk", "inspect")
       \/ Goto(w, "returnedErr", "errored")
    /\ jobCtxDone' = [jobCtxDone EXCEPT ![w] = TRUE]
    /\ UNCHANGED <<jobs, up, ctxDone, held, tries, cancels, cmd, delivered, asked>>

\* controller.Unregister(job.ID); cancel()
Release(w) ==
    /\ \/ Goto(w, "returnedOk", "inspect")
       \/ Goto(w, "returnedErr", "errored")
    /\ cancels' = [cancels EXCEPT ![held[w]] = NoWorker]
    /\ jobCtxDone' = [jobCtxDone EXCEPT ![w] = TRUE]
    /\ UNCHANGED <<jobs, up, ctxDone, held, tries, cmd, delivered, asked>>

\* What a failed download makes of its row: the error is taken for a
\* cancellation whenever the job's context is done.
ErrorRow(w, r) ==
    IF JobCtxErr(w) THEN CanceledRow(r)
    ELSE IF tries[w] < MaxRetries THEN RetryRow(r)
    ELSE FailedRow(r)

HandleError(w) ==
    /\ pc[w] = "errored"
    /\ TryUpdate(held[w], ErrorRow(w, jobs[held[w]]))
    /\ NextJob(w)
    /\ UNCHANGED <<up, ctxDone, cancels, cmd, delivered, asked>>

-----------------------------------------------------------------------------
(* worker.Loop: the upload. *)

\* Slip: a failed send is queued for another try like a failed download.
FailJobRetries(w) ==
    /\ pc[w] \in {"inspect", "uploading", "sendFailed"}
    /\ TryUpdate(held[w], RetryRow(jobs[held[w]]))
    /\ NextJob(w)
    /\ UNCHANGED <<up, ctxDone, cancels, cmd, delivered, asked>>

\* MarkFailed after a failed stat, an oversized file, a failed open or a
\* failed send.
FailJob(w) ==
    /\ pc[w] \in {"inspect", "uploading", "sendFailed"}
    /\ TryUpdate(held[w], FailedRow(jobs[held[w]]))
    /\ NextJob(w)
    /\ UNCHANGED <<up, ctxDone, cancels, cmd, delivered, asked>>

\* Slip: the row is closed before the file is sent.
StartUploadMarksDone(w) ==
    /\ Goto(w, "inspect", "uploading")
    /\ TryUpdate(held[w], DoneRow(jobs[held[w]]))
    /\ UNCHANGED <<up, ctxDone, held, tries, jobCtxDone, cancels, cmd,
                   delivered, asked>>

StartUpload(w) ==
    /\ Goto(w, "inspect", "uploading")
    /\ TryUpdate(held[w], ProgressRow(jobs[held[w]]))
    /\ UNCHANGED <<up, ctxDone, held, tries, jobCtxDone, cancels, cmd,
                   delivered, asked>>

Deliver(j) == delivered' = [delivered EXCEPT ![j] = @ + 1]

SendOk(w) ==
    /\ ~ctxDone
    /\ Goto(w, "uploading", "sent")
    /\ Deliver(held[w])
    /\ UNCHANGED <<jobs, up, ctxDone, held, tries, jobCtxDone, cancels, cmd, asked>>

\* Slip: a send that failed is tried again, without looking at the context.
SendErrAgain(w) ==
    /\ Goto(w, "uploading", "inspect")
    /\ \/ UNCHANGED delivered
       \/ ~ctxDone /\ Deliver(held[w])
    /\ UNCHANGED <<jobs, up, ctxDone, held, tries, jobCtxDone, cancels, cmd, asked>>

\* Telegram refuses, or the answer is lost after the message was delivered.
SendErr(w) ==
    /\ Goto(w, "uploading", "sendFailed")
    /\ \/ UNCHANGED delivered
       \/ ~ctxDone /\ Deliver(held[w])
    /\ UNCHANGED <<jobs, up, ctxDone, held, tries, jobCtxDone, cancels, cmd, asked>>

\* MarkDone; when it fails the worker only logs it and continues.
MarkDone(w) ==
    /\ pc[w] = "sent"
    /\ TryUpdate(held[w], DoneRow(jobs[held[w]]))
    /\ NextJob(w)
    /\ UNCHANGED <<up, ctxDone, cancels, cmd, delivered, asked>>

WorkerStep(w) ==
    \/ LoopExit(w) \/ ClaimSelect(w) \/ ClaimCommit(w) \/ ClaimAbort(w)
    \/ ClaimLost(w) \/ Register(w) \/ Progress(w) \/ DownloadOk(w)
    \/ DownloadErr(w) \/ Release(w) \/ HandleError(w) \/ FailJob(w)
    \/ StartUpload(w) \/ SendOk(w) \/ SendErr(w) \/ MarkDone(w)

-----------------------------------------------------------------------------
(* The Telegram handlers.  Their statements run under the root context.    *)

\* queueURL's insert; which submissions are admitted is module Admission.
Submit(u, p) ==
    /\ up /\ ~ctxDone
    /\ p = 1 => u \in Admin
    /\ \E j \in JobId : /\ NextId(j)
                        /\ jobs' = [jobs EXCEPT ![j] = InsertedRow(u, p)]
    /\ UNCHANGED <<up, ctxDone, workerVars, cancels, cmd, delivered, asked>>

\* Slip: "set priority = priority + $2".
SetPriorityAdds(j, p) ==
    /\ up /\ ~ctxDone
    /\ jobs[j].status = "pending" /\ ~Locked(j)
    /\ jobs[j].priority <= 10      \* keeps the slip finite
    /\ jobs' = [jobs EXCEPT ![j].priority = @ + p]
    /\ UNCHANGED <<up, ctxDone, workerVars, cancels, cmd, delivered, asked>>

\* /promote writes 10, /demote 0.  The statement waits for a row lock.
SetPriority(j, p) ==
    /\ up /\ ~ctxDone
    /\ jobs[j].status = "pending" /\ ~Locked(j)
    /\ jobs' = [jobs EXCEPT ![j].priority = p]
    /\ UNCHANGED <<up, ctxDone, workerVars, cancels, cmd, delivered, asked>>

\* handleCancel, first statement: CancelPendingJob.
Withdrawable(j, u) == jobs[j].status = "pending" /\ jobs[j].user = u

CancelPending(h, j, u) ==
    /\ up /\ ~ctxDone
    /\ cmd[h].step = "idle"
    /\ Withdrawable(j, u) => ~Locked(j)
    /\ IF Withdrawable(j, u)
       THEN /\ jobs' = [jobs EXCEPT ![j] = CanceledRow(@)]
            /\ UNCHANGED cmd
       ELSE /\ cmd' = [cmd EXCEPT ![h] = [NoCmd EXCEPT !.step = "check",
                                                       !.job = j, !.user = u]]
            /\ UNCHANGED jobs
    /\ UNCHANGED <<up, ctxDone, workerVars, cancels, delivered, asked>>

\* Second statement: OwnsJob, and the checks on what it returned.
CheckOwner(h) ==
    /\ cmd[h].step = "check"
    /\ LET r == jobs[cmd[h].job] IN
       cmd' = [cmd EXCEPT ![h] =
                 IF ~ctxDone /\ r.user = cmd[h].user /\ r.status = "processing"
                 THEN [@ EXCEPT !.step = "lookup"] ELSE NoCmd]
    /\ UNCHANGED <<jobs, up, ctxDone, workerVars, cancels, delivered, asked>>

\* Controller.Cancel: the lookup under the mutex ...
Lookup(h) ==
    /\ cmd[h].step = "lookup"
    /\ LET w == cancels[cmd[h].job] IN
       cmd' = [cmd EXCEPT ![h] = IF w # NoWorker
                                 THEN [@ EXCEPT !.step = "call", !.target = w]
                                 ELSE NoCmd]
    /\ UNCHANGED <<jobs, up, ctxDone, workerVars, cancels, delivered, asked>>

\* ... and the call after it, which does nothing to a context already over.
CallCancel(h) ==
    /\ cmd[h].step = "call"
    /\ LET w == cmd[h].target IN
       jobCtxDone' = IF held[w] = cmd[h].job
                     THEN [jobCtxDone EXCEPT ![w] = TRUE] ELSE jobCtxDone
    /\ asked' = asked \cup {cmd[h].job}
    /\ cmd' = [cmd EXCEPT ![h] = NoCmd]
    /\ UNCHANGED <<jobs, up, ctxDone, pc, held, tries, cancels, delivered>>

HandlerStep(h) ==
    \/ \E j \in JobId, u \in User : CancelPending(h, j, u)
    \/ CheckOwner(h) \/ Lookup(h) \/ CallCancel(h)

-----------------------------------------------------------------------------
(* The background loops and the process. *)

\* ReapStuckJobs: one statement over the rows S that are old enough.
Reap(S) ==
    /\ up /\ ~ctxDone
    /\ S # {} /\ \A j \in S : Reapable(j)
    /\ jobs' = [j \in JobId |-> IF j \in S THEN ReapedRow(jobs[j]) ELSE jobs[j]]
    /\ UNCHANGED <<up, ctxDone, workerVars, cancels, cmd, delivered, asked>>

\* cleanup.runOnce: one delete over the rows S that are old enough.
Cleanup(S) ==
    /\ up /\ ~ctxDone
    /\ S # {} /\ \A j \in S : Removable(j)
    /\ jobs' = [j \in JobId |-> IF j \in S THEN NoRow("deleted") ELSE jobs[j]]
    /\ UNCHANGED <<up, ctxDone, workerVars, cancels, cmd, delivered, asked>>

Signal ==
    /\ up /\ ~ctxDone
    /\ ctxDone' = TRUE
    /\ UNCHANGED <<jobs, up, workerVars, cancels, cmd, delivered, asked>>

\* Whatever ends the process takes its goroutines and its memory along.
Vanish ==
    /\ up
    /\ up' = FALSE
    /\ ctxDone' = FALSE
    /\ pc' = [w \in Worker |-> "stopped"]
    /\ held' = [w \in Worker |-> NoJob]
    /\ tries' = [w \in Worker |-> 0]
    /\ jobCtxDone' = [w \in Worker |-> FALSE]
    /\ cancels' = [j \in JobId |-> NoWorker]
    /\ cmd' = [h \in Handler |-> NoCmd]
    /\ UNCHANGED <<jobs, delivered, asked>>

\* main returns once wg.Wait() has.
ExitClean == ctxDone /\ (\A w \in Worker : pc[w] = "stopped") /\ Vanish

\* A crash, or main's two-minute deadline, at any point.
Crash == Vanish

\* restart: unless-stopped.  Nothing is done about rows left in processing.
Start ==
    /\ ~up
    /\ up' = TRUE
    /\ pc' = [w \in Worker |-> "poll"]
    /\ UNCHANGED <<jobs, ctxDone, held, tries, jobCtxDone, cancels, cmd,
                   delivered, asked>>

ProcessStep == Signal \/ ExitClean \/ Crash \/ Start

Next ==
    \/ \E w \in Worker : WorkerStep(w)
    \/ \E h \in Handler : HandlerStep(h)
    \/ \E u \in User, p \in {0, 1} : Submit(u, p)
    \/ \E j \in JobId, p \in {0, 10} : SetPriority(j, p)
    \/ \E S \in SUBSET JobId : Reap(S) \/ Cleanup(S)
    \/ ProcessStep

Spec == Init /\ [][Next]_vars

-----------------------------------------------------------------------------
(* The promise this implements: an attempt is open while a worker has a job  *)
(* whose claim has committed.                                                *)

Open == {held[w] : w \in {v \in Worker : pc[v] \in Attempt}}

Promise == INSTANCE JobPromise WITH
               status <- [j \in JobId |-> jobs[j].status],
               open <- Open

\* Every step of the program is one that JobPromise allows, or changes nothing
\* it speaks of: whatever the interleaving, rows are settled truthfully and
\* only by the attempt that is open for them.
KeepsPromise == Promise!Spec

Path == INSTANCE RowPath WITH at <- [j \in JobId |-> Place(j)]

\* No row is taken twice, although there is a statement that queues it again:
\* whatever workers, handlers, loops and restarts do, a row only moves on.  This
\* is what Admission, QueueView and Housekeeping assume of the statements they
\* leave out.
RowsMoveOn == Path!Spec

-----------------------------------------------------------------------------
(* Safety. *)

\* Two workers never have the same job in their hands: "for update skip
\* locked" together with the status written before the lock is released.
ExclusiveClaim ==
    \A v, w \in Worker : v # w /\ held[v] = held[w] => held[v] = NoJob

\* A user never gets the same job's media twice, whatever crashes, restarts,
\* lost answers or reaped rows come in between: no path leads from a delivery
\* back to a pending row.
AtMostOnceDelivery == \A j \in JobId : delivered[j] <= 1

\* A row that says done was delivered, although the reaper, a second worker
\* loop and the handlers write to the same row.
DoneMeansDelivered ==
    \A j \in JobId : jobs[j].status = "done" => delivered[j] = 1

\* A row that says canceled was not delivered: neither handleCancel's update
\* nor the worker's MarkCanceled can hit a job whose file is on its way.
CanceledNeverDelivered ==
    \A j \in JobId : jobs[j].status = "canceled" => delivered[j] = 0

\* What a row says of its end is true of the delivery, both ways.
VerdictsAreTrue == DoneMeansDelivered /\ CanceledNeverDelivered

\* Controller.cancels holds exactly the jobs whose download is running, each
\* with the cancel function of the worker that runs it: no stale entry
\* survives a job, none is removed by another worker's Unregister.
RegistryExact ==
    \A j \in JobId, w \in Worker :
        cancels[j] = w <=> held[w] = j /\ pc[w] \in Cancelable

\* The two timestamps agree with the status.  The reaper selects rows by
\* started_at and the cleanup by finished_at: a row in the wrong state would
\* never be reaped, or never be removed.
TimestampsMatchStatus ==
    \A j \in JobId :
        /\ jobs[j].status = "pending" => ~jobs[j].started /\ ~jobs[j].finished
        /\ jobs[j].status = "processing" => jobs[j].started /\ ~jobs[j].finished
        /\ jobs[j].status \in Terminal => jobs[j].finished

\* What /queue and /history print next to a status belongs to it: no late
\* UpdateProgress lands on a row that is queued again, done or canceled.
ProgressMatchesStatus ==
    \A j \in JobId :
        /\ jobs[j].status = "pending" => jobs[j].progress = "Queued"
        /\ jobs[j].status = "done" => jobs[j].progress = "Completed"
        /\ jobs[j].status = "canceled" => jobs[j].progress = "Canceled"

\* A verdict stands.  A terminal status changes only when the cleanup deletes
\* the row, or when the row was reaped under a worker that was alive after
\* all and now reports how its job really ended.
VerdictStands ==
    [][\A j \in JobId :
          jobs[j].status \in Terminal /\ jobs'[j].status # jobs[j].status
          => \/ jobs'[j].status = "deleted"
             \/ /\ jobs[j].error = "timeout"
                /\ \E w \in Worker : held[w] = j /\ pc[w] \in Attempt]_vars

\* How many steps a worker has left in its loop once the context is done.
StepsLeft(at) ==
    CASE at = "claimed" -> 7
      [] at = "downloading" -> 6
      [] at \in {"returnedOk", "returnedErr"} -> 5
      [] at = "inspect" -> 4
      [] at = "uploading" -> 3
      [] at \in {"claiming", "errored", "sent", "sendFailed"} -> 2
      [] at = "poll" -> 1
      [] at = "stopped" -> 0

\* A signal winds the workers down: whatever a worker was at, each of its steps
\* brings it nearer to its return, so no wait, retry or claim keeps main in
\* wg.Wait.  With a scheduler that runs it, that is ShutdownNeedsNoDeadline.
SignalWindsDown ==
    [][ctxDone /\ ctxDone' =>
          \A w \in Worker :
              pc'[w] # pc[w] => StepsLeft(pc'[w]) < StepsLeft(pc[w])]_vars

-----------------------------------------------------------------------------
(* Fairness and liveness. *)

\* The steps a worker takes without waiting for yt-dlp.  Telegram requests end
\* on their own (the HTTP client has a timeout of 30 seconds), and a context
\* that ends kills yt-dlp; nothing else bounds a download.
WorkerCode(w) ==
    \/ LoopExit(w) \/ ClaimSelect(w) \/ ClaimCommit(w) \/ ClaimAbort(w)
    \/ ClaimLost(w) \/ Register(w) \/ Release(w) \/ HandleError(w)
    \/ FailJob(w) \/ StartUpload(w) \/ SendOk(w) \/ SendErr(w) \/ MarkDone(w)
    \/ JobCtxErr(w) /\ DownloadErr(w)

Fairness ==
    /\ \A w \in Worker : WF_vars(WorkerCode(w))
    /\ \A w \in Worker : SF_vars(ClaimCommit(w) \/ ClaimLost(w))
    /\ \A j \in JobId : WF_vars(\E S \in SUBSET JobId : j \in S /\ Reap(S))
    /\ WF_vars(ExitClean)

FairSpec == Spec /\ Fairness

\* In the end the process stays up and nobody stops it.
StaysUp == <>[](up /\ ~ctxDone)

\* Every download ends, by itself or by /cancel.
DownloadsEnd == \A w \in Worker : []<>(pc[w] # "downloading")

\* A claimed job does not stay in processing for ever: not when its worker
\* crashed, not when the write of its verdict failed, not when yt-dlp hangs.
\* This is what the reaper is for.
EveryClaimSettles ==
    StaysUp => \A j \in JobId :
        jobs[j].status = "processing" ~> jobs[j].status # "processing"

\* Every queued job gets its verdict (or is gone with one), provided downloads
\* end: two hung downloads are enough to keep two workers for ever, since the
\* reaper frees the row and not the worker.
EveryJobSettles ==
    StaysUp /\ DownloadsEnd => \A j \in JobId :
        jobs[j].status = "pending" ~> jobs[j].status \in Terminal \cup {"deleted"}

\* After a signal all workers come to their return by themselves, so main gets
\* past wg.Wait without its two-minute deadline.
ShutdownNeedsNoDeadline == ctxDone ~> ~up

-----------------------------------------------------------------------------
(* What the documentation says and the code does not do. *)

\* README.md: "limits.max_retries - auto-retry count for failed downloads".  A
\* download that failed while nobody canceled it and retries are left does not
\* end as canceled.
FailedDownloadIsRetried ==
    [][\A w \in Worker :
          /\ pc[w] = "errored" /\ pc'[w] = "poll"
          /\ ~ctxDone /\ held[w] \notin asked /\ tries[w] < MaxRetries
          => jobs'[held[w]].status # "canceled"]_vars

\* main.go: "waiting for workers to finish current jobs...".  A worker that
\* gives up its job after the signal has written how the job ended.
WorkersFinishCurrentJobs ==
    [][\A w \in Worker :
          ctxDone /\ up' /\ pc[w] \in Attempt /\ held'[w] = NoJob
          => jobs'[held[w]].status # "processing"]_vars

\* README.md: "/cancel <job_id> - cancel a pending or running job".  The
\* handler never turns down a job that a worker is running.
CancelReachesRunningJob ==
    [][\A h \in Handler :
          cmd[h].step = "lookup" /\ cmd'[h].step = "idle" /\ up'
          => ~ /\ jobs[cmd[h].job].status = "processing"
               /\ cmd[h].job \in Open]_vars

\* The same line: a job is not delivered any more once its owner has been told
\* "Cancellation requested for running job".
CanceledJobIsNotDelivered ==
    [][\A j \in asked : delivered'[j] = delivered[j]]_vars
=============================================================================
