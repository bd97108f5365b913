------------------------------ MODULE QueueView ------------------------------
(***************************************************************************)
(* What a user is told about the queue, against the order in which the     *)
(* workers take jobs from it.  Two handlers tell positions: queueURL, in   *)
(* the acknowledgement of a submission (GetQueueStats), and /queue, which  *)
(* lists the user's jobs and asks a position for each pending one          *)
(* (GetUserJobs).  Every position is a statement of its own, and the table *)
(* moves between any two of them.                                          *)
(*                                                                         *)
(* All statements go through one pool of connections.  A statement that    *)
(* takes a connection and gives it back is one step that needs a free      *)
(* connection; a connection that stays taken over several steps is counted *)
(* in Taken: the claim's transaction, an insert on its way, and the open   *)
(* result of the list query, kept while the positions are asked.           *)
(***************************************************************************)
EXTENDS JobTable, FiniteSets

CONSTANTS
    Handler,    \* goroutines that can be inside queueURL or /queue at a time
    Worker,     \* worker goroutines
    PoolSize,   \* connections of the pool (pgxpool's MaxConns)
    NoJob

ASSUME HandlerAssumption ==
    IsFiniteSet(Handler) /\ IsFiniteSet(Worker) /\ Handler \cap Worker = {}

\* A bigserial has 64 bits.
ASSUME JobIdFinite == IsFiniteSet(JobId)

ASSUME PoolSizeAssumption == PoolSize \in Nat \ {0}

ASSUME NoJobAssumption == NoJob \notin JobId

VARIABLES
    view,       \* per handler: how far it has come and what it has read
    scan,       \* per worker: what its select has seen and not locked yet
    claim,      \* per worker: the job it is claiming or has claimed
    promise     \* a position that was told, and what has happened since

vars == <<jobs, view, scan, claim, promise>>

(***************************************************************************)
(* Steps of a handler.                                                     *)
(*   inserting             the insert runs; the row is not visible yet     *)
(*   ahead, active, mine   about to run that count of GetQueueStats        *)
(*   list                  /queue, about to run the list query             *)
(*   positions             the rows are open; todo is still to be asked    *)
(***************************************************************************)
View == [step   : {"idle", "inserting", "ahead", "active", "mine", "list",
                   "positions"},
         job    : JobId \cup {NoJob},
         user   : User \cup {NoUser},
         todo   : SUBSET JobId,
         first  : SUBSET JobId,     \* what stood before job at the first count
         ahead  : Nat,
         active : Nat]

Idle == [step |-> "idle", job |-> NoJob, user |-> NoUser, todo |-> {},
         first |-> {}, ahead |-> 0, active |-> 0]

(***************************************************************************)
(* A select orders the rows of its snapshot before it locks one of them:   *)
(* of is the pending rows it saw, before how they were ordered then.       *)
(***************************************************************************)
Scan == [of : SUBSET JobId, before : SUBSET (JobId \X JobId)]

NoScan == [of |-> {}, before |-> {}]

(***************************************************************************)
(* One position told is followed at a time, whichever: job waits and was   *)
(* told pos.  passed: the jobs selected by a worker since then.  jumped:   *)
(* those that got in front or level since then, by an insert or by an      *)
(* admin, that were level with it, or that a select already running saw in *)
(* front.                                                                  *)
(***************************************************************************)
Promise == [job : JobId, pos : Nat, passed : SUBSET JobId, jumped : SUBSET JobId]

NoPromise == [job |-> NoJob, pos |-> 0, passed |-> {}, jumped |-> {}]

TypeOK ==
    /\ jobs \in [JobId -> Row]
    /\ view \in [Handler -> View]
    /\ scan \in [Worker -> Scan]
    /\ claim \in [Worker -> JobId \cup {NoJob}]
    /\ promise \in Promise \cup {NoPromise}

Init ==
    /\ jobs = [j \in JobId |-> NoRow("none")]
    /\ view = [h \in Handler |-> Idle]
    /\ scan = [w \in Worker |-> NoScan]
    /\ claim = [w \in Worker |-> NoJob]
    /\ promise = NoPromise

-----------------------------------------------------------------------------
(* Connections. *)

Scanning == {w \in Worker : scan[w].of # {}}
Claiming == {w \in Worker : claim[w] # NoJob /\ jobs[claim[w]].status = "pending"}
Inserting == {h \in Handler : view[h].step = "inserting"}
Listing == {h \in Handler : view[h].step = "positions"}

Taken == Scanning \cup Claiming \cup Inserting \cup Listing

FreeConnection == Cardinality(Taken) < PoolSize

(***************************************************************************)
(* What the holder of a connection needs to come to its end and give the   *)
(* connection back: the guards of ClaimNothing, ClaimCommit, InsertCommit  *)
(* and QueueShown.                                                         *)
(***************************************************************************)
CanGiveUp(w) == w \in Scanning

\* Slip: the update goes through the pool instead of the transaction.
CanCommitThroughPool(w) == w \in Claiming /\ FreeConnection

CanCommit(w) == w \in Claiming

CanInsert(h) == h \in Inserting

CanClose(h) == h \in Listing /\ view[h].todo = {}

CanFinish(p) == CanGiveUp(p) \/ CanCommit(p) \/ CanInsert(p) \/ CanClose(p)

-----------------------------------------------------------------------------
(* The order of the queue. *)

Pending(j) == jobs[j].status = "pending"

Locked(j) == \E w \in Worker : claim[w] = j

\* Slip: the comparison goes by age alone.
AheadByAge(j) == {k \in JobId : Pending(k) /\ Created[k] < Created[j]}

Precedes(rows, k, j) ==
    \/ rows[k].priority > rows[j].priority
    \/ rows[k].priority = rows[j].priority /\ Created[k] < Created[j]

\* where status = 'pending' and (priority > own or (priority = own and
\* created_at < own)); the row compared with need not be pending any more.
Ahead(j) == {k \in JobId : Pending(k) /\ Before(k, j)}

Processing == {k \in JobId : jobs[k].status = "processing"}

\* What may be taken before j although its position does not count it: a job in
\* the same place, or one that a select already running saw in front.
Overtaking(j) ==
    {k \in JobId \ {j} :
        /\ Pending(k) /\ ~Before(k, j)
        /\ \/ ~Before(j, k)
           \/ \E w \in Scanning : k \in scan[w].of /\ <<j, k>> \notin scan[w].before}

\* A position has been told for j.  It means something while j waits.
Tell(j, n) ==
    \/ /\ promise = NoPromise /\ Pending(j) /\ ~Locked(j)
       /\ promise' = [job |-> j, pos |-> n, passed |-> {}, jumped |-> Overtaking(j)]
    \/ UNCHANGED promise

\* Job k got a place in the queue, or another one.
Moved(k, newJobs) ==
    promise' =
        IF promise.job = k THEN NoPromise
        ELSE IF promise # NoPromise /\ ~Precedes(newJobs, promise.job, k)
             THEN [promise EXCEPT !.jumped = @ \cup {k}]
             ELSE promise

Selected(k) ==
    promise' =
        IF promise.job = k THEN NoPromise
        ELSE IF promise # NoPromise /\ k \notin promise.jumped
             THEN [promise EXCEPT !.passed = @ \cup {k}]
             ELSE promise

Leave(h) == view' = [view EXCEPT ![h] = Idle]

-----------------------------------------------------------------------------
(* queueURL from its insert on. *)

Reserved == {view[h].job : h \in Inserting}

\* Slip: the id is one more than the largest in the table.
NextFreeByTable(j) ==
    /\ jobs[j].status = "none"
    /\ \A k \in JobId : k < j => jobs[k].status # "none"

\* An insert that has begun has its id from the sequence.
NextFree(j) ==
    /\ jobs[j].status = "none" /\ j \notin Reserved
    /\ \A k \in JobId : k < j => jobs[k].status # "none" \/ k \in Reserved

\* The statement has begun: created_at and the id are fixed.
InsertBegin(h) ==
    /\ view[h].step = "idle"
    /\ FreeConnection
    /\ \E j \in JobId, u \in User :
          /\ NextFree(j)
          /\ view' = [view EXCEPT ![h] = [Idle EXCEPT !.step = "inserting",
                                                      !.job = j, !.user = u]]
    /\ UNCHANGED <<jobs, scan, claim, promise>>

InsertCommit(h) ==
    LET j == view[h].job  u == view[h].user IN
    /\ CanInsert(h)
    /\ \E p \in IF u \in Admin THEN {0, 1} ELSE {0} :
          /\ jobs' = [jobs EXCEPT ![j] = InsertedRow(u, p)]
          /\ Moved(j, jobs')
    /\ view' = [view EXCEPT ![h].step = "ahead"]
    /\ UNCHANGED <<scan, claim>>

\* The id is used up all the same.
InsertFails(h) ==
    /\ view[h].step = "inserting"
    /\ jobs' = [jobs EXCEPT ![view[h].job] = NoRow("deleted")]
    /\ Leave(h)
    /\ UNCHANGED <<scan, claim, promise>>

\* Slip, these two and GetQueueStatsActiveFirst: the counts in the other order.
CountAheadLast(h) ==
    LET j == view[h].job IN
    /\ view[h].step = "active"
    /\ FreeConnection
    /\ view' = [view EXCEPT ![h].step = "mine", ![h].ahead = Cardinality(Ahead(j))]
    /\ Tell(j, Cardinality(Ahead(j)) + 1)
    /\ UNCHANGED <<jobs, scan, claim>>

CountActiveFirst(h) ==
    /\ view[h].step = "ahead"
    /\ FreeConnection
    /\ view' = [view EXCEPT ![h].step = "active",
                            ![h].first = Ahead(view[h].job) \cup Processing,
                            ![h].active = Cardinality(Processing)]
    /\ UNCHANGED <<jobs, scan, claim, promise>>

CountAhead(h) ==
    LET j == view[h].job IN
    /\ view[h].step = "ahead"
    /\ FreeConnection
    /\ view' = [view EXCEPT ![h].step = "active",
                            ![h].first = Ahead(j) \cup Processing,
                            ![h].ahead = Cardinality(Ahead(j))]
    /\ Tell(j, Cardinality(Ahead(j)) + 1)
    /\ UNCHANGED <<jobs, scan, claim>>

CountActive(h) ==
    /\ view[h].step = "active"
    /\ FreeConnection
    /\ view' = [view EXCEPT ![h].step = "mine",
                            ![h].active = Cardinality(Processing)]
    /\ UNCHANGED <<jobs, scan, claim, promise>>

\* "Your active jobs" is counted and the message edited.
CountMine(h) ==
    /\ view[h].step = "mine"
    /\ FreeConnection
    /\ Leave(h)
    /\ UNCHANGED <<jobs, scan, claim, promise>>

GetQueueStatsActiveFirst(h) ==
    CountActiveFirst(h) \/ CountAheadLast(h) \/ CountMine(h)

GetQueueStats(h) == CountAhead(h) \/ CountActive(h) \/ CountMine(h)

\* A count fails: nothing that was read is told, every number is shown as 0.
CountFails(h) ==
    /\ view[h].step \in {"ahead", "active", "mine"}
    /\ FreeConnection
    /\ Leave(h)
    /\ UNCHANGED <<jobs, scan, claim, promise>>

-----------------------------------------------------------------------------
(* /queue. *)

QueueCommand(h) ==
    /\ view[h].step = "idle"
    /\ \E u \in User :
          view' = [view EXCEPT ![h] = [Idle EXCEPT !.step = "list", !.user = u]]
    /\ UNCHANGED <<jobs, scan, claim, promise>>

\* The rows of one snapshot.  Reading one that is pending asks its position
\* before the next one is read, so the result stays open until the last.
ListRows(h) ==
    /\ view[h].step = "list"
    /\ FreeConnection
    /\ view' = [view EXCEPT ![h].step = "positions",
                   ![h].todo = {j \in JobId : Pending(j) /\ jobs[j].user = view[h].user}]
    /\ UNCHANGED <<jobs, scan, claim, promise>>

ListFails(h) ==
    /\ view[h].step = "list"
    /\ FreeConnection
    /\ Leave(h)
    /\ UNCHANGED <<jobs, scan, claim, promise>>

\* pendingPosition, on a second connection, for the newest of the rows that are
\* left (order by created_at desc); after an error no position is shown.
AskPosition(h) ==
    /\ view[h].step = "positions"
    /\ FreeConnection
    /\ \E j \in view[h].todo :
          /\ \A k \in view[h].todo : Created[k] <= Created[j]
          /\ view' = [view EXCEPT ![h].todo = @ \ {j}]
          /\ Tell(j, Cardinality(Ahead(j)) + 1)
    /\ UNCHANGED <<jobs, scan, claim>>

\* The last row is read: the connection is free again, the list is sent.
QueueShown(h) ==
    /\ CanClose(h)
    /\ Leave(h)
    /\ UNCHANGED <<jobs, scan, claim, promise>>

-----------------------------------------------------------------------------
(* The others: workers and the commands that move jobs in the queue. *)

\* ClaimJob's select begins: the pending rows and their order, as of now.
ClaimScan(w) ==
    /\ claim[w] = NoJob /\ w \notin Scanning
    /\ FreeConnection
    /\ scan' = [scan EXCEPT ![w] =
           [of     |-> {k \in JobId : Pending(k)},
            before |-> {p \in JobId \X JobId :
                           Pending(p[1]) /\ Pending(p[2]) /\ Before(p[1], p[2])}]]
    /\ UNCHANGED <<jobs, view, claim, promise>>

\* The first of them that can be locked and is still pending; one of the first,
\* where several stand level.
ClaimSelect(w) ==
    /\ \E j \in scan[w].of :
          /\ Pending(j) /\ ~Locked(j)
          /\ \A k \in scan[w].of \ {j} :
                Pending(k) /\ ~Locked(k) => <<k, j>> \notin scan[w].before
          /\ claim' = [claim EXCEPT ![w] = j]
          /\ Selected(j)
    /\ scan' = [scan EXCEPT ![w] = NoScan]
    /\ UNCHANGED <<jobs, view>>

\* There was none, or the statement failed.
ClaimNothing(w) ==
    /\ CanGiveUp(w)
    /\ scan' = [scan EXCEPT ![w] = NoScan]
    /\ UNCHANGED <<jobs, view, claim, promise>>

ClaimCommit(w) ==
    /\ CanCommit(w)
    /\ jobs' = [jobs EXCEPT ![claim[w]] = ClaimedRow(@)]
    /\ UNCHANGED <<view, scan, claim, promise>>

ClaimAbort(w) ==
    /\ w \in Claiming
    /\ claim' = [claim EXCEPT ![w] = NoJob]
    /\ UNCHANGED <<jobs, view, promise, scan>>

\* The job gets its verdict, whichever (the queue does not tell them apart, and
\* DoneRow stands for all); the worker polls again.
Finish(w) ==
    /\ claim[w] # NoJob
    /\ jobs[claim[w]].status = "processing"
    /\ FreeConnection
    /\ jobs' = [jobs EXCEPT ![claim[w]] = DoneRow(@)]
    /\ claim' = [claim EXCEPT ![w] = NoJob]
    /\ UNCHANGED <<view, promise, scan>>

CancelPending(j) ==
    /\ Pending(j) /\ ~Locked(j)
    /\ FreeConnection
    /\ jobs' = [jobs EXCEPT ![j] = CanceledRow(@)]
    /\ promise' = IF promise.job = j THEN NoPromise ELSE promise
    /\ UNCHANGED <<view, scan, claim>>

\* Slip: /promote raises the rank from where it is.
SetPriorityRelative(j) ==
    /\ Admin # {}
    /\ Pending(j) /\ ~Locked(j)
    /\ FreeConnection
    /\ \E p \in {0, 10} : jobs' = [jobs EXCEPT ![j].priority = @ + p]
    /\ Moved(j, jobs')
    /\ UNCHANGED <<view, scan, claim>>

\* /promote and /demote
SetPriority(j) ==
    /\ Admin # {}
    /\ Pending(j) /\ ~Locked(j)
    /\ FreeConnection
    /\ \E p \in {0, 10} : jobs' = [jobs EXCEPT ![j].priority = p]
    /\ Moved(j, jobs')
    /\ UNCHANGED <<view, scan, claim>>

HandlerStep(h) ==
    \/ InsertBegin(h) \/ InsertCommit(h) \/ InsertFails(h)
    \/ GetQueueStats(h) \/ CountFails(h)
    \/ QueueCommand(h) \/ ListRows(h) \/ ListFails(h) \/ AskPosition(h)
    \/ QueueShown(h)

WorkerStep(w) ==
    \/ ClaimScan(w) \/ ClaimSelect(w) \/ ClaimNothing(w)
    \/ ClaimCommit(w) \/ ClaimAbort(w) \/ Finish(w)

Next ==
    \/ \E h \in Handler : HandlerStep(h)
    \/ \E w \in Worker : WorkerStep(w)
    \/ \E j \in JobId : CancelPending(j) \/ SetPriority(j)

Spec == Init /\ [][Next]_vars

QueuePath == INSTANCE RowPath WITH at <- [j \in JobId |-> Place(j)]

\* Inserts that are on their way at once, some of which fail, claims and the
\* commands move a row as module JobLifecycle moves it.
QueuedRowsMoveOn == QueuePath!Spec

-----------------------------------------------------------------------------
(* Safety. *)

\* A position told is kept.  While a job waits, fewer jobs are taken before it
\* than the position said (position 1: none), not counting jobs that got in
\* front of it later through an admin's priority or an insert that had begun
\* before its own, that a select begun earlier still saw in front, or that have
\* its priority and its created_at (the order by does not say which is first).
\* Commands, claims that fail and other submissions in between do not break it.
\* pendingPosition and GetQueueStats against ClaimJob.
PositionHonoured ==
    promise # NoPromise => Cardinality(promise.passed) < promise.pos

Unfinished(k) == jobs[k].status \in {"pending", "processing"}

\* The numbers of an acknowledgement miss nobody.  They are two counts with a
\* changing table in between: a job may be counted in both, but one that was in
\* front or running at the first count and is not finished at the second is in
\* one of them ("Position ahead" plus "Active downloads").
AckMissesNobody ==
    \A h \in Handler :
        view[h].step = "mine" =>
            Cardinality({k \in view[h].first : Unfinished(k)})
                <= view[h].ahead + view[h].active

\* Every connection is taken, and whoever has one needs another to go on.
Starved == ~FreeConnection /\ \A p \in Taken : ~CanFinish(p)

\* The pool starves in one way only: each of its connections is the open list of
\* a /queue.  Workers, inserts and counts take no part, however many there are:
\* they run all their statements on the connection they have.  Whether it comes
\* to that depends on MaxConns (4 or the number of CPUs) against the users that
\* ask for /queue at a time; doc_queue follows what happens then.
OnlyListingsStarve ==
    Starved => Taken = Listing /\ Cardinality(Listing) = PoolSize

-----------------------------------------------------------------------------
(* Fairness and liveness. *)

\* What needs no connection, or has one.
OwnCode(h) ==
    InsertCommit(h) \/ InsertFails(h) \/ QueueShown(h)

\* What waits for one.  The pool serves its waiters in the order they came.
Waiting(h) ==
    \/ GetQueueStats(h) \/ CountFails(h)
    \/ ListRows(h) \/ ListFails(h) \/ AskPosition(h)

Fairness ==
    /\ \A h \in Handler : SF_vars(OwnCode(h) \/ Waiting(h))
    /\ \A w \in Worker : WF_vars(ClaimSelect(w) \/ ClaimNothing(w)
                                  \/ ClaimCommit(w) \/ ClaimAbort(w))

FairSpec == Spec /\ Fairness

\* README.md: "/queue - show your active jobs and queue positions".  Every
\* /queue comes to its answer, whoever else uses the pool meanwhile.
QueueCommandAnswers ==
    \A h \in Handler : view[h].step = "list" ~> view[h].step = "idle"
=============================================================================
