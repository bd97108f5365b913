-------------------------- MODULE QueueViewProofs ---------------------------
(***************************************************************************)
(* Theorems about QueueView, for every set of jobs, users, handlers and    *)
(* workers and every size of the pool.                                     *)
(***************************************************************************)
EXTENDS QueueView, FiniteSetTheorems, TLAPS

-----------------------------------------------------------------------------
(* Counting ids. *)

\* A set of ids has a number of members, and a smaller set no more of them.
LEMMA Counted ==
    ASSUME NEW S \in SUBSET JobId
    PROVE  /\ IsFiniteSet(S)
           /\ Cardinality(S) \in Nat
           /\ \A T \in SUBSET S : Cardinality(T) <= Cardinality(S)
<1>1. IsFiniteSet(S)
  BY JobIdFinite, FS_Subset
<1>2. Cardinality(S) \in Nat
  BY <1>1, FS_CardinalityType
<1>3. \A T \in SUBSET S : Cardinality(T) <= Cardinality(S)
  BY <1>1, FS_Subset
<1>. QED BY <1>1, <1>2, <1>3

\* A set that two others cover has no more members than they have.
LEMMA CoveredBy ==
    ASSUME NEW A \in SUBSET JobId, NEW B \in SUBSET JobId,
           NEW S \in SUBSET (A \cup B)
    PROVE  Cardinality(S) <= Cardinality(A) + Cardinality(B)
<1>1. /\ IsFiniteSet(A) /\ IsFiniteSet(B)
      /\ Cardinality(A) \in Nat /\ Cardinality(B) \in Nat
  BY Counted
<1>2. A \cup B \in SUBSET JobId /\ A \cap B \in SUBSET JobId
  OBVIOUS
<1>3. Cardinality(A \cup B) \in Nat /\ Cardinality(A \cap B) \in Nat
  BY <1>2, Counted
<1>4. Cardinality(S) <= Cardinality(A \cup B) /\ Cardinality(S) \in Nat
  BY <1>2, Counted
<1>5. Cardinality(A \cup B) = Cardinality(A) + Cardinality(B) - Cardinality(A \cap B)
  BY <1>1, FS_Union
<1>. QED BY <1>1, <1>3, <1>4, <1>5

-----------------------------------------------------------------------------
(* Type correctness. *)

LEMMA RowsTyped ==
    /\ \A u \in User \cup {NoUser}, p \in {0, 1} : InsertedRow(u, p) \in Row
    /\ NoRow("none") \in Row /\ NoRow("deleted") \in Row
    /\ \A r \in Row : /\ ClaimedRow(r) \in Row /\ DoneRow(r) \in Row
                      /\ CanceledRow(r) \in Row
                      /\ \A p \in {0, 10} : [r EXCEPT !.priority = p] \in Row
<1>. USE DEF Row, Status, Terminal
<1>1. \A u \in User \cup {NoUser}, p \in {0, 1} : InsertedRow(u, p) \in Row
  BY DEF InsertedRow, NoRow
<1>2. NoRow("none") \in Row /\ NoRow("deleted") \in Row
  BY DEF NoRow
<1>3. ASSUME NEW r \in Row
      PROVE  /\ ClaimedRow(r) \in Row /\ DoneRow(r) \in Row
             /\ CanceledRow(r) \in Row
             /\ \A p \in {0, 10} : [r EXCEPT !.priority = p] \in Row
  <2>1. ClaimedRow(r) \in Row
    BY DEF ClaimedRow
  <2>2. DoneRow(r) \in Row
    BY DEF DoneRow
  <2>3. CanceledRow(r) \in Row
    BY DEF CanceledRow
  <2>4. \A p \in {0, 10} : [r EXCEPT !.priority = p] \in Row
    OBVIOUS
  <2>. QED BY <2>1, <2>2, <2>3, <2>4
<1>. QED BY <1>1, <1>2, <1>3

\* A handler that inserts or counts does it for a job.
ViewNamed ==
    \A h \in Handler :
        view[h].step \in {"inserting", "ahead", "active", "mine"} =>
            view[h].job \in JobId

Typing == TypeOK /\ ViewNamed

LEMMA NoOneWaits == NoPromise \notin Promise
BY NoJobAssumption DEF NoPromise, Promise

LEMMA IdleTyped == Idle \in View /\ Idle.step = "idle"
BY DEF Idle, View

LEMMA AheadCounted ==
    ASSUME NEW k \in JobId
    PROVE  /\ Ahead(k) \in SUBSET JobId
           /\ Cardinality(Ahead(k)) \in Nat
           /\ Cardinality(Ahead(k)) + 1 \in Nat
<1>1. Ahead(k) \in SUBSET JobId
  BY DEF Ahead
<1>2. Cardinality(Ahead(k)) \in Nat
  BY <1>1, Counted
<1>. QED BY <1>1, <1>2

LEMMA TellTyped ==
    ASSUME TypeOK, NEW j \in JobId, NEW n \in Nat, Tell(j, n)
    PROVE  promise' \in Promise \cup {NoPromise}
<1>1. Overtaking(j) \in SUBSET JobId
  BY DEF Overtaking
<1>2. [job |-> j, pos |-> n, passed |-> {}, jumped |-> Overtaking(j)] \in Promise
  BY <1>1 DEF Promise
<1>. QED BY <1>2 DEF Tell, TypeOK

LEMMA MovedTyped ==
    ASSUME TypeOK, NEW k \in JobId, NEW rows, Moved(k, rows)
    PROVE  promise' \in Promise \cup {NoPromise}
<1>1. ASSUME promise # NoPromise
      PROVE  [promise EXCEPT !.jumped = @ \cup {k}] \in Promise
  BY <1>1 DEF TypeOK, Promise
<1>. QED BY <1>1 DEF Moved, TypeOK

LEMMA SelectedTyped ==
    ASSUME TypeOK, NEW k \in JobId, Selected(k)
    PROVE  promise' \in Promise \cup {NoPromise}
<1>1. ASSUME promise # NoPromise
      PROVE  [promise EXCEPT !.passed = @ \cup {k}] \in Promise
  BY <1>1 DEF TypeOK, Promise
<1>. QED BY <1>1 DEF Selected, TypeOK

\* A handler's step changes its own view only.
LEMMA ViewStep ==
    ASSUME Typing, NEW h \in Handler, NEW v \in View,
           view' = [view EXCEPT ![h] = v],
           v.step \in {"inserting", "ahead", "active", "mine"} => v.job \in JobId
    PROVE  view' \in [Handler -> View] /\ ViewNamed'
BY DEF Typing, TypeOK, ViewNamed

LEMMA TypingInit == Init => Typing
<1>1. Init => jobs \in [JobId -> Row]
  BY RowsTyped DEF Init
<1>2. Init => view \in [Handler -> View] /\ ViewNamed
  BY IdleTyped DEF Init, ViewNamed
<1>3. Init => scan \in [Worker -> Scan]
  BY DEF Init, NoScan, Scan
<1>. QED BY <1>1, <1>2, <1>3 DEF Init, Typing, TypeOK

LEMMA HandlerTyping ==
    ASSUME Typing, NEW h \in Handler, HandlerStep(h)
    PROVE  Typing'
<1>. DEFINE j == view[h].job
<1>1. view[h] \in View /\ view \in [Handler -> View]
  BY DEF Typing, TypeOK
<1>2. view[h].step \in {"inserting", "ahead", "active", "mine"} => j \in JobId
  BY DEF Typing, ViewNamed
<1>4. Processing \in SUBSET JobId /\ Cardinality(Processing) \in Nat
  <2>1. Processing \in SUBSET JobId
    BY DEF Processing
  <2>. QED BY <2>1, Counted
<1>5. ASSUME Leave(h) PROVE view' \in [Handler -> View] /\ ViewNamed'
  BY <1>5, IdleTyped, ViewStep DEF Leave
<1>6. CASE InsertBegin(h)
  <2>1. PICK k \in JobId, u \in User :
           view' = [view EXCEPT ![h] = [Idle EXCEPT !.step = "inserting",
                                                    !.job = k, !.user = u]]
    BY <1>6 DEF InsertBegin
  <2>. DEFINE v == [Idle EXCEPT !.step = "inserting", !.job = k, !.user = u]
  <2>2. v \in View /\ v.job = k
    BY DEF Idle, View
  <2>3. view' \in [Handler -> View] /\ ViewNamed'
    BY <2>1, <2>2, ViewStep
  <2>. QED BY <1>6, <2>3 DEF InsertBegin, Typing, TypeOK
<1>7. CASE InsertCommit(h)
  <2>. DEFINE v == [view[h] EXCEPT !.step = "ahead"]
  <2>1. v \in View /\ v.job = j
    BY <1>1 DEF View
  <2>2. view' = [view EXCEPT ![h] = v] /\ j \in JobId
    BY <1>1, <1>2, <1>7 DEF InsertCommit, CanInsert, Inserting
  <2>3. view' \in [Handler -> View] /\ ViewNamed'
    BY <2>1, <2>2, ViewStep
  <2>4. PICK p \in {0, 1} :
           jobs' = [jobs EXCEPT ![j] = InsertedRow(view[h].user, p)] /\ Moved(j, jobs')
    BY <1>7 DEF InsertCommit
  <2>5. view[h].user \in User \cup {NoUser}
    BY <1>1 DEF View
  <2>6. jobs' \in [JobId -> Row]
    BY <2>4, <2>5, RowsTyped DEF Typing, TypeOK
  <2>7. promise' \in Promise \cup {NoPromise}
    BY <2>2, <2>4, MovedTyped DEF Typing
  <2>. QED BY <1>7, <2>3, <2>6, <2>7 DEF InsertCommit, Typing, TypeOK
<1>8. CASE InsertFails(h)
  <2>1. jobs' \in [JobId -> Row]
    BY <1>8, RowsTyped DEF InsertFails, Typing, TypeOK
  <2>. QED BY <1>5, <1>8, <2>1 DEF InsertFails, Typing, TypeOK
<1>9. CASE CountAhead(h)
  <2>. DEFINE v == [view[h] EXCEPT !.step = "active",
                                   !.first = Ahead(j) \cup Processing,
                                   !.ahead = Cardinality(Ahead(j))]
  <2>1. j \in JobId
    BY <1>2, <1>9 DEF CountAhead
  <2>2. v \in View /\ v.job = j
    BY <1>1, <1>4, <2>1, AheadCounted DEF View
  <2>3. view' = [view EXCEPT ![h] = v]
    BY <1>1, <1>9 DEF CountAhead
  <2>4. view' \in [Handler -> View] /\ ViewNamed'
    BY <2>1, <2>2, <2>3, ViewStep
  <2>5. promise' \in Promise \cup {NoPromise}
    BY <1>9, <2>1, AheadCounted, TellTyped DEF CountAhead, Typing
  <2>. QED BY <1>9, <2>4, <2>5 DEF CountAhead, Typing, TypeOK
<1>10. CASE CountActive(h)
  <2>. DEFINE v == [view[h] EXCEPT !.step = "mine", !.active = Cardinality(Processing)]
  <2>1. j \in JobId
    BY <1>2, <1>10 DEF CountActive
  <2>2. v \in View /\ v.job = j
    BY <1>1, <1>4 DEF View
  <2>3. view' = [view EXCEPT ![h] = v]
    BY <1>1, <1>10 DEF CountActive
  <2>4. view' \in [Handler -> View] /\ ViewNamed'
    BY <2>1, <2>2, <2>3, ViewStep
  <2>. QED BY <1>10, <2>4 DEF CountActive, Typing, TypeOK
<1>11. CASE CountMine(h) \/ CountFails(h) \/ ListFails(h) \/ QueueShown(h)
  BY <1>5, <1>11 DEF CountMine, CountFails, ListFails, QueueShown, Typing, TypeOK
<1>12. CASE QueueCommand(h)
  <2>1. PICK u \in User :
           view' = [view EXCEPT ![h] = [Idle EXCEPT !.step = "list", !.user = u]]
    BY <1>12 DEF QueueCommand
  <2>. DEFINE v == [Idle EXCEPT !.step = "list", !.user = u]
  <2>2. v \in View /\ v.step = "list"
    BY DEF Idle, View
  <2>3. view' \in [Handler -> View] /\ ViewNamed'
    BY <2>1, <2>2, ViewStep
  <2>. QED BY <1>12, <2>3 DEF QueueCommand, Typing, TypeOK
<1>13. CASE ListRows(h)
  <2>. DEFINE todo == {k \in JobId : Pending(k) /\ jobs[k].user = view[h].user}
              v == [view[h] EXCEPT !.step = "positions", !.todo = todo]
  <2>1. todo \in SUBSET JobId
    OBVIOUS
  <2>. HIDE DEF todo
  <2>2. v \in View /\ v.step = "positions"
    BY <1>1, <2>1 DEF View
  <2>3. view' = [view EXCEPT ![h] = v]
    BY <1>1, <1>13 DEF ListRows, todo
  <2>4. view' \in [Handler -> View] /\ ViewNamed'
    BY <2>2, <2>3, ViewStep
  <2>. QED BY <1>13, <2>4 DEF ListRows, Typing, TypeOK
<1>14. CASE AskPosition(h)
  <2>1. PICK k \in view[h].todo : /\ view' = [view EXCEPT ![h].todo = @ \ {k}]
                                  /\ Tell(k, Cardinality(Ahead(k)) + 1)
    BY <1>14 DEF AskPosition
  <2>. DEFINE v == [view[h] EXCEPT !.todo = view[h].todo \ {k}]
  <2>2. v \in View /\ v.step = "positions" /\ k \in JobId
    BY <1>1, <1>14 DEF View, AskPosition
  <2>3. view' = [view EXCEPT ![h] = v]
    BY <1>1, <2>1
  <2>4. view' \in [Handler -> View] /\ ViewNamed'
    BY <2>2, <2>3, ViewStep
  <2>5. promise' \in Promise \cup {NoPromise}
    BY <2>1, <2>2, AheadCounted, TellTyped DEF Typing
  <2>. QED BY <1>14, <2>4, <2>5 DEF AskPosition, Typing, TypeOK
<1>. QED
  BY <1>6, <1>7, <1>8, <1>9, <1>10, <1>11, <1>12, <1>13, <1>14
     DEF HandlerStep, GetQueueStats

LEMMA WorkerTyping ==
    ASSUME Typing, NEW w \in Worker, WorkerStep(w)
    PROVE  Typing'
<1>1. /\ jobs \in [JobId -> Row] /\ claim \in [Worker -> JobId \cup {NoJob}]
      /\ scan \in [Worker -> Scan]
  BY DEF Typing, TypeOK
<1>2. CASE ClaimScan(w)
  <2>. DEFINE s == [of     |-> {k \in JobId : Pending(k)},
                    before |-> {p \in JobId \X JobId :
                                  Pending(p[1]) /\ Pending(p[2]) /\ Before(p[1], p[2])}]
  <2>1. s \in Scan
    BY DEF Scan
  <2>2. scan' = [scan EXCEPT ![w] = s]
    BY <1>2 DEF ClaimScan
  <2>. HIDE DEF s
  <2>3. scan' \in [Worker -> Scan]
    BY <1>1, <2>1, <2>2
  <2>. QED BY <1>2, <2>3 DEF ClaimScan, Typing, TypeOK, ViewNamed
<1>3. NoScan \in Scan
  BY DEF NoScan, Scan
<1>4. CASE ClaimSelect(w)
  <2>1. PICK j \in scan[w].of : claim' = [claim EXCEPT ![w] = j] /\ Selected(j)
    BY <1>4 DEF ClaimSelect
  <2>2. j \in JobId
    BY <1>1 DEF Scan
  <2>3. promise' \in Promise \cup {NoPromise}
    BY <2>1, <2>2, SelectedTyped DEF Typing
  <2>. QED BY <1>1, <1>3, <1>4, <2>1, <2>2, <2>3 DEF ClaimSelect, Typing, TypeOK, ViewNamed
<1>5. CASE ClaimNothing(w)
  BY <1>1, <1>3, <1>5 DEF ClaimNothing, Typing, TypeOK, ViewNamed
<1>6. CASE ClaimCommit(w)
  <2>1. claim[w] \in JobId
    BY <1>1, <1>6 DEF ClaimCommit, CanCommit, Claiming
  <2>2. jobs' \in [JobId -> Row]
    BY <1>1, <1>6, <2>1, RowsTyped DEF ClaimCommit
  <2>. QED BY <1>6, <2>2 DEF ClaimCommit, Typing, TypeOK, ViewNamed
<1>7. CASE ClaimAbort(w)
  BY <1>1, <1>7 DEF ClaimAbort, Typing, TypeOK, ViewNamed
<1>8. CASE Finish(w)
  <2>1. claim[w] \in JobId
    BY <1>1, <1>8 DEF Finish
  <2>2. jobs' \in [JobId -> Row] /\ claim' \in [Worker -> JobId \cup {NoJob}]
    BY <1>1, <1>8, <2>1, RowsTyped DEF Finish
  <2>. QED BY <1>8, <2>2 DEF Finish, Typing, TypeOK, ViewNamed
<1>. QED BY <1>2, <1>4, <1>5, <1>6, <1>7, <1>8 DEF WorkerStep

LEMMA CommandTyping ==
    ASSUME Typing, NEW j \in JobId, CancelPending(j) \/ SetPriority(j)
    PROVE  Typing'
<1>1. jobs \in [JobId -> Row] /\ promise \in Promise \cup {NoPromise}
  BY DEF Typing, TypeOK
<1>2. CASE CancelPending(j)
  <2>1. jobs' \in [JobId -> Row]
    BY <1>1, <1>2, RowsTyped DEF CancelPending
  <2>2. promise' \in Promise \cup {NoPromise}
    BY <1>1, <1>2 DEF CancelPending
  <2>. QED BY <1>2, <2>1, <2>2 DEF CancelPending, Typing, TypeOK, ViewNamed
<1>3. CASE SetPriority(j)
  <2>1. PICK p \in {0, 10} : jobs' = [jobs EXCEPT ![j].priority = p]
    BY <1>3 DEF SetPriority
  <2>2. jobs' = [jobs EXCEPT ![j] = [jobs[j] EXCEPT !.priority = p]]
    BY <2>1
  <2>3. jobs' \in [JobId -> Row]
    BY <1>1, <2>2, RowsTyped
  <2>4. promise' \in Promise \cup {NoPromise}
    BY <1>3, MovedTyped DEF SetPriority, Typing
  <2>. QED BY <1>3, <2>3, <2>4 DEF SetPriority, Typing, TypeOK, ViewNamed
<1>. QED BY <1>2, <1>3

LEMMA TypingNext == Typing /\ [Next]_vars => Typing'
<1>. SUFFICES ASSUME Typing, [Next]_vars PROVE Typing'
  OBVIOUS
<1>1. CASE UNCHANGED vars
  BY <1>1 DEF vars, Typing, TypeOK, ViewNamed
<1>. QED BY <1>1, HandlerTyping, WorkerTyping, CommandTyping DEF Next

\* The models of queueURL, /queue, ClaimJob and the commands keep every variable
\* in its type, for every number of jobs, users, workers and connections.
THEOREM QueueTypeCorrect == Spec => []TypeOK
<1>1. Spec => []Typing
  BY TypingInit, TypingNext, PTL DEF Spec
<1>. QED BY <1>1, PTL DEF Typing

-----------------------------------------------------------------------------
(* What holds of ids and snapshots. *)

\* An id that is being inserted has no row yet, and only one handler has it.
IdsReserved ==
    \A h \in Inserting :
        /\ jobs[view[h].job].status = "none"
        /\ \A g \in Inserting : view[g].job = view[h].job => g = h

\* A snapshot has rows that existed, and orders no others.
ScansOrdered ==
    \A w \in Worker :
        /\ \A k \in scan[w].of : jobs[k].status # "none"
        /\ scan[w].before \subseteq scan[w].of \X scan[w].of

Known == Typing /\ IdsReserved /\ ScansOrdered

\* Of two rows, whatever the table holds, one at most is in front of the other.
LEMMA PlacesDiffer ==
    ASSUME NEW rows \in [JobId -> Row], NEW k \in JobId, NEW m \in JobId
    PROVE  Precedes(rows, k, m) => ~Precedes(rows, m, k)
<1>1. /\ rows[k].priority \in Nat /\ rows[m].priority \in Nat
      /\ Created[k] \in Nat /\ Created[m] \in Nat
  BY CreatedAssumption DEF Row
<1>. QED BY <1>1 DEF Precedes

\* A row that exists does not become pending, an unfinished one was unfinished.
LEMMA RowsMoveOn ==
    ASSUME Known, [Next]_vars, NEW k \in JobId, jobs[k].status # "none"
    PROVE  /\ jobs'[k].status # "none"
           /\ jobs'[k].status = "pending" => jobs[k].status = "pending"
           /\ jobs'[k].status = "processing" =>
                 jobs[k].status \in {"pending", "processing"}
<1>1. jobs \in [JobId -> Row] /\ claim \in [Worker -> JobId \cup {NoJob}]
  BY DEF Known, Typing, TypeOK
<1>2. CASE UNCHANGED jobs
  BY <1>2
<1>3. ASSUME NEW h \in Handler, InsertCommit(h)
      PROVE  jobs'[k] = jobs[k]
  <2>1. jobs[view[h].job].status = "none"
    BY <1>3 DEF InsertCommit, CanInsert, Known, IdsReserved, Inserting
  <2>. QED BY <1>1, <1>3, <2>1 DEF InsertCommit
<1>4. ASSUME NEW h \in Handler, InsertFails(h)
      PROVE  jobs'[k] = jobs[k]
  <2>1. jobs[view[h].job].status = "none"
    BY <1>4 DEF InsertFails, Known, IdsReserved, Inserting
  <2>. QED BY <1>1, <1>4, <2>1 DEF InsertFails
<1>5. ASSUME NEW h \in Handler, HandlerStep(h)
      PROVE  UNCHANGED jobs \/ InsertCommit(h) \/ InsertFails(h)
  BY <1>5 DEF HandlerStep, InsertBegin, GetQueueStats, CountAhead, CountActive,
              CountMine, CountFails, QueueCommand, ListRows, ListFails,
              AskPosition, QueueShown
<1>6. ASSUME NEW w \in Worker, ClaimCommit(w)
      PROVE  \/ jobs'[k] = jobs[k]
             \/ jobs[k].status = "pending" /\ jobs'[k].status = "processing"
  BY <1>1, <1>6 DEF ClaimCommit, CanCommit, Claiming, ClaimedRow, Row
<1>7. ASSUME NEW w \in Worker, Finish(w)
      PROVE  jobs'[k] = jobs[k] \/ jobs'[k].status = "done"
  BY <1>1, <1>7 DEF Finish, DoneRow, Row
<1>8. ASSUME NEW w \in Worker, WorkerStep(w)
      PROVE  UNCHANGED jobs \/ ClaimCommit(w) \/ Finish(w)
  BY <1>8 DEF WorkerStep, ClaimScan, ClaimSelect, ClaimNothing, ClaimAbort
<1>9. ASSUME NEW j \in JobId, CancelPending(j)
      PROVE  jobs'[k] = jobs[k] \/ jobs'[k].status = "canceled"
  BY <1>1, <1>9 DEF CancelPending, CanceledRow, Row
<1>10. ASSUME NEW j \in JobId, SetPriority(j)
       PROVE  jobs'[k].status = jobs[k].status
  BY <1>1, <1>10 DEF SetPriority, Row
<1>. QED
  BY <1>2, <1>3, <1>4, <1>5, <1>6, <1>7, <1>8, <1>9, <1>10 DEF Next, vars

LEMMA KnownInit == Init => Known
BY TypingInit DEF Init, Known, IdsReserved, ScansOrdered, Inserting, Idle, NoScan

LEMMA ReservedNext == Known /\ [Next]_vars => IdsReserved'
<1>. SUFFICES ASSUME Known, [Next]_vars PROVE IdsReserved'
  OBVIOUS
<1>1. /\ view \in [Handler -> View] /\ jobs \in [JobId -> Row]
      /\ claim \in [Worker -> JobId \cup {NoJob}]
  BY DEF Known, Typing, TypeOK
<1>2. ASSUME NEW h \in Handler, InsertBegin(h) PROVE IdsReserved'
  <2>1. PICK j \in JobId, u \in User :
           /\ NextFree(j)
           /\ view' = [view EXCEPT ![h] = [Idle EXCEPT !.step = "inserting",
                                                       !.job = j, !.user = u]]
    BY <1>2 DEF InsertBegin
  <2>2. /\ view'[h].job = j
        /\ \A g \in Handler \ {h} : view'[g] = view[g]
        /\ jobs' = jobs
    BY <1>1, <1>2, <2>1 DEF Idle, InsertBegin
  <2>3. Inserting' \subseteq Inserting \cup {h}
    BY <2>2 DEF Inserting
  <2>4. /\ jobs[j].status = "none"
        /\ \A g \in Inserting : view[g].job # j
    BY <2>1 DEF NextFree, Reserved
  <2>5. h \notin Inserting
    BY <1>2 DEF InsertBegin, Inserting
  <2>6. \A g \in Inserting' : g = h \/ (g # h /\ g \in Inserting /\ view'[g] = view[g])
    BY <2>2, <2>3 DEF Inserting
  <2>. QED BY <2>2, <2>4, <2>6 DEF Known, IdsReserved
<1>3. ASSUME NEW h \in Handler, view'[h].step # "inserting",
             \A g \in Handler \ {h} : view'[g] = view[g],
             \A k \in JobId : jobs'[k].status = jobs[k].status
                              \/ (h \in Inserting /\ k = view[h].job)
      PROVE  IdsReserved'
  <2>1. \A g \in Inserting' : /\ g # h /\ g \in Inserting /\ view'[g] = view[g]
                              /\ view[g].job \in JobId
    BY <1>3 DEF Inserting, Known, Typing, ViewNamed
  <2>2. \A g \in Inserting' : h \in Inserting => view[g].job # view[h].job
    BY <2>1 DEF Known, IdsReserved
  <2>3. \A g \in Inserting' : jobs'[view'[g].job].status = "none"
    BY <1>3, <2>1, <2>2 DEF Known, IdsReserved
  <2>. QED BY <2>1, <2>3 DEF Known, IdsReserved
<1>4. ASSUME view' = view,
             \A k \in JobId : jobs[k].status = "none" => jobs'[k].status = "none"
      PROVE  IdsReserved'
  <2>1. \A g \in Inserting : view[g].job \in JobId
    BY DEF Inserting, Known, Typing, ViewNamed
  <2>. QED BY <1>4, <2>1 DEF Known, IdsReserved, Inserting
<1>5. ASSUME NEW h \in Handler, HandlerStep(h) PROVE IdsReserved'
  <2>1. CASE InsertCommit(h)
    <3>1. /\ view'[h].step # "inserting"
          /\ \A g \in Handler \ {h} : view'[g] = view[g]
      BY <1>1, <2>1 DEF InsertCommit
    <3>2. \A k \in JobId : jobs'[k].status = jobs[k].status \/ k = view[h].job
      BY <1>1, <2>1 DEF InsertCommit
    <3>. QED BY <1>3, <2>1, <3>1, <3>2 DEF Inserting, InsertCommit, CanInsert
  <2>2. CASE InsertFails(h)
    <3>1. /\ view'[h].step # "inserting"
          /\ \A g \in Handler \ {h} : view'[g] = view[g]
      BY <1>1, <2>2 DEF InsertFails, Leave, Idle
    <3>2. \A k \in JobId : jobs'[k].status = jobs[k].status \/ k = view[h].job
      BY <1>1, <2>2 DEF InsertFails
    <3>. QED BY <1>3, <2>2, <3>1, <3>2 DEF Inserting, InsertFails
  <2>3. CASE CountAhead(h) \/ CountActive(h) \/ QueueCommand(h) \/ ListRows(h)
    <3>1. view' = [view EXCEPT ![h] = view'[h]] /\ jobs' = jobs
      BY <1>1, <2>3 DEF CountAhead, CountActive, QueueCommand, ListRows
    <3>2. view'[h].step \in {"active", "mine", "list", "positions"}
      <4>1. view[h] \in View
        BY <1>1
      <4>2. CASE CountAhead(h)
        <5>. DEFINE v == [view[h] EXCEPT !.step = "active",
                                         !.first = Ahead(view[h].job) \cup Processing,
                                         !.ahead = Cardinality(Ahead(view[h].job))]
        <5>1. view'[h] = v
          BY <1>1, <4>2 DEF CountAhead
        <5>. QED BY <4>1, <5>1 DEF View
      <4>3. CASE CountActive(h)
        BY <1>1, <4>1, <4>3 DEF CountActive, View
      <4>4. CASE QueueCommand(h)
        BY <1>1, <4>4 DEF QueueCommand, Idle
      <4>5. CASE ListRows(h)
        BY <1>1, <4>1, <4>5 DEF ListRows, View
      <4>. QED BY <2>3, <4>2, <4>3, <4>4, <4>5
    <3>. QED BY <1>1, <1>3, <3>1, <3>2
  <2>4. CASE CountMine(h) \/ CountFails(h) \/ ListFails(h) \/ QueueShown(h)
    BY <1>1, <1>3, <2>4
       DEF CountMine, CountFails, ListFails, QueueShown, Leave, Idle
  <2>5. CASE AskPosition(h)
    <3>1. /\ view'[h].step # "inserting" /\ jobs' = jobs
          /\ \A g \in Handler \ {h} : view'[g] = view[g]
      BY <1>1, <2>5 DEF AskPosition
    <3>. QED BY <1>3, <3>1
  <2>. QED BY <1>2, <1>5, <2>1, <2>2, <2>3, <2>4, <2>5 DEF HandlerStep, GetQueueStats
<1>6. ASSUME NEW w \in Worker, WorkerStep(w) PROVE IdsReserved'
  <2>1. view' = view
    BY <1>6 DEF WorkerStep, ClaimScan, ClaimSelect, ClaimNothing, ClaimCommit,
                ClaimAbort, Finish
  <2>2. CASE ClaimCommit(w) \/ Finish(w)
    <3>1. \A k \in JobId : jobs[k].status = "none" => jobs'[k].status = "none"
      BY <1>1, <2>2 DEF ClaimCommit, CanCommit, Claiming, Finish
    <3>. QED BY <1>4, <2>1, <3>1
  <2>3. CASE UNCHANGED jobs
    BY <1>4, <2>1, <2>3
  <2>. QED
    BY <1>6, <2>2, <2>3 DEF WorkerStep, ClaimScan, ClaimSelect, ClaimNothing, ClaimAbort
<1>7. ASSUME NEW j \in JobId, CancelPending(j) \/ SetPriority(j) PROVE IdsReserved'
  <2>1. view' = view
    BY <1>7 DEF CancelPending, SetPriority
  <2>2. \A k \in JobId : jobs[k].status = "none" => jobs'[k].status = "none"
    BY <1>1, <1>7 DEF CancelPending, SetPriority, Pending
  <2>. QED BY <1>4, <2>1, <2>2
<1>8. CASE UNCHANGED vars
  BY <1>4, <1>8 DEF vars
<1>. QED BY <1>5, <1>6, <1>7, <1>8 DEF Next

LEMMA ScansNext == Known /\ [Next]_vars => ScansOrdered'
<1>. SUFFICES ASSUME Known, [Next]_vars, NEW w \in Worker
              PROVE  /\ \A k \in scan'[w].of : jobs'[k].status # "none"
                     /\ scan'[w].before \subseteq scan'[w].of \X scan'[w].of
  BY DEF ScansOrdered
<1>1. /\ scan \in [Worker -> Scan] /\ jobs \in [JobId -> Row]
      /\ scan[w].of \subseteq JobId
  BY DEF Known, Typing, TypeOK, Scan
<1>2. CASE scan'[w] = scan[w]
  BY <1>1, <1>2, RowsMoveOn DEF Known, ScansOrdered
<1>3. CASE scan'[w] = NoScan
  BY <1>3 DEF NoScan
<1>4. CASE ClaimScan(w)
  <2>1. /\ scan'[w].of = {k \in JobId : Pending(k)}
        /\ scan'[w].before = {p \in JobId \X JobId :
                                 Pending(p[1]) /\ Pending(p[2]) /\ Before(p[1], p[2])}
        /\ jobs' = jobs
    BY <1>1, <1>4 DEF ClaimScan
  <2>2. \A k \in scan'[w].of : jobs'[k].status # "none"
    BY <2>1 DEF Pending
  <2>3. scan'[w].before \subseteq scan'[w].of \X scan'[w].of
    BY <2>1
  <2>. QED BY <2>2, <2>3
<1>5. scan'[w] = scan[w] \/ scan'[w] = NoScan \/ ClaimScan(w)
  <2>1. ASSUME NEW h \in Handler, HandlerStep(h) PROVE scan' = scan
    BY <2>1 DEF HandlerStep, InsertBegin, InsertCommit, InsertFails, GetQueueStats,
                CountAhead, CountActive, CountMine, CountFails, QueueCommand,
                ListRows, ListFails, AskPosition, QueueShown
  <2>2. ASSUME NEW j \in JobId, CancelPending(j) \/ SetPriority(j) PROVE scan' = scan
    BY <2>2 DEF CancelPending, SetPriority
  <2>3. ASSUME NEW v \in Worker, WorkerStep(v)
        PROVE  scan'[w] = scan[w] \/ scan'[w] = NoScan \/ ClaimScan(w)
    BY <1>1, <2>3 DEF WorkerStep, ClaimScan, ClaimSelect, ClaimNothing, ClaimCommit,
                      ClaimAbort, Finish
  <2>. QED BY <2>1, <2>2, <2>3 DEF Next, vars
<1>. QED BY <1>2, <1>3, <1>4, <1>5

LEMMA KnownAlways == Spec => []Known
<1>1. Known /\ [Next]_vars => Known'
  BY TypingNext, ReservedNext, ScansNext DEF Known
<1>. QED BY <1>1, KnownInit, PTL DEF Spec

-----------------------------------------------------------------------------
(* Positions. *)

\* Whoever stands before the job of the promise.
Leading == Ahead(promise.job)

\* Whoever has the same place; which of them is taken first is open.
Level == {k \in JobId \ {promise.job} :
             Pending(k) /\ ~Before(k, promise.job) /\ ~Before(promise.job, k)}

\* What a select that is running may take before it.
Seen == {k \in JobId \ {promise.job} :
            /\ Pending(k)
            /\ \E w \in Worker : k \in scan[w].of
                                 /\ <<promise.job, k>> \notin scan[w].before}

\* What has been taken before it, or may still be, and counts.
Front == promise.passed \cup ((Leading \cup Seen) \ promise.jumped)

\* The job of a promise waits, the position did not count those level with it,
\* and there was room for all that is in front.
Kept ==
    promise # NoPromise =>
        /\ Pending(promise.job) /\ ~Locked(promise.job)
        /\ Level \subseteq promise.jumped
        /\ Cardinality(Front) < promise.pos

LEMMA FrontTyped ==
    ASSUME TypeOK, promise # NoPromise
    PROVE  Front \in SUBSET JobId /\ promise \in Promise
BY DEF TypeOK, Promise, Front, Leading, Ahead, Seen

\* It is enough that nobody comes to the front.
LEMMA NobodyJoins ==
    ASSUME Known, Kept, promise # NoPromise, promise' \in Promise,
           promise'.job = promise.job, promise'.pos = promise.pos,
           Pending(promise.job)', ~Locked(promise.job)',
           promise'.passed \subseteq Front,
           Leading' \ promise'.jumped \subseteq Front,
           Seen' \ promise'.jumped \subseteq Front,
           Level' \subseteq promise'.jumped
    PROVE  Kept'
<1>1. Front' \subseteq Front
  BY DEF Front
<1>2. Front \in SUBSET JobId /\ promise \in Promise
  BY FrontTyped DEF Known, Typing
<1>3. /\ Cardinality(Front') <= Cardinality(Front)
      /\ Cardinality(Front) \in Nat
  BY <1>1, <1>2, Counted
<1>4. Cardinality(Front') \in Nat
  BY <1>1, <1>2, Counted
<1>5. promise.pos \in Nat
  BY <1>2 DEF Promise
<1>6. Cardinality(Front') < promise'.pos
  BY <1>3, <1>4, <1>5 DEF Kept
<1>. QED BY <1>6 DEF Kept

\* A step that puts no row in another place and begins no select.
LEMMA KeptQuietly ==
    ASSUME Known, Kept, promise' = promise,
           \A v \in Worker : scan'[v] = scan[v] \/ scan'[v] = NoScan,
           \A k \in JobId : jobs'[k].status = "pending" => jobs'[k] = jobs[k],
           promise # NoPromise =>
               jobs'[promise.job] = jobs[promise.job] /\ ~Locked(promise.job)'
    PROVE  Kept'
<1>. SUFFICES ASSUME promise # NoPromise PROVE Kept'
  BY DEF Kept
<1>1. promise \in Promise /\ promise.job \in JobId
  BY DEF Known, Typing, TypeOK, Promise
<1>2. Leading' \subseteq Leading
  BY DEF Leading, Ahead, Pending, Before
<1>3. Seen' \subseteq Seen
  BY DEF Seen, Pending, NoScan
<1>4. Pending(promise.job)' /\ ~Locked(promise.job)'
  BY DEF Kept, Pending
<1>5. Level' \subseteq promise'.jumped
  <2>1. Level' \subseteq Level
    BY DEF Level, Pending, Before
  <2>. QED BY <2>1 DEF Kept
<1>. QED BY <1>1, <1>2, <1>3, <1>4, <1>5, NobodyJoins DEF Front

\* Job k got another place.
LEMMA KeptMoved ==
    ASSUME Known, Kept, NEW k \in JobId, Moved(k, jobs'),
           jobs' \in [JobId -> Row], scan' = scan, claim' = claim,
           \A m \in JobId \ {k} : jobs'[m] = jobs[m],
           \A w \in Worker : k \in scan[w].of => Pending(k)
    PROVE  Kept'
<1>1. CASE promise' = NoPromise
  BY <1>1 DEF Kept
<1>2. CASE promise' # NoPromise
  <2>1. promise # NoPromise /\ promise.job # k
    BY <1>2 DEF Moved
  <2>2. promise \in Promise /\ promise.job \in JobId
    BY <2>1 DEF Known, Typing, TypeOK, Promise
  <2>3. /\ promise' \in Promise
        /\ promise'.job = promise.job /\ promise'.pos = promise.pos
        /\ promise'.passed = promise.passed
        /\ promise.jumped \subseteq promise'.jumped
        /\ ~Precedes(jobs', promise.job, k) => k \in promise'.jumped
    BY <2>1, <2>2 DEF Moved, Promise
  <2>4. jobs'[promise.job] = jobs[promise.job]
    BY <2>1, <2>2
  <2>5. Pending(promise.job)' /\ ~Locked(promise.job)'
    BY <2>1, <2>3, <2>4 DEF Kept, Pending, Locked
  <2>6. ASSUME NEW m \in Leading', m \notin promise'.jumped PROVE m \in Front
    <3>1. m \in JobId /\ Pending(m)' /\ Precedes(jobs', m, promise.job)
      BY <2>3, <2>6 DEF Leading, Ahead, Before, Precedes
    <3>2. m # k
      <4>1. ~Precedes(jobs', promise.job, m)
        BY <2>2, <3>1, PlacesDiffer
      <4>. QED BY <2>3, <2>6, <4>1
    <3>3. m \in Leading
      BY <2>4, <3>1, <3>2 DEF Leading, Ahead, Pending, Before, Precedes
    <3>. QED BY <2>3, <2>6, <3>3 DEF Front
  <2>7. ASSUME NEW m \in Seen', m \notin promise'.jumped PROVE m \in Front
    <3>1. PICK w \in Worker : m \in scan[w].of /\ <<promise.job, m>> \notin scan[w].before
      BY <2>3, <2>7 DEF Seen
    <3>2. m \in JobId \ {promise.job} /\ jobs'[m].status = "pending"
      BY <2>3, <2>7 DEF Seen, Pending
    <3>3. Pending(m)
      BY <3>1, <3>2 DEF Pending
    <3>4. m \in Seen
      BY <3>1, <3>2, <3>3 DEF Seen
    <3>. QED BY <2>3, <2>7, <3>4 DEF Front
  <2>8. promise'.passed \subseteq Front
    BY <2>3 DEF Front
  <2>9. ASSUME NEW m \in Level' PROVE m \in promise'.jumped
    <3>1. /\ m \in JobId \ {promise.job} /\ Pending(m)'
          /\ ~Precedes(jobs', m, promise.job) /\ ~Precedes(jobs', promise.job, m)
      BY <2>3, <2>9 DEF Level, Before, Precedes
    <3>2. CASE m = k
      BY <2>3, <3>1, <3>2
    <3>3. CASE m # k
      <4>1. m \in Level
        BY <2>4, <3>1, <3>3 DEF Level, Pending, Before, Precedes
      <4>. QED BY <2>1, <2>3, <4>1 DEF Kept
    <3>. QED BY <3>2, <3>3
  <2>. QED BY <2>1, <2>3, <2>5, <2>6, <2>7, <2>8, <2>9, NobodyJoins
<1>. QED BY <1>1, <1>2

\* A position is told.
LEMMA KeptTold ==
    ASSUME Known, Kept, NEW j \in JobId, Tell(j, Cardinality(Ahead(j)) + 1),
           jobs' = jobs, scan' = scan, claim' = claim
    PROVE  Kept'
<1>1. CASE UNCHANGED promise
  BY <1>1 DEF Kept, Pending, Locked, Front, Leading, Ahead, Before, Seen, Level
<1>2. CASE /\ promise = NoPromise /\ Pending(j) /\ ~Locked(j)
           /\ promise' = [job |-> j, pos |-> Cardinality(Ahead(j)) + 1,
                          passed |-> {}, jumped |-> Overtaking(j)]
  <2>1. /\ promise'.job = j /\ promise'.passed = {}
        /\ promise'.pos = Cardinality(Ahead(j)) + 1
        /\ promise'.jumped = Overtaking(j)
    BY <1>2
  <2>2. Leading' = Ahead(j)
    BY <2>1 DEF Leading, Ahead, Pending, Before
  <2>3. Seen' \subseteq Ahead(j) \cup Overtaking(j)
    <3>1. ASSUME NEW k \in Seen' PROVE k \in Ahead(j) \/ k \in Overtaking(j)
      <4>1. k \in JobId \ {j} /\ Pending(k)
        BY <2>1 DEF Seen, Pending
      <4>2. \E w \in Scanning : k \in scan[w].of /\ <<j, k>> \notin scan[w].before
        BY <2>1 DEF Seen, Scanning
      <4>. QED BY <4>1, <4>2 DEF Ahead, Overtaking
    <3>. QED BY <3>1
  <2>4. Front' \subseteq Ahead(j)
    BY <2>1, <2>2, <2>3 DEF Front
  <2>5. Cardinality(Front') <= Cardinality(Ahead(j)) /\ Cardinality(Ahead(j)) \in Nat
    BY <2>4, AheadCounted, Counted
  <2>6. Cardinality(Front') \in Nat
    BY <2>4, AheadCounted, Counted
  <2>7. Cardinality(Front') < promise'.pos
    BY <2>1, <2>5, <2>6
  <2>8. Pending(promise.job)' /\ ~Locked(promise.job)'
    BY <1>2, <2>1 DEF Pending, Locked
  <2>9. Level' \subseteq promise'.jumped
    BY <2>1 DEF Level, Overtaking, Ahead, Pending, Before
  <2>. QED BY <2>7, <2>8, <2>9 DEF Kept
<1>. QED BY <1>1, <1>2 DEF Tell

\* A select begins.  Whoever it may take before a waiting job stands before it.
LEMMA KeptScan ==
    ASSUME Known, Kept, NEW w \in Worker, ClaimScan(w)
    PROVE  Kept'
<1>. SUFFICES ASSUME promise # NoPromise PROVE Kept'
  BY DEF Kept, ClaimScan
<1>1. /\ promise \in Promise /\ promise.job \in JobId
      /\ jobs \in [JobId -> Row] /\ scan \in [Worker -> Scan]
  BY DEF Known, Typing, TypeOK, Promise
<1>2. /\ promise' = promise /\ jobs' = jobs /\ claim' = claim
      /\ \A v \in Worker \ {w} : scan'[v] = scan[v]
      /\ scan'[w].of = {k \in JobId : Pending(k)}
      /\ scan'[w].before = {p \in JobId \X JobId :
                               Pending(p[1]) /\ Pending(p[2]) /\ Before(p[1], p[2])}
  BY <1>1 DEF ClaimScan
<1>3. Leading' = Leading
  BY <1>2 DEF Leading, Ahead, Pending, Before
<1>4. ASSUME NEW k \in Seen', k \notin Seen PROVE k \in Leading \cup promise.jumped
  <2>1. k \in JobId /\ k # promise.job /\ Pending(k)
    BY <1>2, <1>4 DEF Seen, Pending
  <2>2. <<promise.job, k>> \notin scan'[w].before
    BY <1>2, <1>4, <2>1 DEF Seen, Pending
  <2>3. Pending(promise.job)
    BY DEF Kept
  <2>4. ~Before(promise.job, k)
    BY <1>1, <1>2, <2>1, <2>2, <2>3
  <2>5. k \in Leading \/ k \in Level
    BY <2>1, <2>4 DEF Leading, Ahead, Level
  <2>. QED BY <2>5 DEF Kept
<1>5. Pending(promise.job)' /\ ~Locked(promise.job)'
  BY <1>2 DEF Kept, Pending, Locked
<1>6. Level' \subseteq promise'.jumped
  BY <1>2 DEF Kept, Level, Pending, Before
<1>. QED BY <1>1, <1>2, <1>3, <1>4, <1>5, <1>6, NobodyJoins DEF Front

\* A worker takes a job.  If it is not the one that waits it was in front.
LEMMA KeptSelect ==
    ASSUME Known, Kept, NEW w \in Worker, ClaimSelect(w)
    PROVE  Kept'
<1>1. CASE promise' = NoPromise
  BY <1>1 DEF Kept
<1>2. CASE promise' # NoPromise
  <2>. DEFINE j == promise.job
  <2>1. PICK m \in scan[w].of :
          /\ Pending(m) /\ ~Locked(m)
          /\ \A k \in scan[w].of \ {m} :
                Pending(k) /\ ~Locked(k) => <<k, m>> \notin scan[w].before
          /\ claim' = [claim EXCEPT ![w] = m]
          /\ Selected(m)
    BY DEF ClaimSelect
  <2>2. promise # NoPromise /\ j # m
    BY <1>2, <2>1 DEF Selected
  <2>3. /\ promise \in Promise /\ j \in JobId
        /\ scan \in [Worker -> Scan] /\ m \in JobId
        /\ claim \in [Worker -> JobId \cup {NoJob}]
    BY <2>2 DEF Known, Typing, TypeOK, Promise, Scan
  <2>4. /\ jobs' = jobs
        /\ scan' = [scan EXCEPT ![w] = NoScan]
    BY DEF ClaimSelect
  <2>5. Pending(j) /\ ~Locked(j)
    BY <2>2 DEF Kept
  <2>6. <<j, m>> \notin scan[w].before
    <3>1. CASE j \in scan[w].of
      BY <2>1, <2>2, <2>5, <3>1
    <3>2. CASE j \notin scan[w].of
      BY <3>2 DEF Known, ScansOrdered
    <3>. QED BY <3>1, <3>2
  <2>7. m \in Seen
    BY <2>1, <2>2, <2>3, <2>6 DEF Seen
  <2>8. /\ promise' \in Promise
        /\ promise'.job = j /\ promise'.pos = promise.pos
        /\ promise'.jumped = promise.jumped
        /\ promise'.passed \subseteq promise.passed \cup ({m} \ promise.jumped)
    BY <2>1, <2>2, <2>3 DEF Selected, Promise
  <2>9. promise'.passed \subseteq Front
    BY <2>7, <2>8 DEF Front
  <2>10. Leading' \subseteq Leading
    BY <2>4, <2>8 DEF Leading, Ahead, Pending, Before
  <2>11. Seen' \subseteq Seen
    BY <2>3, <2>4, <2>8 DEF Seen, Pending, NoScan
  <2>12. Pending(j)' /\ ~Locked(j)'
    BY <2>1, <2>2, <2>3, <2>4, <2>5, <2>8 DEF Pending, Locked
  <2>13. Pending(promise.job)' /\ ~Locked(promise.job)'
    BY <2>12
  <2>14. Level' \subseteq promise'.jumped
    <3>1. Level' \subseteq Level
      BY <2>4, <2>8 DEF Level, Pending, Before
    <3>. QED BY <2>2, <2>8, <3>1 DEF Kept
  <2>. QED
    BY <2>2, <2>8, <2>9, <2>10, <2>11, <2>13, <2>14, NobodyJoins DEF Front
<1>. QED BY <1>1, <1>2

LEMMA KeptHandler ==
    ASSUME Known, Kept, NEW h \in Handler, HandlerStep(h)
    PROVE  Kept'
<1>. DEFINE i == view[h].job
<1>1. /\ jobs \in [JobId -> Row] /\ view[h] \in View
      /\ promise # NoPromise => promise.job \in JobId
      /\ view[h].step \in {"inserting", "ahead", "active", "mine"} => i \in JobId
  BY DEF Known, Typing, TypeOK, ViewNamed, Promise
<1>2. CASE UNCHANGED <<jobs, scan, claim, promise>>
  <2>1. promise # NoPromise =>
            jobs'[promise.job] = jobs[promise.job] /\ ~Locked(promise.job)'
    BY <1>2 DEF Kept, Locked
  <2>. QED BY <1>2, <2>1, KeptQuietly
<1>3. CASE InsertCommit(h)
  <2>1. i \in JobId /\ jobs[i].status = "none"
    BY <1>1, <1>3 DEF InsertCommit, CanInsert, Known, IdsReserved, Inserting
  <2>2. \A w \in Worker : i \in scan[w].of => Pending(i)
    BY <2>1 DEF Known, ScansOrdered
  <2>3. /\ Moved(i, jobs')
        /\ \A m \in JobId \ {i} : jobs'[m] = jobs[m]
        /\ scan' = scan /\ claim' = claim
    BY <1>1, <1>3 DEF InsertCommit
  <2>4. jobs' \in [JobId -> Row]
    BY HandlerTyping DEF Known, Typing, TypeOK
  <2>. QED BY <2>1, <2>2, <2>3, <2>4, KeptMoved
<1>4. CASE InsertFails(h)
  <2>1. i \in JobId /\ jobs[i].status = "none"
    BY <1>1, <1>4 DEF InsertFails, Known, IdsReserved, Inserting
  <2>2. /\ jobs' = [jobs EXCEPT ![i] = NoRow("deleted")]
        /\ scan' = scan /\ claim' = claim /\ promise' = promise
    BY <1>4 DEF InsertFails
  <2>3. \A k \in JobId : jobs'[k].status = "pending" => jobs'[k] = jobs[k]
    BY <1>1, <2>1, <2>2 DEF NoRow
  <2>4. promise # NoPromise =>
            jobs'[promise.job] = jobs[promise.job] /\ ~Locked(promise.job)'
    BY <1>1, <2>1, <2>2 DEF Kept, Pending, Locked
  <2>. QED BY <2>2, <2>3, <2>4, KeptQuietly
<1>5. CASE CountAhead(h)
  BY <1>1, <1>5, KeptTold DEF CountAhead
<1>6. CASE AskPosition(h)
  <2>1. PICK k \in view[h].todo : Tell(k, Cardinality(Ahead(k)) + 1)
    BY <1>6 DEF AskPosition
  <2>2. k \in JobId
    BY <1>1 DEF View
  <2>. QED BY <1>6, <2>1, <2>2, KeptTold DEF AskPosition
<1>7. \/ UNCHANGED <<jobs, scan, claim, promise>>
      \/ InsertCommit(h) \/ InsertFails(h) \/ CountAhead(h) \/ AskPosition(h)
  BY DEF HandlerStep, InsertBegin, GetQueueStats, CountActive, CountMine, CountFails,
         QueueCommand, ListRows, ListFails, QueueShown
<1>. QED BY <1>2, <1>3, <1>4, <1>5, <1>6, <1>7

LEMMA KeptWorker ==
    ASSUME Known, Kept, NEW w \in Worker, WorkerStep(w)
    PROVE  Kept'
<1>1. /\ jobs \in [JobId -> Row] /\ scan \in [Worker -> Scan]
      /\ claim \in [Worker -> JobId \cup {NoJob}]
      /\ promise # NoPromise => promise.job \in JobId
  BY DEF Known, Typing, TypeOK, Promise
<1>2. CASE ClaimNothing(w)
  <2>1. \A v \in Worker : scan'[v] = scan[v] \/ scan'[v] = NoScan
    BY <1>1, <1>2 DEF ClaimNothing
  <2>2. promise # NoPromise =>
            jobs'[promise.job] = jobs[promise.job] /\ ~Locked(promise.job)'
    BY <1>2 DEF ClaimNothing, Kept, Locked
  <2>. QED BY <1>2, <2>1, <2>2, KeptQuietly DEF ClaimNothing
<1>3. CASE ClaimCommit(w)
  <2>1. /\ jobs' = [jobs EXCEPT ![claim[w]] = ClaimedRow(jobs[claim[w]])]
        /\ claim[w] \in JobId
        /\ scan' = scan /\ claim' = claim /\ promise' = promise
    BY <1>1, <1>3 DEF ClaimCommit, CanCommit, Claiming
  <2>2. jobs'[claim[w]].status = "processing"
    BY <1>1, <2>1 DEF ClaimedRow, Row
  <2>3. \A k \in JobId : jobs'[k].status = "pending" => jobs'[k] = jobs[k]
    BY <1>1, <2>1, <2>2
  <2>4. promise # NoPromise =>
            jobs'[promise.job] = jobs[promise.job] /\ ~Locked(promise.job)'
    BY <1>1, <2>1 DEF Kept, Locked
  <2>. QED BY <2>1, <2>3, <2>4, KeptQuietly
<1>4. CASE ClaimAbort(w)
  <2>1. promise # NoPromise =>
            jobs'[promise.job] = jobs[promise.job] /\ ~Locked(promise.job)'
    BY <1>1, <1>4, NoJobAssumption DEF ClaimAbort, Kept, Locked
  <2>. QED BY <1>4, <2>1, KeptQuietly DEF ClaimAbort
<1>5. CASE Finish(w)
  <2>1. /\ jobs' = [jobs EXCEPT ![claim[w]] = DoneRow(jobs[claim[w]])]
        /\ claim[w] \in JobId /\ jobs[claim[w]].status = "processing"
        /\ claim' = [claim EXCEPT ![w] = NoJob]
        /\ scan' = scan /\ promise' = promise
    BY <1>1, <1>5 DEF Finish
  <2>2. jobs'[claim[w]].status = "done"
    BY <1>1, <2>1 DEF DoneRow, Row
  <2>3. \A k \in JobId : jobs'[k].status = "pending" => jobs'[k] = jobs[k]
    BY <1>1, <2>1, <2>2
  <2>4. promise # NoPromise =>
            jobs'[promise.job] = jobs[promise.job] /\ ~Locked(promise.job)'
    BY <1>1, <2>1, NoJobAssumption DEF Kept, Pending, Locked
  <2>. QED BY <2>1, <2>3, <2>4, KeptQuietly
<1>. QED
  BY <1>2, <1>3, <1>4, <1>5, KeptScan, KeptSelect DEF WorkerStep

LEMMA KeptCommand ==
    ASSUME Known, Kept, NEW j \in JobId, CancelPending(j) \/ SetPriority(j)
    PROVE  Kept'
<1>1. /\ jobs \in [JobId -> Row]
      /\ promise # NoPromise => promise.job \in JobId
  BY DEF Known, Typing, TypeOK, Promise
<1>2. CASE CancelPending(j) /\ promise.job = j
  BY <1>2 DEF CancelPending, Kept
<1>3. CASE CancelPending(j) /\ promise.job # j
  <2>1. /\ jobs' = [jobs EXCEPT ![j] = CanceledRow(jobs[j])]
        /\ scan' = scan /\ claim' = claim /\ promise' = promise
    BY <1>1, <1>3 DEF CancelPending
  <2>2. jobs'[j].status = "canceled"
    BY <1>1, <2>1 DEF CanceledRow, Row
  <2>3. \A k \in JobId : jobs'[k].status = "pending" => jobs'[k] = jobs[k]
    BY <1>1, <2>1, <2>2
  <2>4. promise # NoPromise =>
            jobs'[promise.job] = jobs[promise.job] /\ ~Locked(promise.job)'
    BY <1>1, <1>3, <2>1 DEF Kept, Locked
  <2>. QED BY <2>1, <2>3, <2>4, KeptQuietly
<1>4. CASE SetPriority(j)
  <2>1. /\ \A m \in JobId \ {j} : jobs'[m] = jobs[m]
        /\ Moved(j, jobs') /\ Pending(j) /\ scan' = scan /\ claim' = claim
    BY <1>1, <1>4 DEF SetPriority
  <2>2. jobs' \in [JobId -> Row]
    BY CommandTyping DEF Known, Typing, TypeOK
  <2>. QED BY <2>1, <2>2, KeptMoved
<1>. QED BY <1>2, <1>3, <1>4

\* A position that was told is kept, however many claims, aborted claims,
\* submissions, commands and other questions lie in between: fewer jobs are taken
\* before the job than its position said, not counting those that got in front
\* later or that a select already running saw in front.  pendingPosition and
\* GetQueueStats against ClaimJob.
THEOREM PositionsAreHonoured == Spec => []PositionHonoured
<1>1. Init => Kept
  BY DEF Init, Kept
<1>2. Known /\ Kept /\ [Next]_vars => Kept'
  <2>. SUFFICES ASSUME Known, Kept, [Next]_vars PROVE Kept'
    OBVIOUS
  <2>1. CASE UNCHANGED vars
    <3>1. promise # NoPromise =>
              jobs'[promise.job] = jobs[promise.job] /\ ~Locked(promise.job)'
      BY <2>1 DEF vars, Kept, Locked
    <3>. QED BY <2>1, <3>1, KeptQuietly DEF vars
  <2>. QED BY <2>1, KeptHandler, KeptWorker, KeptCommand DEF Next
<1>3. Known /\ Kept => PositionHonoured
  <2>. SUFFICES ASSUME Known, Kept, promise # NoPromise
               PROVE  Cardinality(promise.passed) < promise.pos
    BY DEF PositionHonoured
  <2>1. Front \in SUBSET JobId /\ promise.passed \subseteq Front
    BY FrontTyped DEF Known, Typing, Front
  <2>2. /\ Cardinality(promise.passed) <= Cardinality(Front)
        /\ Cardinality(Front) \in Nat
    BY <2>1, Counted
  <2>3. Cardinality(promise.passed) \in Nat
    BY <2>1, Counted
  <2>4. promise.pos \in Nat /\ Cardinality(Front) < promise.pos
    BY FrontTyped DEF Known, Typing, Promise, Kept
  <2>. QED BY <2>2, <2>3, <2>4
<1>. QED BY <1>1, <1>2, <1>3, KnownAlways, PTL DEF Spec

-----------------------------------------------------------------------------
(* Acknowledgements. *)

\* What the first count saw are rows, and those that have not moved on since are
\* in the number it gave; after the second, in one of the two.
Counting ==
    \A h \in Handler :
        /\ view[h].step \in {"active", "mine"} =>
              \A k \in view[h].first : jobs[k].status # "none"
        /\ view[h].step = "active" =>
              Cardinality({k \in view[h].first : Pending(k)}) <= view[h].ahead
        /\ view[h].step = "mine" =>
              Cardinality({k \in view[h].first : Unfinished(k)})
                  <= view[h].ahead + view[h].active

\* A handler whose view stays as it is counts no more than it did.
LEMMA CountsStand ==
    ASSUME Known, Counting, [Next]_vars, NEW h \in Handler, view'[h] = view[h]
    PROVE  /\ view'[h].step \in {"active", "mine"} =>
                 \A k \in view'[h].first : jobs'[k].status # "none"
           /\ view'[h].step = "active" =>
                 Cardinality({k \in view'[h].first : jobs'[k].status = "pending"})
                     <= view'[h].ahead
           /\ view'[h].step = "mine" =>
                 Cardinality({k \in view'[h].first :
                                 jobs'[k].status \in {"pending", "processing"}})
                     <= view'[h].ahead + view'[h].active
<1>1. /\ view[h].first \subseteq JobId
      /\ view[h].ahead \in Nat /\ view[h].active \in Nat
  BY DEF Known, Typing, TypeOK, View
<1>. DEFINE wait    == {k \in view[h].first : Pending(k)}
            waitP   == {k \in view[h].first : jobs'[k].status = "pending"}
            open    == {k \in view[h].first : Unfinished(k)}
            openP   == {k \in view[h].first :
                           jobs'[k].status \in {"pending", "processing"}}
<1>2. CASE view[h].step \in {"active", "mine"}
  <2>1. \A k \in view[h].first : k \in JobId /\ jobs[k].status # "none"
    BY <1>1, <1>2 DEF Counting
  <2>2. \A k \in view[h].first : jobs'[k].status # "none"
    BY <2>1, RowsMoveOn
  <2>3. waitP \subseteq wait
    BY <2>1, RowsMoveOn DEF Pending
  <2>4. openP \subseteq open
    BY <2>1, RowsMoveOn DEF Unfinished
  <2>5. wait \in SUBSET JobId /\ open \in SUBSET JobId
    BY <1>1
  <2>6. /\ Cardinality(wait) \in Nat /\ Cardinality(waitP) \in Nat
        /\ Cardinality(waitP) <= Cardinality(wait)
    BY <2>3, <2>5, Counted
  <2>7. /\ Cardinality(open) \in Nat /\ Cardinality(openP) \in Nat
        /\ Cardinality(openP) <= Cardinality(open)
    BY <2>4, <2>5, Counted
  <2>8. view[h].step = "active" => Cardinality(wait) <= view[h].ahead
    BY DEF Counting
  <2>9. view[h].step = "mine" => Cardinality(open) <= view[h].ahead + view[h].active
    BY DEF Counting
  <2>. HIDE DEF wait, waitP, open, openP
  <2>10. view[h].step = "active" => Cardinality(waitP) <= view[h].ahead
    BY <1>1, <2>6, <2>8
  <2>11. view[h].step = "mine" => Cardinality(openP) <= view[h].ahead + view[h].active
    BY <1>1, <2>7, <2>9
  <2>. QED BY <2>2, <2>10, <2>11 DEF waitP, openP
<1>. QED BY <1>2

LEMMA CountingHandler ==
    ASSUME Known, Counting, NEW h \in Handler, HandlerStep(h), [Next]_vars
    PROVE  Counting'
<1>1. /\ view \in [Handler -> View] /\ view[h] \in View /\ jobs \in [JobId -> Row]
      /\ view[h].step \in {"ahead", "active"} => view[h].job \in JobId
  BY DEF Known, Typing, TypeOK, ViewNamed
<1>2. \A g \in Handler \ {h} : view'[g] = view[g]
  BY <1>1 DEF HandlerStep, InsertBegin, InsertCommit, InsertFails, Leave,
              GetQueueStats, CountAhead, CountActive, CountMine, CountFails,
              QueueCommand, ListRows, ListFails, AskPosition, QueueShown
<1>. SUFFICES ASSUME view'[h].step \in {"active", "mine"}
              PROVE  /\ \A k \in view'[h].first : jobs'[k].status # "none"
                     /\ view'[h].step = "active" =>
                           Cardinality({k \in view'[h].first : Pending(k)'})
                               <= view'[h].ahead
                     /\ view'[h].step = "mine" =>
                           Cardinality({k \in view'[h].first : Unfinished(k)'})
                               <= view'[h].ahead + view'[h].active
  BY <1>2, CountsStand DEF Counting, Pending, Unfinished
<1>. DEFINE j == view[h].job
<1>3. CASE CountAhead(h)
  <2>1. /\ view'[h] = [view[h] EXCEPT !.step = "active",
                                      !.first = Ahead(j) \cup Processing,
                                      !.ahead = Cardinality(Ahead(j))]
        /\ jobs' = jobs
    BY <1>1, <1>3 DEF CountAhead
  <2>2. /\ view'[h].step = "active"
        /\ view'[h].first = Ahead(j) \cup Processing
        /\ view'[h].ahead = Cardinality(Ahead(j))
    BY <1>1, <2>1 DEF View
  <2>3. j \in JobId
    BY <1>1, <1>3 DEF CountAhead
  <2>4. {k \in view'[h].first : Pending(k)'} \in SUBSET Ahead(j)
    BY <2>1, <2>2 DEF Processing, Pending
  <2>5. Cardinality({k \in view'[h].first : Pending(k)'}) <= Cardinality(Ahead(j))
    BY <2>3, <2>4, AheadCounted, Counted
  <2>6. \A k \in view'[h].first : jobs'[k].status # "none"
    BY <2>1, <2>2 DEF Ahead, Processing, Pending
  <2>. QED BY <2>2, <2>5, <2>6
<1>4. CASE CountActive(h)
  <2>1. /\ view'[h] = [view[h] EXCEPT !.step = "mine",
                                      !.active = Cardinality(Processing)]
        /\ jobs' = jobs
    BY <1>1, <1>4 DEF CountActive
  <2>2. /\ view'[h].step = "mine"
        /\ view'[h].first = view[h].first
        /\ view'[h].ahead = view[h].ahead
        /\ view'[h].active = Cardinality(Processing)
        /\ view[h].ahead \in Nat /\ view[h].first \subseteq JobId
    BY <1>1, <2>1 DEF View
  <2>. DEFINE wait == {k \in view[h].first : Pending(k)}
              open == {k \in view'[h].first : Unfinished(k)'}
  <2>3. wait \in SUBSET JobId /\ Processing \in SUBSET JobId
    BY <2>2 DEF Processing
  <2>4. open \in SUBSET (wait \cup Processing)
    BY <2>1, <2>2 DEF Unfinished, Pending, Processing
  <2>5. Cardinality(open) <= Cardinality(wait) + Cardinality(Processing)
    BY <2>3, <2>4, CoveredBy
  <2>6. /\ Cardinality(wait) \in Nat /\ Cardinality(Processing) \in Nat
        /\ Cardinality(open) \in Nat
    <3>1. open \in SUBSET JobId
      BY <2>3, <2>4
    <3>. QED BY <2>3, <3>1, Counted
  <2>7. Cardinality(wait) <= view[h].ahead
    BY <1>4 DEF Counting, CountActive
  <2>8. \A k \in view'[h].first : jobs'[k].status # "none"
    BY <1>4, <2>1, <2>2 DEF Counting, CountActive
  <2>. HIDE DEF wait, open
  <2>9. Cardinality(open) <= view'[h].ahead + view'[h].active
    BY <2>2, <2>5, <2>6, <2>7
  <2>. QED BY <2>2, <2>8, <2>9 DEF open
<1>5. view'[h] = view[h] \/ CountAhead(h) \/ CountActive(h)
  <2>1. CASE InsertBegin(h) \/ QueueCommand(h)
    BY <1>1, <2>1 DEF InsertBegin, QueueCommand, Idle
  <2>2. CASE InsertCommit(h) \/ ListRows(h) \/ AskPosition(h)
    BY <1>1, <2>2 DEF InsertCommit, ListRows, AskPosition, View
  <2>3. CASE \/ InsertFails(h) \/ CountMine(h) \/ CountFails(h)
             \/ ListFails(h) \/ QueueShown(h)
    BY <1>1, <2>3
       DEF InsertFails, CountMine, CountFails, ListFails, QueueShown, Leave, Idle
  <2>. QED BY <2>1, <2>2, <2>3 DEF HandlerStep, GetQueueStats
<1>. QED BY <1>3, <1>4, <1>5, CountsStand DEF Pending, Unfinished

\* The two numbers of an acknowledgement miss nobody who was in front or running
\* at the first count and is not finished at the second, whatever happens to the
\* table in between.  GetQueueStats.
THEOREM AcknowledgementsMissNobody == Spec => []AckMissesNobody
<1>1. Init => Counting
  BY DEF Init, Counting, Idle
<1>2. Known /\ Counting /\ [Next]_vars => Counting'
  <2>. SUFFICES ASSUME Known, Counting, [Next]_vars PROVE Counting'
    OBVIOUS
  <2>1. CASE view' = view
    BY <2>1, CountsStand DEF Counting, Pending, Unfinished
  <2>2. view' = view \/ \E h \in Handler : HandlerStep(h)
    BY DEF Next, vars, WorkerStep, ClaimScan, ClaimSelect, ClaimNothing, ClaimCommit,
           ClaimAbort, Finish, CancelPending, SetPriority
  <2>. QED BY <2>1, <2>2, CountingHandler
<1>3. Counting => AckMissesNobody
  BY DEF Counting, AckMissesNobody
<1>. QED BY <1>1, <1>2, <1>3, KnownAlways, PTL DEF Spec

-----------------------------------------------------------------------------
(* The pool of connections. *)

\* A job is claimed when it has a row.
ClaimsExist ==
    \A w \in Worker : claim[w] # NoJob => jobs[claim[w]].status # "none"

\* No more connections are taken than the pool has.
PoolBounded == ClaimsExist /\ Cardinality(Taken) <= PoolSize

LEMMA ClaimsNext == Known /\ ClaimsExist /\ [Next]_vars => ClaimsExist'
<1>. SUFFICES ASSUME Known, ClaimsExist, [Next]_vars, NEW w \in Worker,
                     claim'[w] # NoJob
              PROVE  jobs'[claim'[w]].status # "none"
  BY DEF ClaimsExist
<1>1. /\ claim \in [Worker -> JobId \cup {NoJob}]
      /\ scan \in [Worker -> Scan]
  BY DEF Known, Typing, TypeOK
<1>2. claim'[w] \in JobId /\ jobs[claim'[w]].status # "none"
  <2>1. CASE claim'[w] = claim[w]
    BY <1>1, <2>1 DEF ClaimsExist
  <2>2. CASE ClaimSelect(w)
    <3>1. claim'[w] \in scan[w].of
      BY <1>1, <2>2 DEF ClaimSelect
    <3>. QED BY <1>1, <3>1 DEF Scan, Known, ScansOrdered
  <2>3. claim'[w] = claim[w] \/ ClaimSelect(w)
    <3>1. ASSUME NEW h \in Handler, HandlerStep(h) PROVE claim' = claim
      BY <3>1 DEF HandlerStep, InsertBegin, InsertCommit, InsertFails, GetQueueStats,
                  CountAhead, CountActive, CountMine, CountFails, QueueCommand,
                  ListRows, ListFails, AskPosition, QueueShown
    <3>2. ASSUME NEW j \in JobId, CancelPending(j) \/ SetPriority(j)
          PROVE  claim' = claim
      BY <3>2 DEF CancelPending, SetPriority
    <3>3. ASSUME NEW v \in Worker, WorkerStep(v)
          PROVE  claim'[w] = claim[w] \/ ClaimSelect(w)
      BY <1>1, <3>3 DEF WorkerStep, ClaimScan, ClaimSelect, ClaimNothing,
                        ClaimCommit, ClaimAbort, Finish
    <3>. QED BY <3>1, <3>2, <3>3 DEF Next, vars
  <2>. QED BY <2>1, <2>2, <2>3
<1>. QED BY <1>2, RowsMoveOn

\* Workers that hold the transaction of a claim held a connection before, unless
\* they begin one: a row that was taken is not pending again.
LEMMA ClaimingStays ==
    ASSUME Known, ClaimsExist, [Next]_vars, NEW w \in Worker, w \in Claiming',
           claim'[w] = claim[w]
    PROVE  w \in Claiming
<1>1. /\ claim[w] \in JobId /\ jobs[claim[w]].status # "none"
      /\ jobs'[claim[w]].status = "pending"
  BY DEF Known, Typing, TypeOK, ClaimsExist, Claiming
<1>2. jobs[claim[w]].status = "pending"
  BY <1>1, RowsMoveOn
<1>. QED BY <1>2 DEF Claiming

\* Whoever takes a connection finds a free one.
TakesOne == FreeConnection /\ \E p \in Worker \cup Handler : Taken' \subseteq Taken \cup {p}

LEMMA HandlerTakes ==
    ASSUME Known, ClaimsExist, [Next]_vars, NEW h \in Handler, HandlerStep(h)
    PROVE  Taken' \subseteq Taken \/ TakesOne
<1>1. view \in [Handler -> View] /\ view[h] \in View
  BY DEF Known, Typing, TypeOK
<1>2. scan' = scan /\ claim' = claim
  BY DEF HandlerStep, InsertBegin, InsertCommit, InsertFails, GetQueueStats,
         CountAhead, CountActive, CountMine, CountFails, QueueCommand,
         ListRows, ListFails, AskPosition, QueueShown
<1>3. Scanning' \subseteq Scanning /\ Claiming' \subseteq Claiming
  BY <1>2, ClaimingStays DEF Scanning, Claiming
<1>4. \A g \in Handler \ {h} : view'[g] = view[g]
  BY <1>1 DEF HandlerStep, InsertBegin, InsertCommit, InsertFails, Leave,
              GetQueueStats, CountAhead, CountActive, CountMine, CountFails,
              QueueCommand, ListRows, ListFails, AskPosition, QueueShown
<1>5. Inserting' \subseteq Inserting \cup {h} /\ Listing' \subseteq Listing \cup {h}
  BY <1>4 DEF Inserting, Listing
<1>6. CASE InsertBegin(h) \/ ListRows(h)
  <2>1. FreeConnection
    BY <1>6 DEF InsertBegin, ListRows
  <2>2. Taken' \subseteq Taken \cup {h}
    BY <1>3, <1>5 DEF Taken
  <2>. QED BY <2>1, <2>2 DEF TakesOne
<1>7. CASE AskPosition(h)
  <2>1. h \in Listing /\ view'[h].step = view[h].step
    BY <1>1, <1>7 DEF AskPosition, Listing
  <2>. QED BY <1>3, <1>5, <2>1 DEF Taken, Inserting
<1>8. CASE view'[h].step \notin {"inserting", "positions"}
  <2>1. Inserting' \subseteq Inserting /\ Listing' \subseteq Listing
    BY <1>5, <1>8 DEF Inserting, Listing
  <2>. QED BY <1>3, <2>1 DEF Taken
<1>9. \/ InsertBegin(h) \/ ListRows(h) \/ AskPosition(h)
      \/ view'[h].step \notin {"inserting", "positions"}
  <2>1. CASE InsertCommit(h)
    BY <1>1, <2>1 DEF InsertCommit, View
  <2>2. CASE CountAhead(h)
    <3>. DEFINE v == [view[h] EXCEPT !.step = "active",
                                     !.first = Ahead(view[h].job) \cup Processing,
                                     !.ahead = Cardinality(Ahead(view[h].job))]
    <3>1. view'[h] = v
      BY <1>1, <2>2 DEF CountAhead
    <3>. QED BY <1>1, <3>1 DEF View
  <2>3. CASE CountActive(h)
    BY <1>1, <2>3 DEF CountActive, View
  <2>4. CASE QueueCommand(h)
    BY <1>1, <2>4 DEF QueueCommand, Idle
  <2>5. CASE \/ InsertFails(h) \/ CountMine(h) \/ CountFails(h)
             \/ ListFails(h) \/ QueueShown(h)
    BY <1>1, <2>5
       DEF InsertFails, CountMine, CountFails, ListFails, QueueShown, Leave, Idle
  <2>. QED BY <2>1, <2>2, <2>3, <2>4, <2>5 DEF HandlerStep, GetQueueStats
<1>. QED BY <1>6, <1>7, <1>8, <1>9

LEMMA WorkerTakes ==
    ASSUME Known, ClaimsExist, [Next]_vars, NEW w \in Worker, WorkerStep(w)
    PROVE  Taken' \subseteq Taken \/ TakesOne
<1>1. /\ scan \in [Worker -> Scan] /\ claim \in [Worker -> JobId \cup {NoJob}]
  BY DEF Known, Typing, TypeOK
<1>2. Inserting' = Inserting /\ Listing' = Listing
  BY DEF WorkerStep, ClaimScan, ClaimSelect, ClaimNothing, ClaimCommit, ClaimAbort,
         Finish, Inserting, Listing
<1>3. \A v \in Worker \ {w} : scan'[v] = scan[v] /\ claim'[v] = claim[v]
  BY <1>1 DEF WorkerStep, ClaimScan, ClaimSelect, ClaimNothing, ClaimCommit,
              ClaimAbort, Finish
<1>4. Scanning' \subseteq Scanning \cup {w}
  BY <1>3 DEF Scanning
<1>5. Claiming' \subseteq Claiming \cup {w}
  BY <1>3, ClaimingStays DEF Claiming
<1>6. Taken' \subseteq Taken \cup {w}
  BY <1>2, <1>4, <1>5 DEF Taken
<1>7. CASE ClaimScan(w)
  BY <1>6, <1>7 DEF ClaimScan, TakesOne
<1>8. CASE ClaimSelect(w) \/ ClaimNothing(w)
  <2>1. w \in Scanning
    BY <1>8 DEF ClaimSelect, ClaimNothing, CanGiveUp, Scanning
  <2>. QED BY <1>6, <2>1 DEF Taken
<1>9. CASE ClaimCommit(w) \/ ClaimAbort(w)
  <2>1. w \in Claiming
    BY <1>9 DEF ClaimCommit, CanCommit, ClaimAbort
  <2>. QED BY <1>6, <2>1 DEF Taken
<1>10. CASE Finish(w)
  <2>1. scan' = scan /\ claim'[w] = NoJob
    BY <1>1, <1>10 DEF Finish
  <2>2. w \notin Claiming'
    BY <2>1 DEF Claiming
  <2>3. Scanning' = Scanning /\ Claiming' \subseteq Claiming
    BY <1>5, <2>1, <2>2 DEF Scanning
  <2>. QED BY <1>2, <2>3 DEF Taken
<1>. QED BY <1>7, <1>8, <1>9, <1>10 DEF WorkerStep

LEMMA CommandTakes ==
    ASSUME Known, ClaimsExist, [Next]_vars, NEW j \in JobId,
           CancelPending(j) \/ SetPriority(j)
    PROVE  Taken' \subseteq Taken
<1>1. UNCHANGED <<view, scan, claim>>
  BY DEF CancelPending, SetPriority
<1>2. Claiming' \subseteq Claiming
  BY <1>1, ClaimingStays DEF Claiming
<1>. QED BY <1>1, <1>2 DEF Taken, Scanning, Inserting, Listing

\* Who holds a connection is one of the workers and handlers, so it can be counted
\* how many are taken.
LEMMA HoldersCounted ==
    /\ Taken \subseteq Worker \cup Handler
    /\ IsFiniteSet(Worker \cup Handler)
    /\ IsFiniteSet(Taken) /\ Cardinality(Taken) \in Nat
<1>1. Taken \subseteq Worker \cup Handler
  BY DEF Taken, Scanning, Claiming, Inserting, Listing
<1>2. IsFiniteSet(Worker \cup Handler)
  BY HandlerAssumption, FS_Union
<1>3. IsFiniteSet(Taken)
  BY <1>1, <1>2, FS_Subset
<1>. QED BY <1>1, <1>2, <1>3, FS_CardinalityType

LEMMA PoolInit == Init => PoolBounded
<1>. SUFFICES ASSUME Init PROVE PoolBounded
  OBVIOUS
<1>1. ClaimsExist
  BY DEF Init, ClaimsExist
<1>2. Taken = {}
  BY DEF Init, Taken, Scanning, Claiming, Inserting, Listing, NoScan, Idle
<1>3. Cardinality(Taken) = 0
  BY <1>2, FS_EmptySet
<1>. QED BY <1>1, <1>3, PoolSizeAssumption DEF PoolBounded

LEMMA PoolNext == Known /\ PoolBounded /\ [Next]_vars => PoolBounded'
<1>. SUFFICES ASSUME Known, PoolBounded, [Next]_vars PROVE PoolBounded'
  OBVIOUS
<1>1. ClaimsExist'
  BY ClaimsNext DEF PoolBounded
<1>2. Taken' \subseteq Taken \/ TakesOne
  <2>1. CASE UNCHANGED vars
    BY <2>1 DEF vars, Taken, Scanning, Claiming, Inserting, Listing
  <2>. QED BY <2>1, HandlerTakes, WorkerTakes, CommandTakes DEF PoolBounded, Next
<1>3. /\ Cardinality(Taken) \in Nat /\ PoolSize \in Nat
      /\ Cardinality(Taken) <= PoolSize
  BY HoldersCounted, PoolSizeAssumption DEF PoolBounded
<1>4. CASE Taken' \subseteq Taken
  <2>1. Cardinality(Taken') <= Cardinality(Taken) /\ IsFiniteSet(Taken')
    BY <1>4, HoldersCounted, FS_Subset
  <2>2. Cardinality(Taken') \in Nat
    BY <2>1, FS_CardinalityType
  <2>. QED BY <1>1, <1>3, <2>1, <2>2 DEF PoolBounded
<1>5. CASE TakesOne
  <2>1. PICK p \in Worker \cup Handler : Taken' \subseteq Taken \cup {p}
    BY <1>5 DEF TakesOne
  <2>2. /\ IsFiniteSet(Taken \cup {p})
        /\ Cardinality(Taken \cup {p}) <= Cardinality(Taken) + 1
    BY <1>3, HoldersCounted, FS_AddElement
  <2>3. /\ IsFiniteSet(Taken')
        /\ Cardinality(Taken') <= Cardinality(Taken \cup {p})
    BY <2>1, <2>2, FS_Subset
  <2>4. Cardinality(Taken') \in Nat /\ Cardinality(Taken \cup {p}) \in Nat
    BY <2>2, <2>3, FS_CardinalityType
  <2>5. Cardinality(Taken) < PoolSize
    BY <1>5 DEF TakesOne, FreeConnection
  <2>6. Cardinality(Taken') <= PoolSize
    BY <1>3, <2>2, <2>3, <2>4, <2>5
  <2>. QED BY <1>1, <2>6 DEF PoolBounded
<1>. QED BY <1>2, <1>4, <1>5

\* The pool starves only when each of its connections is the open list of a /queue,
\* for every size of the pool and any number of workers and handlers: no worker, no
\* insert and no count has a part in it.
THEOREM OnlyOpenListsStarveThePool == Spec => []OnlyListingsStarve
<1>1. PoolBounded => OnlyListingsStarve
  <2>. SUFFICES ASSUME PoolBounded, Starved
               PROVE  Taken = Listing /\ Cardinality(Listing) = PoolSize
    BY DEF OnlyListingsStarve
  <2>1. Taken = Listing
    BY DEF Starved, Taken, CanFinish, CanGiveUp, CanCommit, CanInsert
  <2>2. /\ ~(Cardinality(Taken) < PoolSize) /\ Cardinality(Taken) <= PoolSize
        /\ Cardinality(Taken) \in Nat /\ PoolSize \in Nat
    BY HoldersCounted, PoolSizeAssumption DEF PoolBounded, Starved, FreeConnection
  <2>3. Cardinality(Taken) = PoolSize
    BY <2>2
  <2>. QED BY <2>1, <2>3
<1>. QED BY <1>1, PoolInit, PoolNext, KnownAlways, PTL DEF Spec

\* A pool that starves does so for good.  No step of the program gives a connection
\* back any more, only further commands come and wait: the bot answers nobody and no
\* worker claims until the process is restarted.
THEOREM StarvedForGood == Spec => [][Starved => Starved']_vars
<1>1. Known /\ [Next]_vars => (Starved => Starved')
  <2>. SUFFICES ASSUME Known, [Next]_vars, Starved PROVE Starved'
    OBVIOUS
  <2>1. /\ ~FreeConnection
        /\ Scanning = {} /\ Claiming = {} /\ Inserting = {}
        /\ \A h \in Handler : ~CanClose(h)
    BY DEF Starved, Taken, CanFinish, CanGiveUp, CanCommit, CanInsert, CanClose
  <2>2. view \in [Handler -> View]
    BY DEF Known, Typing, TypeOK
  <2>3. ASSUME NEW h \in Handler, HandlerStep(h) PROVE QueueCommand(h)
    BY <2>1, <2>3
       DEF HandlerStep, InsertBegin, InsertCommit, InsertFails, CanInsert, Inserting,
           GetQueueStats, CountAhead, CountActive, CountMine, CountFails,
           ListRows, ListFails, AskPosition, QueueShown
  <2>4. ASSUME NEW w \in Worker PROVE ~WorkerStep(w)
    BY <2>1 DEF WorkerStep, ClaimScan, ClaimSelect, ClaimNothing, CanGiveUp,
                ClaimCommit, CanCommit, ClaimAbort, Finish, Scanning
  <2>5. ASSUME NEW j \in JobId PROVE ~(CancelPending(j) \/ SetPriority(j))
    BY <2>1 DEF CancelPending, SetPriority
  <2>6. CASE UNCHANGED vars
    BY <2>6 DEF vars, Starved, FreeConnection, Taken, CanFinish, CanGiveUp, CanCommit,
                CanInsert, CanClose, Scanning, Claiming, Inserting, Listing
  <2>7. ASSUME NEW h \in Handler, QueueCommand(h) PROVE Starved'
    <3>1. /\ view[h].step = "idle" /\ view'[h].step = "list"
          /\ \A g \in Handler \ {h} : view'[g] = view[g]
          /\ UNCHANGED <<jobs, scan, claim>>
      BY <2>2, <2>7 DEF QueueCommand, Idle
    <3>2. Inserting' = Inserting /\ Listing' = Listing
      BY <3>1 DEF Inserting, Listing
    <3>3. Scanning' = Scanning /\ Claiming' = Claiming
      BY <3>1 DEF Scanning, Claiming
    <3>4. Taken' = Taken /\ ~FreeConnection'
      BY <2>1, <3>2, <3>3 DEF Taken, FreeConnection
    <3>5. \A g \in Handler : ~CanClose(g)'
      BY <2>1, <3>1 DEF CanClose, Listing
    <3>6. \A p \in Taken' : ~CanFinish(p)'
      <4>1. ASSUME NEW p \in Taken' PROVE ~CanFinish(p)'
        <5>1. p \in Listing'
          BY <2>1, <3>2, <3>3 DEF Taken
        <5>2. ~CanClose(p)'
          BY <3>5, <5>1 DEF Listing
        <5>. QED
          BY <2>1, <3>2, <3>3, <5>2 DEF CanFinish, CanGiveUp, CanCommit, CanInsert
      <4>. QED BY <4>1
    <3>. QED BY <3>4, <3>6 DEF Starved
  <2>. QED BY <2>3, <2>4, <2>5, <2>6, <2>7 DEF Next
<1>. QED BY <1>1, KnownAlways, PTL DEF Spec

-----------------------------------------------------------------------------
(* The path of a row. *)

OnPath == QueuePath!Next \/ UNCHANGED [j \in JobId |-> Place(j)]

\* A statement that takes one row a move further.
LEMMA PathOne ==
    ASSUME NEW j \in JobId, NEW from, NEW to, <<from, to>> \in QueuePath!Moves,
           Place(j) = from, Place(j)' = to,
           \A k \in JobId : k # j => jobs'[k] = jobs[k]
    PROVE  OnPath
<1>. DEFINE m == <<from, to>>
<1>1. m[1] = from /\ m[2] = to
  OBVIOUS
<1>2. \A k \in JobId : Place(k)' = IF k \in {j} THEN to ELSE Place(k)
  BY DEF Place
<1>3. QueuePath!Statement({j}, m)
  BY <1>1, <1>2 DEF QueuePath!Statement
<1>. QED BY <1>3 DEF OnPath, QueuePath!Next

\* No status changes.
LEMMA PathStutters ==
    ASSUME \A k \in JobId : jobs'[k].status = jobs[k].status
    PROVE  OnPath
<1>1. \A k \in JobId : Place(k)' = Place(k)
  BY DEF Place
<1>. QED BY <1>1 DEF OnPath

LEMMA HandlerOnPath ==
    ASSUME Known, NEW h \in Handler, HandlerStep(h)
    PROVE  OnPath
<1>1. jobs \in [JobId -> Row]
  BY DEF Known, Typing, TypeOK
<1>2. CASE InsertCommit(h) \/ InsertFails(h)
  <2>1. h \in Inserting
    BY <1>2 DEF InsertCommit, InsertFails, CanInsert, Inserting
  <2>2. PICK j \in JobId : j = view[h].job
    BY <2>1 DEF Inserting, Known, Typing, ViewNamed
  <2>3. jobs[j].status = "none"
    BY <2>1, <2>2 DEF Known, IdsReserved
  <2>4. Place(j) = "none"
    BY <2>3 DEF Place, Terminal
  <2>5. CASE InsertCommit(h)
    <3>1. PICK p \in {0, 1} : jobs' = [jobs EXCEPT ![j] = InsertedRow(view[h].user, p)]
      BY <2>2, <2>5 DEF InsertCommit
    <3>2. jobs'[j].status = "pending" /\ \A k \in JobId : k # j => jobs'[k] = jobs[k]
      BY <1>1, <3>1 DEF InsertedRow, NoRow
    <3>3. Place(j)' = "pending"
      BY <3>2 DEF Place, Terminal
    <3>. QED BY <2>4, <3>2, <3>3, PathOne DEF QueuePath!Moves
  <2>6. CASE InsertFails(h)
    <3>1. jobs'[j].status = "deleted" /\ \A k \in JobId : k # j => jobs'[k] = jobs[k]
      BY <1>1, <2>2, <2>6 DEF InsertFails, NoRow
    <3>2. Place(j)' = "deleted"
      BY <3>1 DEF Place, Terminal
    <3>. QED BY <2>4, <3>1, <3>2, PathOne DEF QueuePath!Moves
  <2>. QED BY <1>2, <2>5, <2>6
<1>3. UNCHANGED jobs \/ InsertCommit(h) \/ InsertFails(h)
  BY DEF HandlerStep, InsertBegin, GetQueueStats, CountAhead, CountActive,
         CountMine, CountFails, QueueCommand, ListRows, ListFails,
         AskPosition, QueueShown
<1>. QED BY <1>2, <1>3, PathStutters

LEMMA WorkerOnPath ==
    ASSUME Known, NEW w \in Worker, WorkerStep(w)
    PROVE  OnPath
<1>1. jobs \in [JobId -> Row] /\ claim \in [Worker -> JobId \cup {NoJob}]
  BY DEF Known, Typing, TypeOK
<1>2. CASE ClaimCommit(w) \/ Finish(w)
  <2>1. claim[w] \in JobId
    BY <1>1, <1>2 DEF ClaimCommit, CanCommit, Claiming, Finish
  <2>2. PICK j \in JobId : j = claim[w]
    BY <2>1
  <2>3. CASE ClaimCommit(w)
    <3>1. jobs[j].status = "pending" /\ jobs' = [jobs EXCEPT ![j] = ClaimedRow(jobs[j])]
      BY <1>1, <2>2, <2>3 DEF ClaimCommit, CanCommit, Claiming
    <3>2. jobs'[j].status = "processing" /\ \A k \in JobId : k # j => jobs'[k] = jobs[k]
      BY <1>1, <3>1 DEF ClaimedRow, Row
    <3>3. Place(j) = "pending" /\ Place(j)' = "processing"
      BY <3>1, <3>2 DEF Place, Terminal
    <3>. QED BY <3>2, <3>3, PathOne DEF QueuePath!Moves
  <2>4. CASE Finish(w)
    <3>1. jobs[j].status = "processing" /\ jobs' = [jobs EXCEPT ![j] = DoneRow(jobs[j])]
      BY <1>1, <2>2, <2>4 DEF Finish
    <3>2. jobs'[j].status = "done" /\ \A k \in JobId : k # j => jobs'[k] = jobs[k]
      BY <1>1, <3>1 DEF DoneRow, Row
    <3>3. Place(j) = "processing" /\ Place(j)' = "ended"
      BY <3>1, <3>2 DEF Place, Terminal
    <3>. QED BY <3>2, <3>3, PathOne DEF QueuePath!Moves
  <2>. QED BY <1>2, <2>3, <2>4
<1>3. UNCHANGED jobs \/ ClaimCommit(w) \/ Finish(w)
  BY DEF WorkerStep, ClaimScan, ClaimSelect, ClaimNothing, ClaimAbort
<1>. QED BY <1>2, <1>3, PathStutters

LEMMA CommandOnPath ==
    ASSUME Known, NEW j \in JobId, CancelPending(j) \/ SetPriority(j)
    PROVE  OnPath
<1>1. jobs \in [JobId -> Row]
  BY DEF Known, Typing, TypeOK
<1>2. CASE CancelPending(j)
  <2>1. /\ jobs[j].status = "pending" /\ jobs'[j].status = "canceled"
        /\ \A k \in JobId : k # j => jobs'[k] = jobs[k]
    BY <1>1, <1>2 DEF CancelPending, Pending, CanceledRow, Row
  <2>2. Place(j) = "pending" /\ Place(j)' = "ended"
    BY <2>1 DEF Place, Terminal
  <2>. QED BY <2>1, <2>2, PathOne DEF QueuePath!Moves
<1>3. CASE SetPriority(j)
  <2>1. \A k \in JobId : jobs'[k].status = jobs[k].status
    BY <1>1, <1>3 DEF SetPriority, Row
  <2>. QED BY <2>1, PathStutters
<1>. QED BY <1>2, <1>3

\* What the queue's model leaves open (inserts that run at the same time and may
\* fail, verdicts of any kind) stays on the path that JobLifecycle's rows have:
\* an id belongs to one insert, and a row that was taken is not queued again.
THEOREM QueueRowsMoveOn == Spec => QueuedRowsMoveOn
<1>1. Init => QueuePath!Init
  BY DEF Init, QueuePath!Init, Place, NoRow, Terminal
<1>2. Known /\ [Next]_vars => [QueuePath!Next]_([j \in JobId |-> Place(j)])
  <2>1. UNCHANGED vars => OnPath
    BY PathStutters DEF vars
  <2>. QED BY <2>1, HandlerOnPath, WorkerOnPath, CommandOnPath DEF OnPath, Next
<1>. QED
  BY <1>1, <1>2, KnownAlways, PTL DEF Spec, QueuedRowsMoveOn, QueuePath!Spec
=============================================================================
