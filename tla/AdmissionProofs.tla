--------------------------- MODULE AdmissionProofs --------------------------
(***************************************************************************)
(* Theorems about Admission, for every set of users and handlers, every    *)
(* limit and every length of a message or playlist.                        *)
(***************************************************************************)
EXTENDS Admission, FiniteSetTheorems, TLAPS

-----------------------------------------------------------------------------
(* Handlers one by one. *)

HandlerState == [step : Steps, user : User \cup {NoUser}, kind : Kinds,
                 left : 0..MaxUrls, late : BOOLEAN, blind : BOOLEAN]

InLoop == {"day", "queued", "running", "ack", "insert"}

\* A busy handler has a user; inside queueURL it has a URL left.
Fine(v) ==
    /\ v \in HandlerState
    /\ v.step # "idle" => v.user \in User
    /\ v.step \in InLoop => v.left > 0

\* Only the ban check knows that its update came too late.
Caught == \A h \in Handler : hs[h].late => hs[h].step = "ban" /\ hs[h].user \in banned

\* Who has been let through is in the cooldown.
Cooling == \A u \in User : passed[u] <= 1 /\ (u \notin hot => passed[u] = 0)

Sane == TypeOK /\ (\A h \in Handler : Fine(hs[h])) /\ Caught /\ Cooling

LEMMA IdleFine == Fine(Idle) /\ Idle.late = FALSE /\ Idle.step = "idle"
<1>1. MaxUrls \in Nat
  BY LimitsAssumption
<1>. QED BY <1>1 DEF Idle, Fine, HandlerState, Steps, Kinds, InLoop

LEMMA ArriveTyped ==
    ASSUME NEW v \in HandlerState, NEW u \in User, NEW k \in Kinds,
           NEW n \in 0..MaxUrls, NEW b \in BOOLEAN
    PROVE  [v EXCEPT !.step = "ban", !.user = u, !.kind = k, !.left = n, !.late = b]
               \in HandlerState
<1>1. [v EXCEPT !.step = "ban", !.user = u, !.kind = k] \in HandlerState
  BY DEF HandlerState, Steps
<1>2. ASSUME NEW w \in HandlerState
      PROVE  [w EXCEPT !.left = n, !.late = b] \in HandlerState
  BY DEF HandlerState
<1>. QED BY <1>1, <1>2

\* A handler goes to another step, keeping everything else.
LEMMA StepFine ==
    ASSUME NEW v, Fine(v), v.step # "idle", NEW to \in Steps, NEW b \in BOOLEAN,
           to \in InLoop => v.left > 0
    PROVE  /\ Fine([v EXCEPT !.step = to])
           /\ Fine([v EXCEPT !.step = to, !.blind = TRUE, !.late = b])
BY DEF Fine, HandlerState, InLoop, Steps

LEMMA UrlOverFine ==
    ASSUME NEW v, Fine(v), v.step \in InLoop
    PROVE  Fine([v EXCEPT !.step = "next", !.left = @ - 1])
<1>1. v \in HandlerState /\ v.left > 0 /\ v.user \in User /\ MaxUrls \in Nat
  BY LimitsAssumption DEF Fine, InLoop
<1>2. v.left - 1 \in 0..MaxUrls
  BY <1>1 DEF HandlerState
<1>. QED BY <1>1, <1>2 DEF Fine, HandlerState, InLoop, Steps

LEMMA UrlOverSteps ==
    ASSUME Sane, NEW h \in Handler, hs[h].step \in InLoop, UrlOver(h)
    PROVE  /\ hs' = [hs EXCEPT ![h] = hs'[h]]
           /\ Fine(hs'[h]) /\ hs'[h].step = "next"
           /\ hs'[h].user = hs[h].user /\ hs'[h].late = hs[h].late
           /\ hs'[h].blind = hs[h].blind
<1>1. hs \in [Handler -> HandlerState] /\ Fine(hs[h])
  BY DEF Sane, TypeOK, HandlerState
<1>2. hs' = [hs EXCEPT ![h] = [hs[h] EXCEPT !.step = "next", !.left = @ - 1]]
  BY <1>1 DEF UrlOver, HandlerState
<1>3. Fine([hs[h] EXCEPT !.step = "next", !.left = @ - 1])
  BY <1>1, UrlOverFine
<1>. QED BY <1>1, <1>2, <1>3 DEF HandlerState

LEMMA StepSteps ==
    ASSUME Sane, NEW h \in Handler, NEW from \in Steps \ {"idle"}, NEW to \in Steps,
           to \in InLoop => hs[h].left > 0, Step(h, from, to)
    PROVE  /\ hs' = [hs EXCEPT ![h] = hs'[h]]
           /\ Fine(hs'[h]) /\ hs'[h].step = to
           /\ hs'[h].user = hs[h].user /\ hs'[h].late = hs[h].late
           /\ hs'[h].blind = hs[h].blind
<1>1. hs \in [Handler -> HandlerState] /\ Fine(hs[h]) /\ hs[h].step # "idle"
  BY DEF Sane, TypeOK, HandlerState, Step
<1>2. hs' = [hs EXCEPT ![h] = [hs[h] EXCEPT !.step = to]]
  BY <1>1 DEF Step
<1>3. Fine([hs[h] EXCEPT !.step = to])
  BY <1>1, StepFine
<1>. QED BY <1>1, <1>2, <1>3 DEF HandlerState

LEMMA StepBlindSteps ==
    ASSUME Sane, NEW h \in Handler, NEW from \in Steps \ {"idle"}, NEW to \in Steps,
           to \in InLoop => hs[h].left > 0, StepBlind(h, from, to)
    PROVE  /\ hs' = [hs EXCEPT ![h] = hs'[h]]
           /\ Fine(hs'[h]) /\ hs'[h].step = to
           /\ hs'[h].user = hs[h].user /\ hs'[h].late = FALSE
           /\ hs'[h].blind = TRUE
<1>1. hs \in [Handler -> HandlerState] /\ Fine(hs[h]) /\ hs[h].step # "idle"
  BY DEF Sane, TypeOK, HandlerState, StepBlind
<1>2. hs' = [hs EXCEPT ![h] = [hs[h] EXCEPT !.step = to, !.blind = TRUE, !.late = FALSE]]
  BY <1>1 DEF StepBlind
<1>3. Fine([hs[h] EXCEPT !.step = to, !.blind = TRUE, !.late = FALSE])
  BY <1>1, StepFine
<1>. QED BY <1>1, <1>2, <1>3 DEF HandlerState

LEMMA FinishSteps ==
    ASSUME Sane, NEW h \in Handler, Finish(h)
    PROVE  /\ hs' = [hs EXCEPT ![h] = hs'[h]]
           /\ Fine(hs'[h]) /\ hs'[h].step = "idle" /\ hs'[h].late = FALSE
BY IdleFine DEF Sane, TypeOK, Finish

\* Past the queue limit, and past the quota.
PastQueue == {"running", "ack", "insert"}

PastDay == {"queued", "running", "ack", "insert"}

\* What a step of a handler may make of it: it gets past a check only by the
\* count that the check asks for, or blind.
LEMMA HandlerMoves ==
    ASSUME Sane, NEW h \in Handler, HandlerStep(h)
    PROVE  /\ hs' = [hs EXCEPT ![h] = hs'[h]] /\ Fine(hs'[h])
           /\ hs'[h].late => hs'[h].step = "ban" /\ hs'[h].user \in banned
           /\ hs'[h].step \in PastQueue /\ ~hs'[h].blind =>
                 /\ hs'[h].user = hs[h].user /\ ~hs[h].blind
                 /\ \/ hs[h].step \in PastQueue
                    \/ /\ hs[h].step = "queued"
                       /\ Cardinality(Having(hs[h].user, "pending")) < MaxQueued
           /\ hs'[h].step \in PastDay /\ ~hs'[h].blind =>
                 /\ hs'[h].user = hs[h].user /\ ~hs[h].blind
                 /\ \/ hs[h].step \in PastDay
                    \/ /\ hs[h].step = "day"
                       /\ Metered(hs[h].user) =>
                             Cardinality(Today(hs[h].user)) < Quota
<1>. USE DEF PastQueue, PastDay
<1>1. /\ hs \in [Handler -> HandlerState] /\ Fine(hs[h])
      /\ hs[h].step \in InLoop => hs[h].left > 0
      /\ hs[h].late => hs[h].step = "ban" /\ hs[h].user \in banned
  BY DEF Sane, TypeOK, HandlerState, Fine, Caught
<1>2. /\ Steps = {"idle", "ban", "rate", "next"} \cup InLoop
      /\ InLoop = {"day", "queued", "running", "ack", "insert"}
  BY DEF Steps, InLoop
<1>3. CASE Finish(h)
  BY <1>3, FinishSteps
<1>4. ASSUME NEW u \in User, NEW k \in Kinds, NEW n \in 0..MaxUrls, Arrive(h, u, k, n)
      PROVE  /\ hs' = [hs EXCEPT ![h] = hs'[h]] /\ Fine(hs'[h])
             /\ hs'[h].step = "ban" /\ (hs'[h].late => hs'[h].user \in banned)
  <2>. DEFINE v(b) == [Idle EXCEPT !.step = "ban", !.user = u, !.kind = k,
                                   !.left = n, !.late = b]
  <2>1. hs' = [hs EXCEPT ![h] = v(u \in banned)]
    BY <1>4 DEF Arrive
  <2>2. ASSUME NEW b \in BOOLEAN
        PROVE  Fine(v(b)) /\ v(b).step = "ban" /\ v(b).user = u
    <3>1. v(b) \in HandlerState
      BY IdleFine, ArriveTyped DEF Fine
    <3>2. v(b).step = "ban" /\ v(b).user = u
      BY DEF Idle
    <3>. QED BY <3>1, <3>2, LimitsAssumption DEF Fine, InLoop
  <2>3. CASE u \in banned
    <3>1. v(u \in banned) = v(TRUE)
      BY <2>3
    <3>2. Fine(v(TRUE)) /\ v(TRUE).step = "ban" /\ v(TRUE).user = u
      BY <2>2
    <3>. HIDE DEF v
    <3>. QED BY <1>1, <2>1, <2>3, <3>1, <3>2
  <2>4. CASE u \notin banned
    <3>. HIDE DEF v
    <3>0. (u \in banned) = FALSE
      BY <2>4
    <3>1. v(u \in banned) = v(FALSE)
      BY <3>0
    <3>2. Fine(v(FALSE)) /\ v(FALSE).step = "ban" /\ ~v(FALSE).late
      <4>1. ~v(FALSE).late
        BY DEF v, Idle
      <4>. QED BY <2>2, <4>1
    <3>. QED BY <1>1, <2>1, <3>1, <3>2
  <2>. QED BY <2>3, <2>4
<1>5. CASE CheckBan(h)
  <2>2. CASE Step(h, "ban", "rate") /\ hs[h].user \notin banned
    BY <1>1, <1>2, <2>2, StepSteps DEF InLoop
  <2>3. CASE StepBlind(h, "ban", "rate")
    BY <1>1, <1>2, <2>3, StepBlindSteps DEF InLoop
  <2>. QED BY <1>3, <1>5, <2>2, <2>3 DEF CheckBan
<1>6. CASE CheckRate(h)
  <2>1. CASE Step(h, "rate", "next")
    <3>1. hs[h].step = "rate"
      BY <2>1 DEF Step
    <3>. QED BY <1>1, <1>2, <2>1, <3>1, StepSteps
  <2>. QED BY <1>3, <1>6, <2>1 DEF CheckRate
<1>7. CASE NextUrl(h)
  <2>1. CASE hs[h].left > 0 /\ Step(h, "next", "day")
    <3>1. hs[h].step = "next"
      BY <2>1 DEF Step
    <3>. QED BY <1>1, <1>2, <2>1, <3>1, StepSteps
  <2>2. CASE hs[h].left > 0 /\ StepBlind(h, "next", "day")
    BY <1>1, <1>2, <2>2, StepBlindSteps DEF InLoop
  <2>. QED BY <1>3, <1>7, <2>1, <2>2 DEF NextUrl
<1>8. ASSUME hs[h].step \in InLoop, UrlOver(h)
      PROVE  /\ hs' = [hs EXCEPT ![h] = hs'[h]] /\ Fine(hs'[h])
             /\ ~hs'[h].late /\ hs'[h].step = "next"
  BY <1>1, <1>8, UrlOverSteps DEF InLoop
<1>9. ASSUME NEW from \in InLoop, NEW to \in InLoop, Step(h, from, to)
      PROVE  /\ hs' = [hs EXCEPT ![h] = hs'[h]] /\ Fine(hs'[h])
             /\ ~hs'[h].late /\ hs'[h].step = to /\ hs[h].step = from
             /\ hs'[h].user = hs[h].user /\ hs'[h].blind = hs[h].blind
  <2>1. hs[h].step = from
    BY <1>9 DEF Step
  <2>. QED BY <1>1, <1>2, <1>9, <2>1, StepSteps
<1>10. ASSUME NEW from \in InLoop, NEW to \in InLoop, StepBlind(h, from, to)
       PROVE  /\ hs' = [hs EXCEPT ![h] = hs'[h]] /\ Fine(hs'[h])
              /\ ~hs'[h].late /\ hs'[h].blind
  <2>1. hs[h].step = from
    BY <1>10 DEF StepBlind
  <2>. QED BY <1>1, <1>2, <1>10, <2>1, StepBlindSteps
<1>11. {"day", "queued", "running", "ack", "insert"} \subseteq InLoop
  BY DEF InLoop
<1>12. CASE CountDay(h)
  <2>1. CASE Metered(hs[h].user)
    <3>1. /\ hs[h].step = "day"
          /\ \/ UrlOver(h)
             \/ Cardinality(Today(hs[h].user)) < Quota /\ Step(h, "day", "queued")
             \/ StepBlind(h, "day", "queued")
      BY <1>12, <2>1 DEF CountDay, Count
    <3>. QED BY <1>8, <1>9, <1>10, <1>11, <3>1
  <2>2. CASE ~Metered(hs[h].user)
    <3>1. Step(h, "day", "queued")
      BY <1>12, <2>2 DEF CountDay
    <3>. QED BY <1>9, <1>11, <2>2, <3>1
  <2>. QED BY <2>1, <2>2
<1>13. CASE CountQueued(h)
  <2>1. /\ hs[h].step = "queued"
        /\ \/ UrlOver(h)
           \/ /\ Cardinality(Having(hs[h].user, "pending")) < MaxQueued
              /\ Step(h, "queued", "running")
           \/ StepBlind(h, "queued", "ack")
    BY <1>13 DEF CountQueued, Count
  <2>. QED BY <1>8, <1>9, <1>10, <1>11, <2>1
<1>14. CASE CountRunning(h)
  <2>1. /\ hs[h].step = "running"
        /\ UrlOver(h) \/ Step(h, "running", "ack") \/ StepBlind(h, "running", "ack")
    BY <1>14 DEF CountRunning, Count
  <2>. QED BY <1>8, <1>9, <1>10, <1>11, <2>1
<1>15. CASE Ack(h)
  <2>1. Step(h, "ack", "insert") \/ (hs[h].step = "ack" /\ UrlOver(h))
    BY <1>15 DEF Ack
  <2>. QED BY <1>8, <1>9, <1>11, <2>1
<1>16. CASE InsertJob(h) \/ InsertFails(h)
  <2>1. hs[h].step = "insert" /\ UrlOver(h)
    BY <1>16 DEF InsertJob, InsertFails
  <2>. QED BY <1>8, <1>11, <2>1
<1>. QED
  BY <1>4, <1>5, <1>6, <1>7, <1>12, <1>13, <1>14, <1>15, <1>16 DEF HandlerStep

LEMMA RowsAdmitted ==
    ASSUME Sane, NEW h \in Handler, HandlerStep(h)
    PROVE  /\ banned' = banned
           /\ (row' = row /\ recent' = recent) \/ InsertJob(h)
           /\ (hot' = hot /\ passed' = passed) \/ CheckRate(h)
BY DEF HandlerStep, Arrive, CheckBan, CheckRate, NextUrl, CountDay, CountQueued,
       CountRunning, Count, Ack, InsertJob, InsertFails

-----------------------------------------------------------------------------
(* Types, bans and cooldowns. *)

RowState == [user : User \cup {NoUser},
             status : {"none", "pending", "processing", "ended", "deleted"},
             blind : BOOLEAN]

LEMMA SaneInit == Init => Sane
<1>. SUFFICES ASSUME Init PROVE Sane
  OBVIOUS
<1>1. NoRow \in RowState
  BY DEF NoRow, RowState
<1>2. TypeOK
  BY <1>1, IdleFine DEF Init, TypeOK, RowState, Fine, HandlerState
<1>. QED BY <1>2, IdleFine DEF Init, Sane, Caught, Cooling

LEMMA SaneHandler ==
    ASSUME Sane, NEW h \in Handler, HandlerStep(h)
    PROVE  Sane'
<1>1. /\ hs \in [Handler -> HandlerState] /\ row \in [JobId -> RowState]
      /\ recent \subseteq JobId /\ banned \subseteq User /\ hot \subseteq User
      /\ passed \in [User -> Nat] /\ Fine(hs[h])
  BY DEF Sane, TypeOK, HandlerState, RowState
<1>2. /\ hs' = [hs EXCEPT ![h] = hs'[h]] /\ Fine(hs'[h])
      /\ hs'[h].late => hs'[h].step = "ban" /\ hs'[h].user \in banned
  BY HandlerMoves
<1>3. banned' = banned
  BY RowsAdmitted
<1>4. hs' \in [Handler -> HandlerState] /\ \A g \in Handler : Fine(hs'[g])
  BY <1>1, <1>2 DEF Fine, Sane
<1>5. Caught'
  BY <1>1, <1>2, <1>3 DEF Sane, Caught
<1>6. row' \in [JobId -> RowState] /\ recent' \subseteq JobId
  <2>1. CASE row' = row /\ recent' = recent
    BY <1>1, <2>1
  <2>2. CASE InsertJob(h)
    <3>1. PICK j \in JobId :
             /\ row' = [row EXCEPT ![j] = [user |-> hs[h].user, status |-> "pending",
                                           blind |-> hs[h].blind]]
             /\ recent' = recent \cup {j}
      BY <2>2 DEF InsertJob
    <3>2. [user |-> hs[h].user, status |-> "pending", blind |-> hs[h].blind] \in RowState
      BY <1>1 DEF HandlerState, RowState
    <3>. QED BY <1>1, <3>1, <3>2
  <2>. QED BY <2>1, <2>2, RowsAdmitted
<1>7. /\ hot' \subseteq User /\ passed' \in [User -> Nat]
      /\ Cooling'
  <2>1. CASE hot' = hot /\ passed' = passed
    BY <1>1, <2>1 DEF Sane, Cooling
  <2>2. CASE CheckRate(h)
    <3>1. hs[h].user \in User
      BY <1>1, <2>2 DEF Fine, CheckRate
    <3>2. CASE hs[h].user \in hot
      BY <1>1, <2>2, <3>2 DEF CheckRate, Sane, Cooling
    <3>3. CASE hs[h].user \notin hot
      <4>1. /\ hot' = hot \cup {hs[h].user}
            /\ passed' = [passed EXCEPT ![hs[h].user] = passed[hs[h].user] + 1]
            /\ passed[hs[h].user] = 0
        BY <1>1, <2>2, <3>1, <3>3 DEF CheckRate, Sane, Cooling
      <4>. QED BY <1>1, <3>1, <4>1 DEF Sane, Cooling
    <3>. QED BY <3>2, <3>3
  <2>. QED BY <2>1, <2>2, RowsAdmitted
<1>8. TypeOK'
  BY <1>1, <1>3, <1>4, <1>6, <1>7 DEF TypeOK, HandlerState, RowState
<1>. QED BY <1>4, <1>5, <1>7, <1>8 DEF Sane

LEMMA SaneOthers ==
    ASSUME Sane,
           \/ \E u \in User : Ban(u) \/ Unban(u) \/ CooldownOver(u)
           \/ \E j \in JobId : DayOver(j) \/ Claim(j) \/ End(j) \/ Cleanup(j)
           \/ Restart \/ UNCHANGED vars
    PROVE  Sane'
<1>1. /\ hs \in [Handler -> HandlerState] /\ row \in [JobId -> RowState]
      /\ recent \subseteq JobId /\ banned \subseteq User /\ hot \subseteq User
      /\ passed \in [User -> Nat] /\ \A h \in Handler : Fine(hs[h])
  BY DEF Sane, TypeOK, HandlerState, RowState
<1>. USE DEF Sane
<1>2. ASSUME NEW u \in User, Ban(u) PROVE Sane'
  BY <1>1, <1>2 DEF Ban, TypeOK, Caught, Cooling, HandlerState, RowState
<1>3. ASSUME NEW u \in User, Unban(u) PROVE Sane'
  <2>1. ASSUME NEW h \in Handler
        PROVE  /\ Fine(hs'[h])
               /\ hs'[h].late => hs[h].late /\ hs[h].user # u /\ hs'[h] = hs[h]
    <3>1. CASE hs[h].user = u
      <4>1. hs'[h] = [hs[h] EXCEPT !.late = FALSE]
        BY <1>3, <3>1 DEF Unban
      <4>. QED BY <1>1, <4>1 DEF Fine, HandlerState
    <3>2. CASE hs[h].user # u
      BY <1>1, <1>3, <3>2 DEF Unban
    <3>. QED BY <3>1, <3>2
  <2>2. hs' \in [Handler -> HandlerState]
    BY <1>3, <2>1 DEF Unban, Fine
  <2>3. Caught'
    BY <1>3, <2>1 DEF Unban, Caught
  <2>4. TypeOK'
    BY <1>1, <1>3, <2>2 DEF Unban, TypeOK, HandlerState, RowState
  <2>. QED BY <1>3, <2>1, <2>3, <2>4 DEF Unban, Cooling
<1>4. ASSUME NEW u \in User, CooldownOver(u) PROVE Sane'
  BY <1>1, <1>4 DEF CooldownOver, TypeOK, Caught, Cooling, HandlerState, RowState
<1>5. ASSUME NEW j \in JobId, DayOver(j) PROVE Sane'
  BY <1>1, <1>5 DEF DayOver, TypeOK, Caught, Cooling, HandlerState, RowState
<1>6. ASSUME NEW j \in JobId, NEW from, NEW to \in {"processing", "ended", "deleted"},
             Move(j, from, to)
      PROVE  Sane'
  <2>1. row' \in [JobId -> RowState]
    BY <1>1, <1>6 DEF Move, RowState
  <2>. QED BY <1>1, <1>6, <2>1 DEF Move, TypeOK, Caught, Cooling, HandlerState, RowState
<1>7. CASE Restart
  <2>1. /\ hs' \in [Handler -> HandlerState] /\ \A h \in Handler : Fine(hs'[h])
        /\ Caught'
    BY <1>7, IdleFine DEF Restart, Fine, Caught
  <2>2. passed' \in [User -> Nat] /\ Cooling' /\ hot' \subseteq User
    BY <1>7 DEF Restart, Cooling
  <2>3. TypeOK'
    BY <1>1, <1>7, <2>1, <2>2 DEF Restart, TypeOK, HandlerState, RowState
  <2>. QED BY <2>1, <2>2, <2>3
<1>8. CASE UNCHANGED vars
  BY <1>1, <1>8 DEF vars, TypeOK, Caught, Cooling, HandlerState, RowState
<1>. QED
  BY <1>2, <1>3, <1>4, <1>5, <1>6, <1>7, <1>8 DEF Claim, End, Cleanup

LEMMA SaneNext == Sane /\ [Next]_vars => Sane'
BY SaneHandler, SaneOthers DEF Next

LEMMA SaneAlways == Spec => []Sane
BY SaneInit, SaneNext, PTL DEF Spec

\* Every reachable state of the submission handlers is well typed, for any
\* limits: in particular no handler runs past the end of its URLs.
THEOREM AdmissionTypeCorrect == Spec => []TypeOK
BY SaneAlways, PTL DEF Sane

\* Of all the updates of a user that overlap, and of those that follow within
\* the cooldown, one gets past checkRateLimit.
THEOREM CooldownLetsOnePass == Spec => []OneMessagePerCooldown
<1>1. Sane => OneMessagePerCooldown
  BY DEF Sane, Cooling, OneMessagePerCooldown
<1>. QED BY <1>1, SaneAlways, PTL

\* An update that arrives when its sender is banned gets no further than the ban
\* check, unless the check cannot read banned_users or the sender is unbanned.
THEOREM BansBlock == Spec => []BanBlocksLaterMessages
<1>1. Sane => BanBlocksLaterMessages
  BY DEF Sane, Caught, BanBlocksLaterMessages
<1>. QED BY <1>1, SaneAlways, PTL

-----------------------------------------------------------------------------
(* The limits.  Each bound adds the rows that count against it and the     *)
(* handlers that are past its check; none of the two sets grows but when a *)
(* handler's count has just found room, or when a row replaces its handler.*)

Within(A, B, limit) ==
    Cardinality(A) + Cardinality(B) <= limit + Cardinality(Handler) - 1

LEMMA Sizes ==
    ASSUME NEW A \in SUBSET JobId, NEW B \in SUBSET Handler
    PROVE  /\ IsFiniteSet(A) /\ IsFiniteSet(B)
           /\ Cardinality(A) \in Nat /\ Cardinality(B) \in Nat
           /\ Cardinality(Handler) \in Nat /\ Cardinality(B) <= Cardinality(Handler)
           /\ \A S \in SUBSET A : Cardinality(S) <= Cardinality(A)
           /\ \A S \in SUBSET B : Cardinality(S) <= Cardinality(B)
<1>1. IsFiniteSet(A) /\ IsFiniteSet(B) /\ IsFiniteSet(Handler)
  BY IdsAssumption, HandlersAssumption, FS_Subset
<1>2. /\ Cardinality(A) \in Nat /\ Cardinality(B) \in Nat
      /\ Cardinality(Handler) \in Nat
  BY <1>1, FS_CardinalityType
<1>3. Cardinality(B) <= Cardinality(Handler)
  BY <1>1, FS_Subset
<1>4. \A S \in SUBSET A : Cardinality(S) <= Cardinality(A)
  BY <1>1, FS_Subset
<1>5. \A S \in SUBSET B : Cardinality(S) <= Cardinality(B)
  BY <1>1, FS_Subset
<1>. QED BY <1>1, <1>2, <1>3, <1>4, <1>5

\* Nothing is added.
LEMMA WithinShrinks ==
    ASSUME NEW A \in SUBSET JobId, NEW B \in SUBSET Handler, NEW limit \in Nat,
           Within(A, B, limit), NEW A2 \in SUBSET A, NEW B2 \in SUBSET B
    PROVE  Within(A2, B2, limit)
<1>1. A2 \in SUBSET JobId /\ B2 \in SUBSET Handler
  OBVIOUS
<1>2. /\ Cardinality(A2) \in Nat /\ Cardinality(B2) \in Nat
      /\ Cardinality(Handler) \in Nat
  BY <1>1, Sizes
<1>3. /\ Cardinality(A) \in Nat /\ Cardinality(B) \in Nat
      /\ Cardinality(A2) <= Cardinality(A) /\ Cardinality(B2) <= Cardinality(B)
  BY Sizes
<1>. QED BY <1>2, <1>3 DEF Within

\* A count has found room.
LEMMA WithinFresh ==
    ASSUME NEW A \in SUBSET JobId, NEW B \in SUBSET Handler, NEW limit \in Nat,
           Cardinality(A) < limit, NEW A2 \in SUBSET A
    PROVE  Within(A2, B, limit)
<1>1. A2 \in SUBSET JobId
  OBVIOUS
<1>2. Cardinality(A2) \in Nat
  BY <1>1, Sizes
<1>3. /\ Cardinality(A) \in Nat /\ Cardinality(B) \in Nat
      /\ Cardinality(Handler) \in Nat /\ Cardinality(B) <= Cardinality(Handler)
      /\ Cardinality(A2) <= Cardinality(A)
  BY Sizes
<1>. QED BY <1>2, <1>3 DEF Within

\* A row comes for a handler that leaves.
LEMMA WithinReplaced ==
    ASSUME NEW A \in SUBSET JobId, NEW B \in SUBSET Handler, NEW limit \in Nat,
           Within(A, B, limit), NEW j \in JobId, NEW h \in B,
           NEW A2 \in SUBSET (A \cup {j}), NEW B2 \in SUBSET (B \ {h})
    PROVE  Within(A2, B2, limit)
<1>1. IsFiniteSet(A) /\ IsFiniteSet(B)
  BY Sizes
<1>2. /\ Cardinality(A) \in Nat /\ Cardinality(B) \in Nat
      /\ Cardinality(Handler) \in Nat
  BY Sizes
<1>3. /\ A \cup {j} \in SUBSET JobId /\ B \ {h} \in SUBSET Handler
      /\ A2 \in SUBSET JobId /\ B2 \in SUBSET Handler
  OBVIOUS
<1>4. Cardinality(A \cup {j}) <= Cardinality(A) + 1 /\ Cardinality(A \cup {j}) \in Nat
  <2>1. Cardinality(A \cup {j}) \in {Cardinality(A), Cardinality(A) + 1}
    <3>1. CASE j \in A
      <4>1. A \cup {j} = A
        BY <3>1
      <4>. QED BY <4>1
    <3>2. CASE j \notin A
      BY <1>1, <3>2, FS_AddElement
    <3>. QED BY <3>1, <3>2
  <2>. QED BY <1>2, <2>1
<1>5. Cardinality(B \ {h}) = Cardinality(B) - 1 /\ Cardinality(B \ {h}) \in Nat
  <2>1. Cardinality(B \ {h}) = Cardinality(B) - 1
    BY <1>1, FS_RemoveElement
  <2>2. Cardinality(B \ {h}) \in Nat
    BY <1>3, Sizes
  <2>. QED BY <2>1, <2>2
<1>6. Cardinality(A2) <= Cardinality(A \cup {j}) /\ Cardinality(A2) \in Nat
  BY <1>3, Sizes
<1>7. Cardinality(B2) <= Cardinality(B \ {h}) /\ Cardinality(B2) \in Nat
  BY <1>3, Sizes
<1>. QED BY <1>2, <1>4, <1>5, <1>6, <1>7 DEF Within

\* What is not a step of a handler takes rows and handlers away only.
LEMMA OthersTake ==
    ASSUME Sane,
           \/ \E u \in User : Ban(u) \/ Unban(u) \/ CooldownOver(u)
           \/ \E j \in JobId : DayOver(j) \/ Claim(j) \/ End(j) \/ Cleanup(j)
           \/ Restart \/ UNCHANGED vars
    PROVE  /\ recent' \subseteq recent
           /\ \A j \in JobId :
                 /\ row'[j].user = row[j].user /\ row'[j].blind = row[j].blind
                 /\ row'[j].status = "pending" => row[j].status = "pending"
                 /\ row[j].status = "deleted" => row'[j].status = "deleted"
                 /\ RetentionHours >= 24 /\ row'[j].status = "deleted" =>
                       row[j].status = "deleted" \/ j \notin recent
           /\ \A h \in Handler : hs'[h].step # "idle" =>
                 /\ hs'[h].user = hs[h].user /\ hs'[h].blind = hs[h].blind
                 /\ hs'[h].step = hs[h].step
<1>1. hs \in [Handler -> HandlerState] /\ row \in [JobId -> RowState]
  BY DEF Sane, TypeOK, HandlerState, RowState
<1>2. ASSUME NEW u \in User, Unban(u), NEW h \in Handler
      PROVE  /\ hs'[h].user = hs[h].user /\ hs'[h].blind = hs[h].blind
             /\ hs'[h].step = hs[h].step
  <2>1. hs'[h] = hs[h] \/ hs'[h] = [hs[h] EXCEPT !.late = FALSE]
    BY <1>2 DEF Unban
  <2>. QED BY <1>1, <2>1 DEF HandlerState
<1>3. ASSUME NEW u \in User, Ban(u) \/ Unban(u) \/ CooldownOver(u)
      PROVE  row' = row /\ recent' = recent
  BY <1>3 DEF Ban, Unban, CooldownOver
<1>4. ASSUME NEW u \in User, Ban(u) \/ CooldownOver(u)
      PROVE  hs' = hs
  BY <1>4 DEF Ban, CooldownOver
<1>5. ASSUME NEW j \in JobId, NEW from \in {"pending", "processing", "ended"},
             NEW to \in {"processing", "ended", "deleted"},
             RetentionHours >= 24 /\ to = "deleted" => j \notin recent,
             Move(j, from, to), NEW k \in JobId
      PROVE  /\ row'[k].user = row[k].user /\ row'[k].blind = row[k].blind
             /\ row'[k].status = "pending" => row[k].status = "pending"
             /\ row[k].status = "deleted" => row'[k].status = "deleted"
             /\ RetentionHours >= 24 /\ row'[k].status = "deleted" =>
                   row[k].status = "deleted" \/ k \notin recent
  BY <1>1, <1>5 DEF Move, RowState
<1>6. ASSUME NEW j \in JobId, Claim(j) \/ End(j) \/ Cleanup(j)
      PROVE  \E from \in {"pending", "processing", "ended"},
                to \in {"processing", "ended", "deleted"} :
                   /\ RetentionHours >= 24 /\ to = "deleted" => j \notin recent
                   /\ Move(j, from, to)
  BY <1>6 DEF Claim, End, Cleanup
<1>7. ASSUME NEW j \in JobId, Claim(j) \/ End(j) \/ Cleanup(j)
      PROVE  hs' = hs /\ recent' = recent
  BY <1>7 DEF Claim, End, Cleanup, Move
<1>8. ASSUME NEW j \in JobId, DayOver(j)
      PROVE  hs' = hs /\ row' = row /\ recent' \subseteq recent
  BY <1>8 DEF DayOver
<1>9. CASE Restart
  BY <1>9, IdleFine DEF Restart
<1>10. CASE UNCHANGED vars
  BY <1>10 DEF vars
<1>. QED BY <1>2, <1>3, <1>4, <1>5, <1>6, <1>7, <1>8, <1>9, <1>10

\* The limit on queued jobs is exceeded by no more than one job for each other
\* handler, whatever the handlers, the workers and the users do: queueURL counts
\* anew for every URL.
THEOREM QueueLimitHolds == Spec => []QueueOvershootBounded
<1>1. Init => QueueOvershootBounded
  <2>. SUFFICES ASSUME Init, NEW u \in User
               PROVE  Within({j \in Having(u, "pending") : ~row[j].blind},
                             Sighted(u, PastQueue), MaxQueued)
    BY DEF QueueOvershootBounded, Within, PastQueue
  <2>1. /\ {j \in Having(u, "pending") : ~row[j].blind} = {}
        /\ Sighted(u, PastQueue) = {}
    BY DEF Init, Having, Sighted, NoRow, Idle, PastQueue
  <2>2. Cardinality({}) = 0 /\ MaxQueued \in Nat
    BY FS_EmptySet, LimitsAssumption
  <2>3. {} \in SUBSET JobId /\ {} \in SUBSET Handler
    OBVIOUS
  <2>4. Within({}, {}, MaxQueued)
    BY <2>2, <2>3, WithinFresh, LimitsAssumption
  <2>. QED BY <2>1, <2>4
<1>2. Sane /\ QueueOvershootBounded /\ [Next]_vars => QueueOvershootBounded'
  <2>. SUFFICES ASSUME Sane, QueueOvershootBounded, [Next]_vars, NEW u \in User
               PROVE  Within({j \in Having(u, "pending") : ~row[j].blind}',
                             Sighted(u, PastQueue)', MaxQueued)
    BY DEF QueueOvershootBounded, Within, PastQueue
  <2>. DEFINE A == {j \in Having(u, "pending") : ~row[j].blind}
              B == Sighted(u, PastQueue)
  <2>1. /\ A \in SUBSET JobId /\ B \in SUBSET Handler /\ MaxQueued \in Nat
        /\ A' \in SUBSET JobId /\ B' \in SUBSET Handler
    BY LimitsAssumption DEF Having, Sighted
  <2>2. Within(A, B, MaxQueued)
    BY DEF QueueOvershootBounded, Within, PastQueue
  <2>3. /\ hs \in [Handler -> HandlerState] /\ row \in [JobId -> RowState]
    BY DEF Sane, TypeOK, HandlerState, RowState
  <2>4. ASSUME NEW h \in Handler, HandlerStep(h) PROVE Within(A', B', MaxQueued)
    <3>1. \A g \in Handler \ {h} : hs'[g] = hs[g]
      BY <2>3, <2>4, HandlerMoves
    <3>2. CASE row' = row
      <4>1. A' = A
        BY <3>2 DEF Having
      <4>2. CASE h \in B' /\ h \notin B
        <5>1. /\ hs[h].user = u
              /\ Cardinality(Having(hs[h].user, "pending")) < MaxQueued
          BY <2>4, <4>2, HandlerMoves DEF Sighted
        <5>2. Having(u, "pending") \in SUBSET JobId /\ A \in SUBSET Having(u, "pending")
          BY DEF Having
        <5>3. Cardinality(Having(u, "pending")) < MaxQueued
          BY <5>1
        <5>4. Within(A, B', MaxQueued)
          BY <2>1, <5>2, <5>3, WithinFresh
        <5>. QED BY <4>1, <5>4
      <4>3. CASE h \notin B' \/ h \in B
        <5>1. B' \in SUBSET B
          BY <3>1, <4>3 DEF Sighted
        <5>2. Within(A, B', MaxQueued)
          BY <2>1, <2>2, <5>1, WithinShrinks
        <5>. QED BY <4>1, <5>2
      <4>. QED BY <4>2, <4>3
    <3>3. CASE InsertJob(h)
      <4>1. PICK j \in JobId :
               row' = [row EXCEPT ![j] = [user |-> hs[h].user, status |-> "pending",
                                          blind |-> hs[h].blind]]
        BY <3>3 DEF InsertJob
      <4>2. hs[h].step = "insert" /\ hs'[h].step = "next"
        <5>1. hs[h].step = "insert" /\ UrlOver(h)
          BY <3>3 DEF InsertJob
        <5>. QED BY <5>1, UrlOverSteps DEF InLoop
      <4>3. B' \in SUBSET (B \ {h})
        BY <3>1, <4>2 DEF Sighted, PastQueue
      <4>4. A' \in SUBSET (A \cup {j})
        BY <2>3, <4>1 DEF Having
      <4>5. CASE h \in B
        BY <2>1, <2>2, <4>3, <4>4, <4>5, WithinReplaced
      <4>6. CASE h \notin B
        <5>1. hs[h].user # u \/ hs[h].blind
          BY <4>2, <4>6 DEF Sighted, PastQueue
        <5>2. A' \in SUBSET A
          BY <2>3, <4>1, <5>1 DEF Having
        <5>3. B' \in SUBSET B
          BY <4>3
        <5>. QED BY <2>1, <2>2, <5>2, <5>3, WithinShrinks
      <4>. QED BY <4>5, <4>6
    <3>. QED BY <2>4, <3>2, <3>3, RowsAdmitted
  <2>5. ASSUME \/ \E v \in User : Ban(v) \/ Unban(v) \/ CooldownOver(v)
               \/ \E j \in JobId : DayOver(j) \/ Claim(j) \/ End(j) \/ Cleanup(j)
               \/ Restart \/ UNCHANGED vars
        PROVE  Within(A', B', MaxQueued)
    <3>1. A' \in SUBSET A
      BY <2>5, OthersTake DEF Having
    <3>2. B' \in SUBSET B
      BY <2>5, OthersTake DEF Sighted, PastQueue
    <3>. QED BY <2>1, <2>2, <3>1, <3>2, WithinShrinks
  <2>. QED BY <2>4, <2>5 DEF Next
<1>. QED BY <1>1, <1>2, SaneAlways, PTL DEF Spec

-----------------------------------------------------------------------------
(* The daily quota. *)

\* What is younger than a day has not been deleted, if rows are kept that long.
RecentKept ==
    RetentionHours >= 24 => \A j \in recent : row[j].status # "deleted"

\* For every retention and quota, the daily quota is exceeded by no more than one
\* job for each other handler: of what was submitted in the last 24 hours where
\* rows are kept for a day or longer, of the rows left where they are not.
THEOREM QuotaHolds == Spec => []QuotaOvershootBounded
<1>1. Init => RecentKept /\ QuotaOvershootBounded
  <2>1. Init => RecentKept
    BY DEF Init, RecentKept
  <2>2. ASSUME Init, NEW u \in User, Metered(u)
        PROVE  Within({j \in Submitted(u) : ~row[j].blind},
                      Sighted(u, PastDay), Quota)
    <3>1. /\ {j \in Submitted(u) : ~row[j].blind} = {}
          /\ Sighted(u, PastDay) = {}
      BY <2>2 DEF Init, Submitted, Sighted, Idle, PastDay
    <3>2. Cardinality({}) = 0 /\ Quota \in Nat /\ Quota > 0
      BY <2>2, FS_EmptySet, LimitsAssumption DEF Metered
    <3>3. {} \in SUBSET JobId /\ {} \in SUBSET Handler
      OBVIOUS
    <3>4. Within({}, {}, Quota)
      BY <3>2, <3>3, WithinFresh
    <3>. QED BY <3>1, <3>4
  <2>3. Init => QuotaOvershootBounded
    BY <2>2 DEF QuotaOvershootBounded, Within, PastDay
  <2>. QED BY <2>1, <2>3
<1>2. Sane /\ RecentKept /\ [Next]_vars => RecentKept'
  <2>. SUFFICES ASSUME Sane, RecentKept, [Next]_vars PROVE RecentKept'
    OBVIOUS
  <2>1. recent \subseteq JobId /\ row \in [JobId -> RowState]
    BY DEF Sane, TypeOK, RowState
  <2>2. ASSUME NEW h \in Handler, HandlerStep(h) PROVE RecentKept'
    <3>1. CASE row' = row /\ recent' = recent
      BY <3>1 DEF RecentKept
    <3>2. CASE InsertJob(h)
      BY <2>1, <3>2 DEF InsertJob, RecentKept
    <3>. QED BY <2>2, <3>1, <3>2, RowsAdmitted
  <2>3. ASSUME \/ \E v \in User : Ban(v) \/ Unban(v) \/ CooldownOver(v)
               \/ \E j \in JobId : DayOver(j) \/ Claim(j) \/ End(j) \/ Cleanup(j)
               \/ Restart \/ UNCHANGED vars
        PROVE  RecentKept'
    BY <2>1, <2>3, OthersTake DEF RecentKept
  <2>. QED BY <2>2, <2>3 DEF Next
<1>3. Sane /\ RecentKept /\ QuotaOvershootBounded /\ [Next]_vars
          => QuotaOvershootBounded'
  <2>. SUFFICES ASSUME Sane, RecentKept, QuotaOvershootBounded, [Next]_vars,
                      NEW u \in User, Metered(u)
               PROVE  Within({j \in Submitted(u) : ~row[j].blind}',
                             Sighted(u, PastDay)', Quota)
    BY DEF QuotaOvershootBounded, Within, PastDay, Metered
  <2>. DEFINE A == {j \in Submitted(u) : ~row[j].blind}
              B == Sighted(u, PastDay)
  <2>3. /\ hs \in [Handler -> HandlerState] /\ row \in [JobId -> RowState]
        /\ recent \subseteq JobId
    BY DEF Sane, TypeOK, HandlerState, RowState
  <2>1. /\ A \in SUBSET JobId /\ B \in SUBSET Handler /\ Quota \in Nat
    BY <2>3, LimitsAssumption DEF Submitted, Sighted
  <2>a. recent' \subseteq JobId /\ B' \in SUBSET Handler
    <3>1. recent' \subseteq JobId
      BY SaneNext DEF Sane, TypeOK
    <3>. QED BY <3>1 DEF Sighted
  <2>2. Within(A, B, Quota)
    BY DEF QuotaOvershootBounded, Within, PastDay
  <2>4. ASSUME NEW h \in Handler, HandlerStep(h) PROVE Within(A', B', Quota)
    <3>1. \A g \in Handler \ {h} : hs'[g] = hs[g]
      BY <2>3, <2>4, HandlerMoves
    <3>2. CASE row' = row /\ recent' = recent
      <4>1. A' = A
        BY <3>2 DEF Submitted
      <4>2. CASE h \in B' /\ h \notin B
        <5>1. /\ hs[h].user = u
              /\ Metered(hs[h].user) => Cardinality(Today(hs[h].user)) < Quota
          BY <2>4, <4>2, HandlerMoves DEF Sighted
        <5>2. Today(u) \in SUBSET JobId /\ A \in SUBSET Today(u)
          <6>1. \A j \in A : j \in recent /\ row[j].user = u /\ row[j].status # "deleted"
            BY LimitsAssumption DEF Submitted, RecentKept
          <6>. QED BY <2>3, <6>1 DEF Today
        <5>3. Cardinality(Today(u)) < Quota
          BY <5>1
        <5>4. Within(A, B', Quota)
          BY <2>1, <2>a, <5>2, <5>3, WithinFresh
        <5>. QED BY <4>1, <5>4
      <4>3. CASE h \notin B' \/ h \in B
        <5>1. B' \in SUBSET B
          BY <3>1, <4>3 DEF Sighted
        <5>2. Within(A, B', Quota)
          BY <2>1, <2>2, <5>1, WithinShrinks
        <5>. QED BY <4>1, <5>2
      <4>. QED BY <4>2, <4>3
    <3>3. CASE InsertJob(h)
      <4>1. PICK j \in JobId :
               /\ row' = [row EXCEPT ![j] = [user |-> hs[h].user, status |-> "pending",
                                             blind |-> hs[h].blind]]
               /\ recent' = recent \cup {j}
        BY <3>3 DEF InsertJob
      <4>2. hs[h].step = "insert" /\ hs'[h].step = "next"
        <5>1. hs[h].step = "insert" /\ UrlOver(h)
          BY <3>3 DEF InsertJob
        <5>. QED BY <5>1, UrlOverSteps DEF InLoop
      <4>3. B' \in SUBSET (B \ {h})
        BY <3>1, <4>2 DEF Sighted, PastDay
      <4>4. A' \in SUBSET (A \cup {j})
        <5>1. \A k \in JobId \ {j} : row'[k] = row[k] /\ (k \in recent' => k \in recent)
          BY <2>3, <4>1
        <5>. QED BY <2>3, <4>1, <5>1 DEF Submitted
      <4>5. CASE h \in B
        BY <2>1, <2>2, <4>3, <4>4, <4>5, WithinReplaced
      <4>6. CASE h \notin B
        <5>1. hs[h].user # u \/ hs[h].blind
          BY <4>2, <4>6 DEF Sighted, PastDay
        <5>2. A' \in SUBSET A
          <6>1. row'[j].user # u \/ row'[j].blind
            BY <2>3, <4>1, <5>1
          <6>2. j \notin A'
            BY <6>1 DEF Submitted
          <6>. QED BY <4>4, <6>2
        <5>3. B' \in SUBSET B
          BY <4>3
        <5>. QED BY <2>1, <2>2, <5>2, <5>3, WithinShrinks
      <4>. QED BY <4>5, <4>6
    <3>. QED BY <2>4, <3>2, <3>3, RowsAdmitted
  <2>5. ASSUME \/ \E v \in User : Ban(v) \/ Unban(v) \/ CooldownOver(v)
               \/ \E j \in JobId : DayOver(j) \/ Claim(j) \/ End(j) \/ Cleanup(j)
               \/ Restart \/ UNCHANGED vars
        PROVE  Within(A', B', Quota)
    <3>1. A' \in SUBSET A
      BY <2>3, <2>5, OthersTake DEF Submitted
    <3>2. B' \in SUBSET B
      BY <2>5, OthersTake DEF Sighted, PastDay
    <3>. QED BY <2>1, <2>2, <3>1, <3>2, WithinShrinks
  <2>. QED BY <2>4, <2>5 DEF Next
<1>. QED BY <1>1, <1>2, <1>3, SaneAlways, PTL DEF Spec

-----------------------------------------------------------------------------
(* The path of a row. *)

OnPath == Path!Next \/ UNCHANGED [j \in JobId |-> row[j].status]

LEMMA PathOne ==
    ASSUME NEW j \in JobId, NEW from, NEW to, <<from, to>> \in Path!Moves,
           row[j].status = from, row'[j].status = to,
           \A k \in JobId : k # j => row'[k] = row[k]
    PROVE  OnPath
<1>. DEFINE m == <<from, to>>
<1>1. m[1] = from /\ m[2] = to
  OBVIOUS
<1>2. \A k \in JobId : row'[k].status = IF k \in {j} THEN to ELSE row[k].status
  OBVIOUS
<1>3. Path!Statement({j}, m)
  BY <1>1, <1>2 DEF Path!Statement
<1>. QED BY <1>3 DEF OnPath, Path!Next

\* The steps that stand for everything that happens to a row after its insert are
\* ones that JobLifecycle's rows take (LifecycleRowsMoveOn): what is proved of
\* the limits rests on nothing that the workers do not do.
THEOREM AdmissionRowsMoveOn == Spec => AdmittedRowsMoveOn
<1>1. Init => Path!Init
  BY DEF Init, Path!Init, NoRow
<1>2. Sane /\ [Next]_vars => OnPath
  <2>. SUFFICES ASSUME Sane, [Next]_vars PROVE OnPath
    OBVIOUS
  <2>0. row \in [JobId -> RowState]
    BY DEF Sane, TypeOK, RowState
  <2>1. CASE UNCHANGED row
    BY <2>1 DEF OnPath
  <2>2. ASSUME NEW h \in Handler, InsertJob(h)
        PROVE  OnPath
    <3>1. PICK j \in JobId :
             /\ row[j].status = "none"
             /\ row' = [row EXCEPT ![j] = [user |-> hs[h].user, status |-> "pending",
                                           blind |-> hs[h].blind]]
      BY <2>2 DEF InsertJob
    <3>2. row'[j].status = "pending" /\ \A k \in JobId : k # j => row'[k] = row[k]
      BY <2>0, <3>1
    <3>. QED BY <3>1, <3>2, PathOne DEF Path!Moves
  <2>3. ASSUME NEW j \in JobId, NEW from, NEW to, <<from, to>> \in Path!Moves,
               Move(j, from, to)
        PROVE  OnPath
    <3>1. /\ row[j].status = from /\ row'[j].status = to
          /\ \A k \in JobId : k # j => row'[k] = row[k]
      BY <2>0, <2>3 DEF Move, RowState
    <3>. QED BY <2>3, <3>1, PathOne
  <2>4. ASSUME NEW j \in JobId, Claim(j) \/ End(j) \/ Cleanup(j)
        PROVE  OnPath
    BY <2>3, <2>4 DEF Claim, End, Cleanup, Path!Moves
  <2>5. ASSUME NEW h \in Handler, HandlerStep(h)
        PROVE  UNCHANGED row \/ InsertJob(h)
    BY <2>5, RowsAdmitted
  <2>. QED
    BY <2>1, <2>2, <2>4, <2>5
       DEF Next, Ban, Unban, CooldownOver, DayOver, Restart, vars
<1>. QED
  BY <1>1, <1>2, SaneAlways, PTL DEF Spec, AdmittedRowsMoveOn, Path!Spec, OnPath
=============================================================================
