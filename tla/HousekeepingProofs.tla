------------------------- MODULE HousekeepingProofs -------------------------
(***************************************************************************)
(* What the reaper and the cleanup achieve by the clock, for every stuck   *)
(* age, retention, cleanup period and set of rows.  The invariants of the  *)
(* module bound the age of a row by constants; the inductive ones bound it *)
(* by what the tickers still show.                                         *)
(***************************************************************************)
EXTENDS Housekeeping, TLAPS

\* Every reachable state is well typed; the tickers stay within their periods.
\* Loop of reaper.go and of cleanup.go.
THEOREM HkTypeCorrect == HkSpec => []HkTypeOK
<1>1. HkInit => HkTypeOK
  BY StuckAssumption, CleanupAssumption, MaxAgeAssumption DEF HkInit, HkTypeOK
<1>2. HkTypeOK /\ [HkNext]_hkVars => HkTypeOK'
  <2> SUFFICES ASSUME HkTypeOK, [HkNext]_hkVars PROVE HkTypeOK'
    OBVIOUS
  <2> USE StuckAssumption, CleanupAssumption, MaxAgeAssumption DEF HkTypeOK
  <2>1. CASE Tick
    BY <2>1 DEF Tick, Later
  <2>2. CASE ReapTick
    BY <2>2 DEF ReapTick
  <2>3. CASE CleanTick
    BY <2>3 DEF CleanTick
  <2>4. CASE Stop
    BY <2>4 DEF Stop
  <2>5. CASE Begin
    BY <2>5 DEF Begin, StartCleanup
  <2>6. CASE \E j \in Timed : Claim(j) \/ Verdict(j)
    BY <2>6 DEF Claim, Verdict
  <2>7. CASE UNCHANGED hkVars
    BY <2>7 DEF hkVars
  <2> QED BY <2>1, <2>2, <2>3, <2>4, <2>5, <2>6, <2>7 DEF HkNext
<1> QED BY <1>1, <1>2, PTL DEF HkSpec

-----------------------------------------------------------------------------
(* The reaper. *)

\* A row in processing is no older than the stuck age and the time since the
\* ticker fired, or the ticker has fired in vain, or not yet.
ReapedSoFar ==
    alive => \A j \in Timed :
        phase[j] = "processing" =>
            \/ age[j] <= Stuck + (Stuck - reapIn)
            \/ reapCalm <= Stuck - reapIn

\* No row is in processing for more than two periods of the reaper, unless the
\* process was down or the statement failed during the last one.
THEOREM RowsAreReaped == HkSpec => []ReapedInTime
<1>1. HkInit => ReapedSoFar
  BY DEF HkInit, ReapedSoFar
<1>2. HkTypeOK /\ ReapedSoFar /\ [HkNext]_hkVars => ReapedSoFar'
  <2> SUFFICES ASSUME HkTypeOK, ReapedSoFar, [HkNext]_hkVars,
                      alive', NEW j \in Timed, phase'[j] = "processing"
               PROVE  \/ age'[j] <= Stuck + (Stuck - reapIn')
                      \/ reapCalm' <= Stuck - reapIn'
    BY DEF ReapedSoFar
  <2> USE StuckAssumption, MaxAgeAssumption DEF HkTypeOK, ReapedSoFar
  <2>1. CASE Tick
    BY <2>1 DEF Tick, Later
  <2>2. CASE ReapTick
    BY <2>2 DEF ReapTick, Overdue
  <2>3. CASE CleanTick
    BY <2>3 DEF CleanTick
  <2>4. CASE Stop
    BY <2>4 DEF Stop
  <2>5. CASE Begin
    BY <2>5 DEF Begin
  <2>6. ASSUME NEW k \in Timed, Claim(k) \/ Verdict(k)
        PROVE  \/ age'[j] <= Stuck + (Stuck - reapIn')
               \/ reapCalm' <= Stuck - reapIn'
    <3>1. /\ reapIn' = reapIn /\ reapCalm' = reapCalm
          /\ cleanIn' = cleanIn /\ cleanCalm' = cleanCalm /\ alive
      BY <2>6 DEF Claim, Verdict
    <3>2. \/ age'[j] = age[j] /\ phase'[j] = phase[j]
          \/ age'[j] = 0
      BY <2>6 DEF Claim, Verdict
    <3> QED BY <3>1, <3>2
  <2>7. CASE UNCHANGED hkVars
    BY <2>7 DEF hkVars
  <2> QED BY <2>1, <2>2, <2>3, <2>4, <2>5, <2>6, <2>7 DEF HkNext
<1>3. HkTypeOK /\ ReapedSoFar => ReapedInTime
  BY StuckAssumption, MaxAgeAssumption DEF HkTypeOK, ReapedSoFar, ReapedInTime
<1> QED BY <1>1, <1>2, <1>3, HkTypeCorrect, PTL DEF HkSpec

-----------------------------------------------------------------------------
(* The cleanup. *)

\* The same for ended rows; when the ticker is due nothing is claimed.
ForgottenSoFar ==
    alive => \A j \in Timed :
        phase[j] = "ended" =>
            \/ cleanIn = 0
            \/ age[j] <= Retention + (Hour - cleanIn)
            \/ cleanCalm <= Hour - cleanIn

\* No ended row is kept for longer than the retention and one period, however
\* often the process is restarted, unless the cleanup's statement failed.
THEOREM RowsAreForgotten == HkSpec => []ForgottenInTime
<1>1. HkInit => ForgottenSoFar
  BY DEF HkInit, ForgottenSoFar
<1>2. HkTypeOK /\ ForgottenSoFar /\ [HkNext]_hkVars => ForgottenSoFar'
  <2> SUFFICES ASSUME HkTypeOK, ForgottenSoFar, [HkNext]_hkVars,
                      alive', NEW j \in Timed, phase'[j] = "ended"
               PROVE  \/ cleanIn' = 0
                      \/ age'[j] <= Retention + (Hour - cleanIn')
                      \/ cleanCalm' <= Hour - cleanIn'
    BY DEF ForgottenSoFar
  <2> USE StuckAssumption, CleanupAssumption, MaxAgeAssumption
      DEF HkTypeOK, ForgottenSoFar
  <2>1. CASE Tick
    BY <2>1 DEF Tick, Later
  <2>2. CASE ReapTick
    BY <2>2 DEF ReapTick, Overdue
  <2>3. CASE CleanTick
    BY <2>3 DEF CleanTick, Expired
  <2>4. CASE Stop
    BY <2>4 DEF Stop
  <2>5. CASE Begin
    BY <2>5 DEF Begin, StartCleanup
  <2>6. ASSUME NEW k \in Timed, Claim(k) \/ Verdict(k)
        PROVE  \/ cleanIn' = 0
               \/ age'[j] <= Retention + (Hour - cleanIn')
               \/ cleanCalm' <= Hour - cleanIn'
    <3>1. /\ reapIn' = reapIn /\ reapCalm' = reapCalm
          /\ cleanIn' = cleanIn /\ cleanCalm' = cleanCalm /\ alive
      BY <2>6 DEF Claim, Verdict
    <3>2. \/ age'[j] = age[j] /\ phase'[j] = phase[j]
          \/ age'[j] = 0
      BY <2>6 DEF Claim, Verdict
    <3> QED BY <3>1, <3>2
  <2>7. CASE UNCHANGED hkVars
    BY <2>7 DEF hkVars
  <2> QED BY <2>1, <2>2, <2>3, <2>4, <2>5, <2>6, <2>7 DEF HkNext
<1>3. HkTypeOK /\ ForgottenSoFar => ForgottenInTime
  BY CleanupAssumption, MaxAgeAssumption
     DEF HkTypeOK, ForgottenSoFar, ForgottenInTime
<1> QED BY <1>1, <1>2, <1>3, HkTypeCorrect, PTL DEF HkSpec

-----------------------------------------------------------------------------
(* Both. *)

\* While a download goes on: its row is as old as the claim; once reaped, the
\* claim is older than the row's end by more than the stuck age.
LiveRows ==
    \A j \in live :
        /\ phase[j] = "processing" => since[j] = age[j]
        /\ phase[j] = "ended" => since[j] > Stuck + age[j] \/ since[j] = MaxAge
        /\ phase[j] = "deleted" => since[j] > Stuck + Retention

\* A download that takes no longer than the stuck age and the retention
\* together finds its row when it ends, whatever the two loops do.
THEOREM LiveRowsAreKept == HkSpec => []LiveJobKeepsRow
<1>1. HkInit => LiveRows
  BY DEF HkInit, LiveRows
<1>2. HkTypeOK /\ LiveRows /\ [HkNext]_hkVars => LiveRows'
  <2> SUFFICES ASSUME HkTypeOK, LiveRows, [HkNext]_hkVars, NEW j \in live'
               PROVE  /\ phase'[j] = "processing" => since'[j] = age'[j]
                      /\ phase'[j] = "ended" =>
                            since'[j] > Stuck + age'[j] \/ since'[j] = MaxAge
                      /\ phase'[j] = "deleted" => since'[j] > Stuck + Retention
    BY DEF LiveRows
  <2> USE StuckAssumption, CleanupAssumption, MaxAgeAssumption
      DEF HkTypeOK, LiveRows
  <2>1. CASE Tick
    BY <2>1 DEF Tick, Later
  <2>2. CASE ReapTick
    BY <2>2 DEF ReapTick, Overdue
  <2>3. CASE CleanTick
    BY <2>3 DEF CleanTick, Expired
  <2>4. CASE Stop
    BY <2>4 DEF Stop
  <2>5. CASE Begin
    BY <2>5 DEF Begin
  <2>6. CASE \E k \in Timed : Claim(k)
    BY <2>6 DEF Claim
  <2>7. CASE \E k \in Timed : Verdict(k)
    BY <2>7 DEF Verdict
  <2>8. CASE UNCHANGED hkVars
    BY <2>8 DEF hkVars
  <2> QED BY <2>1, <2>2, <2>3, <2>4, <2>5, <2>6, <2>7, <2>8 DEF HkNext
<1>3. LiveRows => LiveJobKeepsRow
  BY DEF LiveRows, LiveJobKeepsRow
<1> QED BY <1>1, <1>2, <1>3, HkTypeCorrect, PTL DEF HkSpec

-----------------------------------------------------------------------------
(* The path of a row. *)

Watched(j) == IF phase[j] = "none" THEN "pending" ELSE phase[j]

OnPath == HkPath!Next \/ UNCHANGED [j \in Timed |-> Watched(j)]

\* A statement that takes the rows of S one move further, and leaves the others.
LEMMA PathStep ==
    ASSUME NEW S \in SUBSET Timed, NEW from, NEW to, <<from, to>> \in HkPath!Moves,
           \A j \in S : Watched(j) = from,
           \A j \in Timed : Watched(j)' = IF j \in S THEN to ELSE Watched(j)
    PROVE  OnPath
<1>. DEFINE m == <<from, to>>
<1>1. m[1] = from /\ m[2] = to
  OBVIOUS
<1>2. HkPath!Statement(S, m)
  BY <1>1 DEF HkPath!Statement, Watched
<1>. QED BY <1>2 DEF OnPath, HkPath!Next

\* One row moves, or none does.
LEMMA PathOne ==
    ASSUME phase \in [Timed -> {"none", "processing", "ended", "deleted"}],
           NEW j \in Timed, NEW p \in {"processing", "ended"},
           phase' = [phase EXCEPT ![j] = p],
           \/ phase[j] = p
           \/ <<Watched(j), p>> \in HkPath!Moves
    PROVE  OnPath
<1>1. \A k \in Timed : Watched(k)' = IF k \in {j} THEN p ELSE Watched(k)
  BY DEF Watched
<1>2. CASE <<Watched(j), p>> \in HkPath!Moves
  <2>1. {j} \in SUBSET Timed /\ \A k \in {j} : Watched(k) = Watched(j)
    OBVIOUS
  <2>2. PICK from : from = Watched(j)
    OBVIOUS
  <2>. QED BY <1>1, <1>2, <2>1, <2>2, PathStep
<1>3. CASE phase[j] = p
  <2>1. \A k \in Timed : Watched(k)' = Watched(k)
    BY <1>1, <1>3 DEF Watched
  <2>. QED BY <2>1 DEF OnPath
<1>. QED BY <1>2, <1>3

\* The reaper ends what is in processing, the cleanup deletes what has ended, and
\* the late verdict of a worker whose row was reaped ends it once more: whoever
\* comes first, no row goes back, and none is deleted before it has ended.
THEOREM HkRowsMoveOn == HkSpec => TimedRowsMoveOn
<1>1. HkInit => HkPath!Init
  BY DEF HkInit, HkPath!Init
<1>2. HkTypeOK /\ [HkNext]_hkVars => OnPath
  <2>. SUFFICES ASSUME HkTypeOK, [HkNext]_hkVars PROVE OnPath
    OBVIOUS
  <2>0. phase \in [Timed -> {"none", "processing", "ended", "deleted"}]
    BY DEF HkTypeOK
  <2>1. CASE UNCHANGED phase
    <3>1. \A k \in Timed : Watched(k)' = Watched(k)
      BY <2>1 DEF Watched
    <3>. QED BY <3>1 DEF OnPath
  <2>2. CASE phase' = [j \in Timed |-> IF Overdue(j) THEN "ended" ELSE phase[j]]
    <3>. PICK S \in SUBSET Timed : S = {j \in Timed : Overdue(j)}
      OBVIOUS
    <3>1. \A j \in S : Watched(j) = "processing"
      BY DEF Overdue, Watched
    <3>2. \A j \in Timed : Watched(j)' = IF j \in S THEN "ended" ELSE Watched(j)
      BY <2>2 DEF Watched
    <3>. QED BY <3>1, <3>2, PathStep DEF HkPath!Moves
  <2>3. CASE phase' = [j \in Timed |-> IF Expired(j) THEN "deleted" ELSE phase[j]]
    <3>. PICK S \in SUBSET Timed : S = {j \in Timed : Expired(j)}
      OBVIOUS
    <3>1. \A j \in S : Watched(j) = "ended"
      BY DEF Expired, Watched
    <3>2. \A j \in Timed : Watched(j)' = IF j \in S THEN "deleted" ELSE Watched(j)
      BY <2>3 DEF Watched
    <3>. QED BY <3>1, <3>2, PathStep DEF HkPath!Moves
  <2>4. ASSUME NEW j \in Timed, Claim(j)
        PROVE  OnPath
    <3>1. Watched(j) = "pending" /\ phase' = [phase EXCEPT ![j] = "processing"]
      BY <2>4 DEF Claim, Watched
    <3>2. <<Watched(j), "processing">> \in HkPath!Moves
      BY <3>1 DEF HkPath!Moves
    <3>. QED BY <2>0, <3>1, <3>2, PathOne
  <2>5. ASSUME NEW j \in Timed, Verdict(j), phase' # phase
        PROVE  OnPath
    <3>1. phase[j] # "deleted" /\ phase' = [phase EXCEPT ![j] = "ended"]
      BY <2>5 DEF Verdict
    <3>2. phase[j] = "ended" \/ <<Watched(j), "ended">> \in HkPath!Moves
      BY <2>0, <3>1 DEF Watched, HkPath!Moves
    <3>. QED BY <2>0, <3>1, <3>2, PathOne
  <2>. QED
    BY <2>1, <2>2, <2>3, <2>4, <2>5
       DEF HkNext, Tick, ReapTick, CleanTick, Stop, Begin, hkVars
<1>. QED
  BY <1>1, <1>2, HkTypeCorrect, PTL
     DEF HkSpec, TimedRowsMoveOn, HkPath!Spec, OnPath, Watched
=============================================================================
