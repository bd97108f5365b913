---------------------------- MODULE Housekeeping ----------------------------
(***************************************************************************)
(* The two loops that work by the clock: the reaper, whose ticker has the  *)
(* same period as the age it asks for, and the cleanup, which runs when    *)
(* the process starts and then every hour.  A clock ticks in steps; a loop *)
(* whose ticker is due runs before the clock goes on.  The ages of rows    *)
(* keep growing while the process is down, the tickers begin anew when it  *)
(* starts.  Ages are counted up to MaxAge and stay there.                  *)
(***************************************************************************)
EXTENDS Integers

CONSTANTS
    Timed,          \* the rows of download_jobs that are watched
    Stuck,          \* worker.stuck_job_minutes, in steps of the clock
    Hour,           \* the cleanup's period
    Retention,      \* cleanup.retention_hours
    MaxAge          \* bound on ages

ASSUME StuckAssumption == Stuck \in Nat \ {0}

ASSUME CleanupAssumption == Hour \in Nat \ {0} /\ Retention \in Nat

ASSUME MaxAgeAssumption ==
    MaxAge \in Nat /\ MaxAge > 2 * Stuck /\ MaxAge > Retention + Hour
    /\ MaxAge > Stuck + Retention

VARIABLES
    alive,      \* the process runs
    reapIn,     \* time until the reaper's ticker fires
    cleanIn,    \* time until the cleanup runs
    reapCalm,   \* time since the process started or a statement of the reaper failed
    cleanCalm,  \* time since a statement of the cleanup failed
    phase,      \* per row: "none", "processing", "ended" or "deleted"
    age,        \* per row: time since started_at, or since finished_at
    since,      \* per row: time since the claim
    live        \* rows with a worker that still works on them

hkVars == <<alive, reapIn, cleanIn, reapCalm, cleanCalm, phase, age, since, live>>

HkTypeOK ==
    /\ alive \in BOOLEAN
    /\ reapIn \in 0..Stuck /\ cleanIn \in 0..Hour
    /\ reapCalm \in 0..MaxAge /\ cleanCalm \in 0..MaxAge
    /\ phase \in [Timed -> {"none", "processing", "ended", "deleted"}]
    /\ age \in [Timed -> 0..MaxAge] /\ since \in [Timed -> 0..MaxAge]
    /\ live \subseteq Timed

HkInit ==
    /\ alive = TRUE
    /\ reapIn = Stuck /\ cleanIn = 0
    /\ reapCalm = 0 /\ cleanCalm = MaxAge
    /\ phase = [j \in Timed |-> "none"]
    /\ age = [j \in Timed |-> 0] /\ since = [j \in Timed |-> 0]
    /\ live = {}

-----------------------------------------------------------------------------
(* The clock. *)

Later(n) == IF n = MaxAge THEN n ELSE n + 1

Tick ==
    /\ alive => reapIn > 0 /\ cleanIn > 0
    /\ IF alive
       THEN reapIn' = reapIn - 1 /\ cleanIn' = cleanIn - 1
       ELSE UNCHANGED <<reapIn, cleanIn>>
    /\ reapCalm' = Later(reapCalm) /\ cleanCalm' = Later(cleanCalm)
    /\ age' = [j \in Timed |-> Later(age[j])]
    /\ since' = [j \in Timed |-> Later(since[j])]
    /\ UNCHANGED <<alive, phase, live>>

-----------------------------------------------------------------------------
(* The loops. *)

\* Slip: started_at is compared with twice the age.
OverdueTwice(j) == phase[j] = "processing" /\ age[j] > 2 * Stuck

\* where status = 'processing' and started_at < now() - stuckMinutes
Overdue(j) == phase[j] = "processing" /\ age[j] > Stuck

\* The statement takes effect, or fails and the loop waits for the next tick.
\* A worker that is alive goes on: it does not look at its row.
ReapTick ==
    /\ alive /\ reapIn = 0
    /\ reapIn' = Stuck
    /\ \/ /\ phase' = [j \in Timed |-> IF Overdue(j) THEN "ended" ELSE phase[j]]
          /\ age' = [j \in Timed |-> IF Overdue(j) THEN 0 ELSE age[j]]
          /\ UNCHANGED reapCalm
       \/ reapCalm' = 0 /\ UNCHANGED <<phase, age>>
    /\ UNCHANGED <<alive, cleanIn, cleanCalm, since, live>>

\* Slip: the cleanup forgets which status it may delete.
ExpiredAny(j) == phase[j] \in {"processing", "ended"} /\ age[j] > Retention

\* where status in (...) and finished_at < now() - retentionHours
Expired(j) == phase[j] = "ended" /\ age[j] > Retention

\* Slip: the first cleanup waits for the ticker.
StartCleanupLate == Hour

StartCleanup == 0

CleanTick ==
    /\ alive /\ cleanIn = 0
    /\ cleanIn' = Hour
    /\ \/ /\ phase' = [j \in Timed |-> IF Expired(j) THEN "deleted" ELSE phase[j]]
          /\ UNCHANGED cleanCalm
       \/ cleanCalm' = 0 /\ UNCHANGED phase
    /\ UNCHANGED <<alive, reapIn, reapCalm, age, since, live>>

-----------------------------------------------------------------------------
(* Jobs and the process. *)

Claim(j) ==
    /\ alive
    /\ phase[j] = "none"
    /\ phase' = [phase EXCEPT ![j] = "processing"]
    /\ age' = [age EXCEPT ![j] = 0]
    /\ since' = [since EXCEPT ![j] = 0]
    /\ live' = live \cup {j}
    /\ UNCHANGED <<alive, reapIn, cleanIn, reapCalm, cleanCalm>>

\* The worker's verdict, by primary key: it also overwrites the reaper's, with
\* a new finished_at, and finds nothing if the row is gone.
Verdict(j) ==
    /\ alive
    /\ j \in live
    /\ live' = live \ {j}
    /\ \/ /\ phase[j] # "deleted"
          /\ phase' = [phase EXCEPT ![j] = "ended"]
          /\ age' = [age EXCEPT ![j] = 0]
       \/ UNCHANGED <<phase, age>>
    /\ UNCHANGED <<alive, reapIn, cleanIn, reapCalm, cleanCalm, since>>

\* Crash, kill or forced exit: the workers are gone, their rows stay.
Stop ==
    /\ alive
    /\ alive' = FALSE
    /\ live' = {}
    /\ UNCHANGED <<reapIn, cleanIn, reapCalm, cleanCalm, phase, age, since>>

\* Slip: the reaper's ticker is set on top of what was left of the old one.
BeginSummed ==
    /\ ~alive
    /\ alive' = TRUE
    /\ reapIn' = reapIn + Stuck /\ cleanIn' = StartCleanup
    /\ reapCalm' = 0
    /\ UNCHANGED <<cleanCalm, phase, age, since, live>>

\* The loops begin: the reaper waits for its first tick, the cleanup does not.
Begin ==
    /\ ~alive
    /\ alive' = TRUE
    /\ reapIn' = Stuck /\ cleanIn' = StartCleanup
    /\ reapCalm' = 0
    /\ UNCHANGED <<cleanCalm, phase, age, since, live>>

HkNext ==
    \/ Tick \/ ReapTick \/ CleanTick \/ Stop \/ Begin
    \/ \E j \in Timed : Claim(j) \/ Verdict(j)

HkSpec == HkInit /\ [][HkNext]_hkVars

HkPath == INSTANCE RowPath WITH
              JobId <- Timed,
              at <- [j \in Timed |-> IF phase[j] = "none" THEN "pending"
                                    ELSE phase[j]]

\* The reaper, the cleanup and the worker that still works on a row all write to
\* it, and none of them takes it back: a late verdict does not bring a row back
\* that was deleted, and a row in processing is not deleted.
TimedRowsMoveOn == HkPath!Spec

-----------------------------------------------------------------------------
(* Safety. *)

\* A job is reaped within two periods of the reaper, not one: the ticker may
\* fire just before the job is old enough.  A row that is still in processing
\* after that is there because the process was down, or a statement of the
\* reaper failed, during the last period.  reaper.Loop with ReapStuckJobs.
ReapedInTime ==
    alive => \A j \in Timed :
        phase[j] = "processing" /\ age[j] > 2 * Stuck => reapCalm <= Stuck

\* An ended job is forgotten within the retention and one hour, and restarts do
\* not put this off: the cleanup does not wait for its ticker when the process
\* starts.  A row that is still there is about to be deleted, or a statement of
\* the cleanup failed during the last hour.
ForgottenInTime ==
    alive => \A j \in Timed :
        phase[j] = "ended" /\ age[j] > Retention + Hour =>
            cleanIn = 0 \/ cleanCalm <= Hour

\* A download that goes on finds its row when it ends, unless it took longer
\* than the stuck age and the retention together: it takes the reaper and then
\* the cleanup to remove the row of a job that still runs.
LiveJobKeepsRow ==
    \A j \in live : phase[j] = "deleted" => since[j] > Stuck + Retention
=============================================================================
