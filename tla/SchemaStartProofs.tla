------------------------- MODULE SchemaStartProofs --------------------------
(***************************************************************************)
(* What a process may rely on once its start has come to the end, for any  *)
(* number of processes that start, fail and start again.                   *)
(***************************************************************************)
EXTENDS SchemaStart, TLAPS

Tables == {"schema_migrations", "download_jobs", "banned_users", "user_preferences"}

SsTypeOK ==
    /\ boot \in [Proc -> 1..12]
    /\ table \subseteq Tables
    /\ column \subseteq Column

\* Each statement has its place, and no other has it.
LEMMA Places ==
    ASSUME NEW n \in 1..12
    PROVE  /\ Startup[n] = "down" <=> n = 1
           /\ Startup[n] = "schema_migrations" <=> n = 2
           /\ Startup[n] = "check" <=> n = 3
           /\ Startup[n] = "apply" <=> n = 4
           /\ Startup[n] = "download_jobs" <=> n = 5
           /\ Startup[n] = "progress_text" <=> n = 6
           /\ Startup[n] = "progress_percent" <=> n = 7
           /\ Startup[n] = "priority" <=> n = 8
           /\ Startup[n] = "index" <=> n = 9
           /\ Startup[n] = "banned_users" <=> n = 10
           /\ Startup[n] = "user_preferences" <=> n = 11
           /\ Startup[n] = "serving" <=> n = 12
BY DEF Startup

\* What the statements a process has behind it have left in the database.
\* Nothing takes it away again, so it does not matter who put it there.
Passed(n) ==
    /\ n > 2 => "schema_migrations" \in table
    /\ n > 4 => recorded
    /\ n > 5 => "download_jobs" \in table
    /\ n > 6 => "progress_text" \in column
    /\ n > 7 => "progress_percent" \in column
    /\ n > 8 => "priority" \in column
    /\ n > 9 => index
    /\ n > 10 => "banned_users" \in table
    /\ n > 11 => "user_preferences" \in table

StartInv ==
    /\ SsTypeOK
    /\ \A p \in Proc : Passed(boot[p])

-----------------------------------------------------------------------------
LEMMA StartInit == SsInit => StartInv
BY DEF SsInit, StartInv, SsTypeOK, Passed, Tables

\* A step of p takes nothing from the database and leaves the others alone.
LEMMA StartStep ==
    ASSUME StartInv, NEW p \in Proc,
           boot' \in [Proc -> 1..12],
           \A q \in Proc \ {p} : boot'[q] = boot[q],
           table \subseteq table', table' \subseteq Tables,
           column \subseteq column', column' \subseteq Column,
           recorded => recorded', index => index',
           Passed(boot[p])'
    PROVE  StartInv'
<1>1. ASSUME NEW q \in Proc \ {p} PROVE Passed(boot[q])'
  BY <1>1 DEF StartInv, Passed
<1> QED BY <1>1 DEF StartInv, SsTypeOK

LEMMA StartNext == StartInv /\ [SsNext]_ssVars => StartInv'
<1> SUFFICES ASSUME StartInv, [SsNext]_ssVars PROVE StartInv'
  OBVIOUS
<1>1. CASE UNCHANGED ssVars
  BY <1>1 DEF ssVars, StartInv, SsTypeOK, Passed
<1>2. CASE SsNext
  <2> PICK p \in Proc :
        \/ Boot(p) \/ End(p) \/ CreateTable(p) \/ Check(p) \/ Apply(p)
        \/ ApplyFails(p) \/ EnsureJobs(p) \/ AddColumn(p) \/ EnsureIndex(p)
    BY <1>2 DEF SsNext, Statement
  <2> DEFINE n == boot[p]
  <2>1. n \in 1..12 /\ boot \in [Proc -> 1..12] /\ Passed(n)
    BY DEF StartInv, SsTypeOK
  <2> USE <2>1, Places DEF At, Proceed, Exit, Passed, StartInv, SsTypeOK, Tables, Column
  <2>2. CASE Boot(p)
    BY <2>2, StartStep DEF Boot
  <2>3. ASSUME Exit(p), UNCHANGED <<table, column, index, recorded>> PROVE StartInv'
    BY <2>3, StartStep
  <2>4. CASE CreateTable(p)
    BY <2>4, StartStep DEF CreateTable
  <2>5. CASE Check(p)
    BY <2>5, StartStep DEF Check
  <2>6. CASE Apply(p)
    BY <2>6, StartStep DEF Apply, MustFail, Misses, CreateJobs
  <2>7. CASE EnsureJobs(p)
    BY <2>7, StartStep DEF EnsureJobs, CreateJobs
  <2>8. CASE AddColumn(p)
    BY <2>8, StartStep DEF AddColumn
  <2>9. CASE EnsureIndex(p)
    BY <2>9, StartStep DEF EnsureIndex
  <2> QED
    BY <2>2, <2>3, <2>4, <2>5, <2>6, <2>7, <2>8, <2>9 DEF End, ApplyFails
<1> QED BY <1>1, <1>2

-----------------------------------------------------------------------------
\* A process that serves has found or made every table, column and index, also
\* on a database of an earlier release and after starts that broke off.
\* main up to "schema ready".
THEOREM ServesOnCompleteSchema == SsSpec => []ServingIsComplete
<1>1. ASSUME StartInv, NEW p \in Proc, At(p, "serving")
      PROVE  /\ table = {"schema_migrations", "download_jobs", "banned_users",
                        "user_preferences"}
             /\ column = Column /\ index /\ recorded
  <2>1. boot[p] \in 1..12 /\ table \subseteq Tables /\ column \subseteq Column
    BY <1>1 DEF StartInv, SsTypeOK
  <2>2. boot[p] = 12
    BY <1>1, <2>1, Places DEF At
  <2>3. Passed(12)
    BY <1>1, <2>2 DEF StartInv
  <2>4. index /\ recorded
    BY <2>3 DEF Passed
  <2>5. /\ "schema_migrations" \in table /\ "download_jobs" \in table
        /\ "banned_users" \in table /\ "user_preferences" \in table
        /\ "progress_text" \in column /\ "progress_percent" \in column
        /\ "priority" \in column
    BY <2>3 DEF Passed
  <2>6. column = Column
    BY <2>1, <2>5 DEF Column
  <2>7. table = {"schema_migrations", "download_jobs", "banned_users",
                 "user_preferences"}
    BY <2>1, <2>5 DEF Tables
  <2> QED BY <2>4, <2>6, <2>7
<1>2. StartInv => ServingIsComplete
  BY <1>1 DEF ServingIsComplete
<1> QED BY <1>2, StartInit, StartNext, PTL DEF SsSpec

\* No start, for any number of processes that overlap and break off anywhere,
\* makes a database unfit to be started on or repairs one that is unfit: past the
\* migration every process has a record behind it, and before it nothing but the
\* migration creates download_jobs or its columns.  migrate.Up, EnsureSchema.
THEOREM StartsDecideNothing == SsSpec => StartDecidedByRelease
<1>1. ASSUME StartInv, [SsNext]_ssVars PROVE Doomed' = Doomed
  <2> USE DEF Doomed, Misses
  <2>1. CASE UNCHANGED <<table, column, recorded>>
    BY <2>1
  <2>2. ASSUME NEW p \in Proc, Apply(p) PROVE Doomed' = Doomed
    <3>1. ~Misses /\ ~recorded
      BY <2>2 DEF Apply, MustFail
    <3>2. recorded'
      BY <2>2 DEF Apply
    <3> QED BY <3>1, <3>2
  <2>3. ASSUME NEW p \in Proc, EnsureJobs(p) \/ AddColumn(p)
        PROVE  Doomed' = Doomed
    <3>1. boot[p] \in 1..12 /\ Passed(boot[p])
      BY <1>1 DEF StartInv, SsTypeOK
    <3>2. boot[p] > 4
      BY <2>3, <3>1, Places DEF EnsureJobs, AddColumn, At, Column
    <3>3. recorded
      BY <3>1, <3>2 DEF Passed
    <3>4. recorded'
      BY <2>3, <3>3 DEF EnsureJobs, AddColumn
    <3> QED BY <3>3, <3>4
  <2>4. ASSUME NEW p \in Proc, CreateTable(p) PROVE Doomed' = Doomed
    BY <2>4 DEF CreateTable
  <2> QED
    BY <1>1, <2>1, <2>2, <2>3, <2>4
       DEF SsNext, Statement, Boot, End, Check, Apply, ApplyFails, EnsureIndex, ssVars
<1> QED BY <1>1, StartInit, StartNext, PTL DEF SsSpec, StartDecidedByRelease
=============================================================================
