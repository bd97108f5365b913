---------------------------- MODULE SchemaStart -----------------------------
(***************************************************************************)
(* What main does to the database before anything else runs: migrate.Up,   *)
(* EnsureSchema, EnsurePreferencesTable.  Every statement commits by       *)
(* itself, except that a migration and its record are one transaction.     *)
(* Processes may overlap (an update of the container starts the new one    *)
(* before the old one is gone), each may end at any statement, with an     *)
(* error and os.Exit(1) or by a crash, and is started again.  The database *)
(* may have been made by an earlier release, whose download_jobs lacked    *)
(* the columns that EnsureSchema adds.                                     *)
(***************************************************************************)
EXTENDS Naturals, Sequences

CONSTANT Proc       \* the processes of the bot

VARIABLES
    table,      \* tables that exist
    column,     \* those of download_jobs' later columns that exist
    index,      \* idx_download_jobs_status_priority_created_at exists
    recorded,   \* schema_migrations has the version 000001_init
    boot        \* per process: its place in Startup

ssVars == <<table, column, index, recorded, boot>>

\* The statements of main in their order; a number in boot says which is next.
Startup == <<"down", "schema_migrations", "check", "apply", "download_jobs",
             "progress_text", "progress_percent", "priority", "index",
             "banned_users", "user_preferences", "serving">>

Column == {"progress_text", "progress_percent", "priority"}

At(p, s) == Startup[boot[p]] = s

Proceed(p) == boot' = [boot EXCEPT ![p] = @ + 1]

Exit(p) == boot' = [boot EXCEPT ![p] = 1]

(***************************************************************************)
(* An empty database, one without records (made by EnsureSchema before     *)
(* there were migrations), or one with, by a release whose 000001_init may *)
(* have lacked what later ones have.  An index over a column needs it.     *)
(***************************************************************************)
SsInit ==
    /\ boot = [p \in Proc |-> 1]
    /\ recorded \in BOOLEAN /\ index \in BOOLEAN
    /\ column \in SUBSET Column
    /\ table \in {{}, {"download_jobs"}, {"download_jobs", "schema_migrations"}}
    /\ "download_jobs" \notin table => column = {} /\ ~index
    /\ index => "priority" \in column
    /\ recorded => "schema_migrations" \in table

-----------------------------------------------------------------------------
Boot(p) == At(p, "down") /\ Proceed(p) /\ UNCHANGED <<table, column, index, recorded>>

\* A table that migrate.Up cannot put its index on.
Misses == "download_jobs" \in table /\ "priority" \notin column

\* The migration fails on the column its index needs, or its record on the one
\* another process was first to insert.
MustFail(p) == At(p, "apply") /\ (Misses \/ recorded)

ApplyFails(p) == MustFail(p) /\ Exit(p) /\ UNCHANGED <<table, column, index, recorded>>

\* An error that need not have been, of any statement, or a crash, also of a
\* process that serves.
End(p) ==
    /\ ~At(p, "down") /\ ~MustFail(p)
    /\ Exit(p)
    /\ UNCHANGED <<table, column, index, recorded>>

\* create table if not exists
CreateTable(p) ==
    /\ \E t \in {"schema_migrations", "banned_users", "user_preferences"} :
          At(p, t) /\ table' = table \cup {t}
    /\ Proceed(p)
    /\ UNCHANGED <<column, index, recorded>>

\* Slip: the migration is tried at every start.
CheckNever(p) ==
    /\ At(p, "check") /\ Proceed(p)
    /\ UNCHANGED <<table, column, index, recorded>>

\* select exists(...), outside the transaction: past it, the answer may be old.
Check(p) ==
    /\ At(p, "check")
    /\ boot' = [boot EXCEPT ![p] = IF recorded THEN @ + 2 ELSE @ + 1]
    /\ UNCHANGED <<table, column, index, recorded>>

\* A download_jobs that is created has every column.
CreateJobs ==
    /\ table' = table \cup {"download_jobs"}
    /\ column' = IF "download_jobs" \in table THEN column ELSE Column

\* Slip: a migration that fails is logged and the start goes on.
ApplyLogged(p) ==
    /\ At(p, "apply")
    /\ IF ~recorded /\ "priority" \in column
       THEN CreateJobs /\ index' = TRUE /\ recorded' = TRUE
       ELSE UNCHANGED <<table, column, index, recorded>>
    /\ Proceed(p)

\* 000001_init and its record, in one transaction.
Apply(p) ==
    /\ At(p, "apply") /\ ~MustFail(p)
    /\ CreateJobs
    /\ index' = TRUE
    /\ recorded' = TRUE
    /\ Proceed(p)

EnsureJobs(p) ==
    At(p, "download_jobs") /\ CreateJobs /\ Proceed(p) /\ UNCHANGED <<index, recorded>>

\* Slip: the columns of the first release that had them are taken for granted.
AddColumnPriorityOnly(p) ==
    /\ \E c \in Column :
          At(p, c) /\ column' = IF c = "priority" THEN column \cup {c} ELSE column
    /\ Proceed(p)
    /\ UNCHANGED <<table, index, recorded>>

\* alter table download_jobs add column if not exists
AddColumn(p) ==
    /\ \E c \in Column : At(p, c) /\ column' = column \cup {c}
    /\ Proceed(p)
    /\ UNCHANGED <<table, index, recorded>>

EnsureIndex(p) ==
    /\ At(p, "index")
    /\ "priority" \in column
    /\ index' = TRUE
    /\ Proceed(p)
    /\ UNCHANGED <<table, column, recorded>>

\* The next statement of a start, and what it comes to by itself.
Statement(p) ==
    \/ CreateTable(p) \/ Check(p) \/ Apply(p) \/ ApplyFails(p)
    \/ EnsureJobs(p) \/ AddColumn(p) \/ EnsureIndex(p)

SsNext == \E p \in Proc : Boot(p) \/ Statement(p) \/ End(p)

SsSpec == SsInit /\ [][SsNext]_ssVars

\* A start goes on to its next statement, and a process that ended is started
\* again ("restart: unless-stopped" in compose.yaml).
SsFairSpec ==
    SsSpec /\ \A p \in Proc : WF_ssVars(Boot(p)) /\ WF_ssVars(Statement(p))

-----------------------------------------------------------------------------
(* Safety. *)

\* A process serves only on a database that has every table, column and index
\* its statements use, whatever release made it, wherever earlier starts broke
\* off, and whichever other process was at work.  main up to "schema ready".
ServingIsComplete ==
    (\E p \in Proc : At(p, "serving")) =>
        /\ table = {"schema_migrations", "download_jobs", "banned_users",
                    "user_preferences"}
        /\ column = Column /\ index /\ recorded

\* A database of a release that had neither migrations nor the column priority.
\* migrate.Up fails on it at every start, and EnsureSchema, which would repair it,
\* comes after.
Doomed == Misses /\ ~recorded

\* Whether a database can be started on is decided by the release that made it.
\* No start repairs a doomed one; none dooms another, wherever it breaks off and
\* whoever else is at work.  migrate.Up before EnsureSchema, in main.
StartDecidedByRelease == [][Doomed' = Doomed]_ssVars

-----------------------------------------------------------------------------
(* Liveness. *)

\* From some point on no process crashes and no statement fails for a reason of
\* its own.
Calm == <>[][\A p \in Proc : ~End(p)]_ssVars

\* On a database that is not doomed every start then gets to serving, also one
\* that lost the race for the migration: it fails once, and finds the record when
\* it is started again.  migrate.Up and main.
StartsSucceed ==
    Calm => \A p \in Proc :
                (~Doomed /\ At(p, "schema_migrations")) ~> At(p, "serving")
=============================================================================
