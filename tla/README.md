# Verification of downly

downly is a Telegram bot that downloads media with yt-dlp. A message becomes a
row of the Postgres table `download_jobs`; worker goroutines claim rows, run
yt-dlp, send the file and write the verdict. Everything that is hard about it
lies in the fact that the row, the worker, yt-dlp, Telegram and the user's
commands move independently and any of them can fail between two steps.

This directory holds TLA+ models of that program, TLC configurations that check
them on small instances, and proofs checked by TLAPS.

## 1. The system

| Part | Code | State | Operations | Correct when |
|---|---|---|---|---|
| Job table | `internal/db/jobs.go`, `migrate/sql` | rows of `download_jobs` | insert, claim, mark done / retry / failed / canceled, cancel pending, priority, progress, reap, delete | status, timestamps and progress text of a row agree; a verdict stands |
| Worker loop | `internal/worker/worker.go` | its place in the loop, the job in hand, the job's context | poll, claim, register, download, release, decide, upload, mark | a job is in one worker's hands, is delivered at most once, is settled truthfully |
| Cancel controller | `internal/worker/control.go` | map job -> cancel function | Register, Unregister, Cancel | the map holds exactly the running downloads |
| Downloader | `internal/downloader/ytdlp.go` | yt-dlp process, two pipes, two readers, the job's directory | metadata, download by quality, image fallback, find the file | returns when cancelled, returns the file of the attempt that succeeded, leaves nothing running |
| Submission | `internal/telegram/bot.go` | `lastSubmit`, `banned_users` | ban check, rate limit, quota, queue limits, insert, playlists | the limits hold, as far as they can |
| Job commands | `internal/telegram/bot.go` | none | `/cancel`, `/promote`, `/demote` | a cancel hits the right job, and no delivered one |
| Reaper | `internal/reaper` | ticker | fail rows long in processing | no claimed row stays for ever |
| Cleanup | `internal/cleanup` | ticker | delete old terminal rows | deletes nothing that is still counted |
| Process | `cmd/downly/main.go` | root context | start, signal, wait, deadline | the shutdown ends |
| Queue positions, pool | `internal/db/jobs.go`, `bot.go` | connections of the pool | count positions for an acknowledgement, list jobs with positions | positions agree with the order of the claims; the pool does not run dry |
| Modes | `bot.go`, `worker.go` | `user_preferences`, the prefix in the `url` column | `/setquality`, `/mp3`, `/quality`, typed prefixes, inline results, `parseJobURL` | the worker downloads what was asked for |
| Start | `cmd/downly/main.go`, `internal/migrate`, `db/jobs.go` | tables, columns, `schema_migrations` | `migrate.Up`, `EnsureSchema`, `EnsurePreferencesTable` | a process that serves has its whole schema; starts come to serve |
| Updater, statistics, health, configuration, logging, broadcast | the rest | none that the above reads | | not modelled, see section 8 |

How they interact. Workers, handlers, reaper and cleanup share only the table;
there is no lock but the row lock of `ClaimJob`. `/cancel` reaches a worker
through the controller's map: a cancel function is looked up under a mutex and
called after it. The job's context derives from the root context, so both a
`/cancel` and a signal end yt-dlp. The bot library runs every handler in a
goroutine of its own. Progress comes from the readers of yt-dlp's pipes.

Hard behaviour: claims racing each other and `/cancel`; statements whose errors
are dropped (`_ = db.Mark...`); answers lost after their effect (a commit, a
media message); crashes with jobs in hand; the reaper failing a row whose worker
is alive; checks that are separate statements from the inserts they guard; positions counted while the queue moves; handlers that
hold a connection and wait for another; tickers against the ages they look for; starts that break off or overlap; pipes
closed under their readers; a context canceled before it is asked why.
`PROJECT.json` lists each hazard at its line with the properties that cover it.

## 2. Modules

| Module | Models | Uses |
|---|---|---|
| `JobTable` | rows, what each statement writes, which rows it selects | |
| `JobLifecycle` | workers, controller, `/cancel`, priorities, reaper, cleanup, process | EXTENDS `JobTable`, INSTANCE `JobPromise`, `RowPath` |
| `JobPromise` | abstract: what is promised about a job | |
| `RowPath` | abstract: the way of a row, whoever writes to it | |
| `Downloader` | the inside of one download | INSTANCE `DownloadPromise` |
| `DownloadPromise` | abstract: what a worker may rely on when it runs a download | |
| `Admission` | submission handlers, bans, quotas | INSTANCE `RowPath` |
| `QueueView` | what users are told of the queue, the pool of connections | EXTENDS `JobTable`, INSTANCE `RowPath` |
| `Housekeeping` | reaper and cleanup by the clock | INSTANCE `RowPath` |
| `LinkModes` | modes of downloads, from the handler to the worker | |
| `SchemaStart` | the statements of a start | |
| `JobLifecycleProofs`, `JobRefinementProofs` | theorems about `JobLifecycle` | EXTENDS it and `TLAPS` |
| `DownloaderProofs` | theorems about `Downloader` | EXTENDS it and `TLAPS` |
| `AdmissionProofs`, `QueueViewProofs`, `HousekeepingProofs`, `LinkModesProofs`, `SchemaStartProofs` | the same for the other modules | EXTENDS each its own and `TLAPS` |
| `MCJobLifecycle`, `MCAdmission`, `MCQueueView` | values of the constants for TLC | |
| `MCServices` | `QueueView`, `Housekeeping`, `LinkModes` and `SchemaStart` in one run | EXTENDS the four |

Operators whose comment begins with "Slip" are the forms a plausible bug would
give the definition that follows them; no specification uses them. Substituting one for
its neighbour must break a property, which shows that the property sees that code.

### JobTable and JobLifecycle

One row is a record of the columns the program decides on. Time is abstracted to
"set or null" for `started_at` and `finished_at`; a row in processing may be old
enough for the reaper, and a terminal one for the cleanup, at any moment. Progress
texts are classes: every text written while a worker is busy is `"Active"`.

A worker's `pc` is its place in `worker.Loop` between two effects:

| `pc` | code in worker.go | actions that leave it |
|---|---|---|
| poll | 27-44 | `ClaimSelect`, `LoopExit` |
| claiming | inside `ClaimJob`, row locked | `ClaimCommit`, `ClaimAbort`, `ClaimLost` |
| claimed | 46-47 | `Register` |
| downloading | 50-88 | `Progress`, `DownloadOk`, `DownloadErr` |
| returnedOk, returnedErr | 89-90 | `Release` |
| errored | 92-110 | `HandleError` |
| inspect | 112-131 | `FailJob`, `StartUpload` |
| uploading | 133-144 | `FailJob` (open), `SendOk`, `SendErr` |
| sent, sendFailed | 145-158 | `MarkDone`, `FailJob` |

`TryUpdate` is a statement whose error is dropped: it may change nothing, and
changes nothing once the root context is done. (A statement cut off by a signal
after Postgres has executed it is the same as the statement followed by the signal.)
`ClaimLost` is a commit whose answer is lost; `SendErr` may have delivered.
`handleCancel` is four actions: `CancelPending`, `CheckOwner`, and `Lookup` and
`CallCancel` for the two halves of `Controller.Cancel`. `Crash` is enabled in
every state in which the process runs and also stands for the two-minute deadline.
Nothing at start looks at rows left in processing, so `Start` does not either.

`delivered` and `asked` are history: messages delivered per job, and jobs whose owner was
told that cancellation was requested.

`Created` gives the `created_at` of the row an id gets. It is `now()` and not unique, the queue's
`order by` has nothing after it, and an insert that overlaps another may draw the later id and have the
earlier time; so it is a constant of which no order is assumed. Rows of the same priority and time
stand level (`Before` holds neither way), and a statement may return any of them first.

Abstractions. `ClaimSelect` picks a row that no other claimable one is before, in
one step; a priority that changes while the statement runs may make Postgres
return the row that was first a moment ago, and no property here depends on the
order of claims (`QueueView`, where one does, splits the statement). Telegram texts other than the media are left out.

### Downloader

The worker's goroutine (`step`), the two `readPipe` goroutines (`reader`), the
external call in flight (`proc`: yt-dlp or the HTTP request) and the canceler
interleave. `pipe` holds the lines written and not read. `WaitOver` closes the pipes as
soon as yt-dlp has exited: unread lines are gone, as in `cmd.Wait`, unless the scanner
has them in its buffer. A line `"long"` does not fit into a `bufio.Scanner`: the reader
gives up, and a yt-dlp that has more to say is `Stuck` until the job is cancelled. `files` is the job's
directory; a file knows which attempt (`rung` of the `chain`) made it.
yt-dlp itself is external: it writes lines until it has written what it had to
(blocking on a full pipe), exits either way, leaves complete or partial files, or hangs.
Assumed of it: a run that says there is no video fails and has not begun to
download; of the operating system: `cleanJobDir` can remove the files it lists, and the signal that
ends yt-dlp ends what yt-dlp has started too. A grandchild (ffmpeg) that lives on would keep the pipes
open, and `cmd.Wait` with them; `CancelStopsDownload` says nothing of that.

`JobLifecycle` sees a download as three steps (`Progress`, `DownloadOk`, `DownloadErr`). What
that rests on is stated here: `KeepsDownloadPromise`, and that a done context makes the download return
(`CancelStopsDownload`).

### Admission

A handler goes through the steps of `RegisterHandlers` and `queueURL`: ban, rate,
then for every URL the daily count, the queued count, the running count,
the acknowledgement and the insert, each a step of its own because each is a
statement or a request. Messages, buttons, inline results and `/mp3` do the same
checks in the same order and are one kind; a playlist looks at the quota once
more before each entry.
`hot` (users in their cooldown) and `recent` (ids of the last 24 hours) abstract
the clocks. After its insert a row only moves on (`Claim`, `End`, `Cleanup`); that it
never returns to pending is a consequence of the behaviour `doc_retry` shows.
`RetentionHours` is the cleanup's; `config.go` (118-120) takes every value above 0. From 24 on a row that is
deleted is older than the day the quota looks back on. Below, `Cleanup` deletes rows that still
count, a user gets room for more, and `Submitted` is what is left: the same bound, on less.
Any read of a handler may fail; its result is then zero or false, the handler goes on, and
is `blind` from there on. The bounds are about handlers whose reads succeed,
and hold whatever the blind ones add.

Three things the module shows by its shape rather than by a run. `max_concurrent_per_user` is
compared when a URL is submitted and not when a worker claims (`Claim` does not ask), so
jobs that were queued earlier run in parallel beyond it. The cooldown is asked once per
update, so all the URLs of a message, or the entries of a playlist, are queued
under one. And the ban check fails open (`StepBlind` in `CheckBan`).

### QueueView

Two handlers tell positions. `queueURL` inserts, then `GetQueueStats` runs three counts
(`CountAhead`, `CountActive`, `CountMine`); `/queue` lists the user's rows and asks a
position for each pending one (`AskPosition`). Every count is a step, and workers,
other handlers, cancels and `/promote` come in between. The claim's select is two steps:
`ClaimScan` takes a snapshot and its order, `ClaimSelect` locks the first of it that is
still pending and free (`for update skip locked`). An id is drawn when the insert begins
(`InsertBegin`) and the row is seen when it commits, so an older job can appear later.
`created_at` is `Created`, as in `JobTable`: the snapshot orders two level rows neither way, and the select may
lock either.

`promise` follows one position that was told, whichever, for as long as its job waits:
`passed` are the jobs selected meanwhile, `jumped` those that the position could not know of: they got in front
by a later step of somebody else, or they are level with the job. `Taken` is the pool: who holds a
connection over several steps. A statement that takes one and gives it back needs a free one
in its step. `Starved` is a pool without a free connection in which nobody who has one can come to
his end without another. The code bounds neither side of it: handlers are goroutines of the bot
library, and pgx's pool has 4 connections, or one per CPU when there are more, since main configures none.

### Housekeeping

A clock in steps (`Tick`), the reaper's ticker (`reapIn`) with the very period the age is compared
with, and the cleanup's (`cleanIn`). A loop that is due runs before the clock goes on, and a
statement takes no time. `age` is the time since `started_at` or `finished_at`, `since` the time since the
claim, both counted to `MaxAge`, which is beyond every sum they are compared with. `Stop` and
`Begin` are an end of the process and the next start: ages go on, tickers begin anew.
A statement may fail; `reapCalm` and `cleanCalm` remember how long ago. Cleanup is taken to be
enabled. `Verdict` does not tell done, failed and canceled apart, and rows are
never queued again (`doc_retry`).

### LinkModes

A text is the sequence of its mode prefixes and what follows them, so that `stripModePrefix`, `extractURLs`,
`normalizeURL`, what `RegisterHandlers` does with a preference, and `parseJobURL` are functions on texts. A message has two words
out of six kinds (links with and without scheme, with one prefix or two, and a word that
is none). `/setquality` is three steps per tap (`TapBegin`, `TapSave`, `TapShow`), taps overlap, and each
save or edit may fail. `asked` is history: the modes that would be right for a job. For a
link without a prefix that is any preference in force while the link was handled, or the
default when the read fails, as `GetUserQuality` has it. For an entry of a playlist it is the preference
in force or last shown as saved, since the bot says that all downloads use it; the code puts none in
front of such a link, so `ModeHonoured` asks only that its URL is clean, and the mode is the matter of `doc_playlist_mode`.

### SchemaStart

`Startup` lists the statements of a start; `boot` is each process's place. `Apply` is the
transaction of a migration with its record. `End` is an error or a crash at any statement, and
of a process that serves; `ApplyFails` is the one error that must come, of a migration whose index lacks its column or
whose version another process has recorded since `Check`. The database may be empty, made by `EnsureSchema` before there were
migrations, or of a later release, with any of the later columns missing.

What a start comes to is a matter of order. `migrate.Up` runs first and its index needs the column
`priority`; `EnsureSchema`, which would add the column, comes after. `Doomed` is a database that lacks both
the column and the record of the migration: every start on it fails, before the repair.
`StartDecidedByRelease` says that no start changes whether a database is doomed, however starts interleave and
break off, so the release that made it decides. `StartsSucceed` is the other half: from some point on undisturbed, every start on
a database that is not doomed gets to serve, also one that lost the race for the migration.

### MCServices

The four modules above share no variable. `part` picks the one that moves and the others stay in their initial
states, so their state spaces add up in one run; no property of one mentions another. The
starts begin on every database `SsInit` has; where a pool has starved, the queue stays as it is.

### JobPromise

What a user may rely on, without workers or processes: a job is submitted,
withdrawn, taken, attempted, delivered at most once and settled truthfully, by the attempt that
is open for it; it may be reaped or forgotten meanwhile. The mapping forgets
everything but the status column, the deliveries, and
`Open`, the jobs whose claim has committed and that are in a worker's hands. `Honest` is what a reader
of the table gets from it: a job that waits or was canceled has not been delivered, one that is done
has been, once, and is in nobody's hands.

### RowPath

Four modules move rows, and none has all of the code: `JobLifecycle` has every statement on a row but no
counts and no clock, `Admission` and `QueueView` have `Claim`, `End` or `Finish` for whatever workers do, `Housekeeping` has one
`Verdict`. `RowPath` is what these have in common: a row is queued, taken, ended and removed, and
never goes back. `JobLifecycle` implements it, which is a result; the others do too, which shows
that what they leave open is no more than what `JobLifecycle` does to a row.
An id whose insert fails goes from `none` to `deleted` at once: the sequence does not give it out again.

It holds for a reason that is itself a defect. `MarkFailedForRetry` would take a row back to pending, and is
never reached, since `cancel()` comes first (`doc_retry`). Whoever repairs that must give `RowPath` the move
from processing to pending, and `Admission`, `QueueView` and `Housekeeping` a row that comes back; their
bounds are then about other numbers.

### DownloadPromise

What `JobLifecycle` relies on when it has three steps for a download (`Progress`, `DownloadOk`, `DownloadErr`): those who write
progress are gone when the download returns and when the next quality is tried; no program and no request
is started once the job's context is done, and none runs after the return; an error means
that the job was canceled or that every quality has been tried. `Downloader` implements it with the
two pipe readers as writers, `proc` as the call, and the rungs left of the `chain`.

## 3. Runs that pass

| Run | Instance | Shows |
|---|---|---|
| `lifecycle_safety` | 2 jobs with the same `created_at`, 2 users, 2 workers, 1 `/cancel` at a time, 1 retry; about 1.4 million states | type invariant, `ExclusiveClaim`, `AtMostOnceDelivery`, `VerdictsAreTrue` (`DoneMeansDelivered` and `CanceledNeverDelivered`), `RegistryExact`, `TimestampsMatchStatus`, `ProgressMatchesStatus`, `VerdictStands`, `SignalWindsDown`; `KeepsPromise` and `RowsMoveOn`: it implements `JobPromise` and `RowPath` |
| `lifecycle_liveness` | 2 jobs, 1 user, 1 worker | `EveryClaimSettles`, `EveryJobSettles`, `ShutdownNeedsNoDeadline` |
| `download` | all six chains, pipes of 1 line, up to 2 lines each, with fairness; about 431 000 states | type invariant, `ResultIsOfThisAttempt`, `CancelStopsDownload`, `CancelWindsDown`, `DownloadReturns`; `KeepsDownloadPromise`: it implements `DownloadPromise` |
| `admission_limits` | 1 user, 2 handlers, 2 ids, limits 1, 1 and 2, 2 URLs, 72 hours of retention; about 1.9 million states | type invariant, `QueueOvershootBounded`, `QuotaOvershootBounded`, `BanBlocksLaterMessages`, `OneMessagePerCooldown` |
| `services` | `QueueView`: 2 jobs, 1 user who is an admin, 2 handlers, 1 worker, a pool of 2. `Housekeeping`: 1 row, stuck age 2, hour 3, retention 2, ages to 8. `LinkModes`: 2 taps, two buttons. `SchemaStart`: 2 processes, with fairness. About 440 000 states | of the queue `TypeOK`, `PositionHonoured`, `AckMissesNobody`, `OnlyListingsStarve`, `QueuedRowsMoveOn`; of the clock `HkTypeOK`, `ReapedInTime`, `ForgottenInTime`, `LiveJobKeepsRow`; of the modes `LmTypeOK`, `ModeHonoured`, `ShownIsSaved`; of the start `ServingIsComplete`, `StartDecidedByRelease`, `StartsSucceed` |

Why the bounds suffice. Two workers and two jobs give every race for a row, a
worker that goes on to another job while the first is reaped, and a
restart in between; a third of either adds no new pair. Two users tell an owner from a stranger. One
handler at a time is enough for `/cancel`, whose effect on the others goes
through the table and the registry. The theorems of section 5 hold for all
sizes. Limits of 1 and 2 let two handlers reach and pass each limit; pending and past-the-check
handlers are counted together, so an overshoot shows before ids run out. A pipe of one line
blocks at the second. In `services` a pool of 2 with two handlers can starve, and two connections in the hands of a worker and a
handler are every other way to use it up. Two jobs make an order, and
every way to change it. Rows stand level where that is the harder case: in `lifecycle_safety`, where a select may then take
either; in `services` the times differ, since level rows are what `PositionHonoured` leaves out. The retention of 72
hours is that of `sample-config.yaml`; with less than a day the bound is on fewer rows. The periods 2, 3 and 2 are no multiples of each other, and one row is enough, since
rows are looked at one by one. Two taps overlap in every way; two buttons are one with a prefix and one without.
Symmetry (workers and users, handlers) is used in safety
runs only.

## 4. Fairness

`FairSpec` of `JobLifecycle` is weak fairness of a worker's own code: the Go scheduler runs it,
statements and Telegram requests return (the HTTP client has a timeout of 30 seconds), and a
context that ends kills yt-dlp. A download is not assumed to end by itself.
Strong fairness of a committed claim says that the database does not fail every claim for ever. Weak fairness
of the reaper for each row is its ticker. `ExitClean` is fair: main waits for it. Nothing makes
users, signals or restarts happen, or stops crashes; hence the premises
`StaysUp` (from some time on nobody stops the process) and, for pending jobs only, `DownloadsEnd`:
two hung downloads keep two workers for ever, since the reaper frees the row
and not the worker. `Downloader`'s fairness is that its goroutines run, a kill
arrives, and yt-dlp goes on unless it hangs or waits for a reader that gave up
on a line longer than the scanner's buffer; `DownloadReturns` names these two.
`SchemaStart`'s is weak: a start goes on to its next statement, and a process that ended is started again, as
`compose.yaml` says (`restart: unless-stopped`); that it is left in peace from some point on is the premise `Calm`.
`QueueView`'s (used by `doc_queue` only) is strong for a handler's statements, since pgxpool serves those who
wait in the order they came, and weak for a claim that has begun.

## 5. What is proved

About `JobLifecycle`, for all sets of jobs, users, admins, workers and handlers and
every `MaxRetries`:

| Theorem | Statement |
|---|---|
| `TypeCorrect` | `Spec => []TypeOK` |
| `CoreInvariant` | `Spec => []Core` |
| `ClaimsAreExclusive`, `DeliversAtMostOnce`, `EndsAreTrue`, `RegistryIsExact` | the invariants about claims, deliveries, verdicts and the registry |
| `TimestampsAreConsistent`, `ProgressIsConsistent` | `TimestampsMatchStatus` and `ProgressMatchesStatus` |
| `VerdictsStand` | the action property `VerdictStands` |
| `SignalsWindDown` | `Spec => SignalWindsDown`: after a signal each step of a worker lowers `StepsLeft` |
| `LifecycleKeepsPromise` | `Spec => KeepsPromise`: every step of `JobLifecycle` is a step of `JobPromise` or a stutter |
| `PromiseIsHonest`, `LifecycleIsHonest` | `Promise!Spec => []Promise!Honest`, hence `Spec => []Promise!Honest` |
| `LifecycleRowsMoveOn` | `Spec => RowsMoveOn`: every step is a step of `RowPath` or a stutter |

Assumptions: the named `ASSUME`s of `JobTable` and `JobLifecycle`: ids are
positive naturals, `NoUser`, `NoJob` and `NoWorker` are not members of their sets, admins
are users, `MaxRetries` is at least 1 as `config.go` (113-115) makes it. TLC evaluates them in
every run of `MCJobLifecycle`.

The argument. None of the invariants is inductive alone. That a delivery is the only one needs
that nobody else has the job, and that the row will not become pending again; that
the row does not become pending needs that a failed worker's context is done (`Release` precedes
`HandleError`); exclusiveness needs that a held job is not pending once its claim
has committed, and locked before. `Core` puts these
together: typing, exclusive hands, what each `pc` says about the row, the deliveries and the
context, and the registry. Each operation has a lemma that it preserves
`Core`; the invariants are read off it. `RowsConsistent` is proved on top of `Core`, since a
late progress or verdict needs to know which statuses a row in hand can have. The refinement
proof maps each action to the abstract one by the same facts, with lemmas for how `Open` changes.
`Honest` is proved from the steps of `JobPromise` alone, so it also checks that the promise is worth something, and comes back
to the program through the refinement. For `RowsMoveOn`, every statement that changes a row is one
move of the rows it matches (`PathOne`, `PathStep`): a worker writes a verdict only on a row that is in processing or that
the reaper has failed, and the retry is unreachable.
For `SignalWindsDown` each step a worker can take in a context that is done leads to a `pc` with a smaller
`StepsLeft`; a claim, a progress write, a delivery and a retry are not among them. A restart puts the workers
back at `poll`, but its context is a new one (`FreshContext`).

About `Downloader`, for every `PipeCap` and `MaxLines`:

| Theorem | Statement |
|---|---|
| `TypeCorrect` | `Spec => []TypeOK` |
| `ReadersAreJoined` | `Spec => []NoReaderOutlivesRun` |
| `ResultsAreFresh` | `Spec => []ResultIsOfThisAttempt` |
| `DownloaderKeepsPromise` | `Spec => KeepsDownloadPromise`: every step is a step of `DownloadPromise` or a stutter |
| `CancelsWindDown` | `Spec => CancelWindsDown`: in a canceled download every step lowers `WorkLeft` |

`NoReaderOutlivesRun` is inductive with the types. `ResultIsOfThisAttempt` is not: that a file found
is of this attempt needs that the directory is empty until the attempt's download
begins (`FilesOfRung`), and that an image means "no video" needs that whatever the
readers have heard, or still have in their pipes, was said in this run
(`HeardIsSaid`, `ImageNeedsNoVideo`). `Sound` puts these together. `KeepsDownloadPromise` needs `InStep`: the
worker's goroutine is at a step that waits for a call exactly while there may be one, and nothing
is returned before the last step; with `NoReaderOutlivesRun` the download is quiet (`AtRest`) wherever the code launches something,
tries the next quality or returns. `WorkLeft` adds what the goroutine, the call, and each line not yet
written, read or reported still have to do; every term is a natural number and every step lowers one term
without raising another by as much, once no step starts a call. The proofs assume
`BoundsAssumption`, which the run `download` evaluates, and what section 2 assumes of yt-dlp.

About the other modules, for all values of their constants:

| Theorem | Statement |
|---|---|
| `OnlyOpenListsStarveThePool`, `StarvedForGood` | `OnlyListingsStarve`; and `Spec => [][Starved => Starved']_vars` |
| `AdmissionRowsMoveOn`, `QueueRowsMoveOn`, `HkRowsMoveOn` | `AdmittedRowsMoveOn`, `QueuedRowsMoveOn`, `TimedRowsMoveOn`: these modules implement `RowPath` |
| `AdmissionTypeCorrect`, `CooldownLetsOnePass`, `BansBlock` | `TypeOK`, `OneMessagePerCooldown`, `BanBlocksLaterMessages` of `Admission` |
| `QueueLimitHolds`, `QuotaHolds` | `QueueOvershootBounded`, `QuotaOvershootBounded` |
| `QueueTypeCorrect`, `PositionsAreHonoured`, `AcknowledgementsMissNobody` | `TypeOK`, `PositionHonoured`, `AckMissesNobody` of `QueueView` |
| `HkTypeCorrect`, `RowsAreReaped`, `RowsAreForgotten`, `LiveRowsAreKept` | `HkTypeOK`, `ReapedInTime`, `ForgottenInTime`, `LiveJobKeepsRow` |
| `LmTypeCorrect`, `ModesAreHonoured`, `ShownStaysSaved` | `LmTypeOK`, `ModeHonoured`, `ShownIsSaved` |
| `ServesOnCompleteSchema`, `StartsDecideNothing` | `ServingIsComplete`, `StartDecidedByRelease` |

*Admission.* The cooldown needs `Cooling` (who has been let through is in the cooldown), the ban `Caught`
(only the ban check knows that its update came too late). A limit is a sum of two cardinalities, the rows that
count and the handlers past the check. Either nobody joins one of the two sets, or a handler does
whose own count has just found fewer rows than the limit, while the others past the check are at most
all the other handlers (`Fresh`); or a row replaces the handler that inserts it (`Replaced`). For the quota,
`RecentKept` says that the cleanup of a retention of a day or more has not deleted what is still counted; with a shorter one
the rows it deletes are in neither set. No relation between retention and day is assumed.

*QueueView.* `passed` alone is not inductive. `Kept` bounds `Front`: what has been taken before the job, together with what
stands before it now (`Leading`) or that a select already running still sees before it (`Seen`), those that
jumped aside. Every step leaves `Front` as it is or takes from it: a select moves a job from one part to another. That
needs that ids are not used twice and that a snapshot orders no rows but its own (`Known`), and that whoever is level with the job has been
left out (`Level`), now that a select may take such a row before it. `Counting` says what the
first count still knows at each of the two later ones. `OnlyListingsStarve` rests on `PoolBounded`: no more connections are taken than there are, which
needs that a claim's worker held its connection from its select on, and that a row does not become pending again while it is claimed.
Then who cannot finish is a listing handler, and there are as many of these as connections. Nothing is assumed of the pool
against the number of handlers. `StarvedForGood` goes through the steps: in a starved pool only another `/queue` can begin, and it waits
too. `doc_queue` shows that it comes to that. The rows of `QueueView` move on since ids are drawn once (`NextFree`) and
a claim is of a row that it has locked.

*Housekeeping.* `ReapedSoFar` and `ForgottenSoFar` relate a row's age to the time since the ticker fired;
`LiveRows` adds up the ages a row of a running download has been through.

*LinkModes.* `TapsOrdered`: while there is no doubt, at most one tap is inside, and what it
shows is what it saved. `ModesKept`: the link at the head of a message already carries one of its modes when it is queued.
The rest is what each function does to the texts that occur.

*SchemaStart.* `Passed(n)`: what the statements before the n-th have left in the database.
Nothing removes it, so it does not matter which process did it. For `StartsDecideNothing` the same says that a process
at `EnsureSchema` has the record, so that no column is added to a doomed database, and no statement takes a column or a record away.

Assumptions: the `ASSUME`s of these modules. Handlers, workers and ids are finite (a bigserial has 64 bits), limits and
periods are positive as `config.go` and `time.NewTicker` require, `MaxAge` exceeds the sums it is compared with, and the
buttons are those of `qualityPreferences`. The runs `admission_limits` and `services` evaluate them.

## 6. Runs that end in a violation

Each checks one sentence of the documentation or the code's own messages against the model
of what the code does.

| Run | The sentence | What happens |
|---|---|---|
| `doc_retry` | README: "auto-retry count for failed downloads" | `cancel()` at worker.go:90 comes before the check at 93, so every failed download counts as canceled; the retry and `MarkFailed` are never reached |
| `doc_shutdown` | main.go:136 "waiting for workers to finish current jobs..." | the canceled context also fails the statements that would record the verdict; rows stay in processing |
| `doc_cancel_running` | README: "cancel a pending or running job" | refused between claim and `Register`, and during the upload |
| `doc_cancel_accepted` | the same | accepted after yt-dlp has succeeded; the file is sent |
| `doc_playlist_mode` | bot.go:816 "All your downloads will now use this setting." | `handlePlaylist` queues the entries (bot.go:715) without the saved preference, which only plain links get |
| `doc_image` | ytdlp.go:79 "If video download failed, try image fallback" | `Wait` closes the pipe before the reader has the line that says so |
| `doc_queue` | README: "`/queue` - show your active jobs and queue positions" | `GetUserJobs` asks each position through the pool (jobs.go:276) while its own result still holds a connection; as many such handlers as the pool has connections wait for each other for ever, and the workers with them |

One more sentence is not true and too plain for a model: "Queued %d videos from playlist." (bot.go:719) counts the calls of
`queueURL`, also those a limit or an error refused.

## 7. Only model-checked

Liveness, which is beyond the prover: `EveryClaimSettles`, `EveryJobSettles`, `ShutdownNeedsNoDeadline`, `CancelStopsDownload`,
`DownloadReturns`, `StartsSucceed`; and the violations. Every other property of a passing run is also proved. Of the liveness, the half that is
safety is proved too: `SignalWindsDown` and `CancelWindsDown` give `ShutdownNeedsNoDeadline` and `CancelStopsDownload` a measure
that cannot shrink for ever. What remains for TLC is that the worker, or the download, is never stuck before the end,
and that the scheduler runs it.

The other way round, `AdmittedRowsMoveOn`, `TimedRowsMoveOn` and `NoReaderOutlivesRun` are proved and in no run. TLC finds
them true on the instances of `admission_limits`, `services` and `download`. The first two say of these modules what `RowsMoveOn`
says of all statements, and the last is what `KeepsDownloadPromise` requires of the readers.

`EveryJobSettles` is about a finite set of jobs. Priority goes before age, so an endless stream of `/promote`d or admins' jobs would
keep a plain one waiting for ever; no instance has such a stream.

## 8. Not modelled

- `updater`: replaces an external program; the bot keeps no state about it. A download that meets
  the replacement fails like any other.
- `statsreport`, `/stats`, `/users`, `/jobs`, `/history`, `/health`: read-only queries and texts. The figures come
  from several statements and from a table that the cleanup shortens; nothing is decided on them.
- `/broadcast`: one query and messages. It reaches the chats that still have a row, so not those
  whose rows the cleanup has deleted.
- Inline answers: the wording, and `cachedBotUsername`, which concurrent handlers write with the same name. What is offered and what
  becomes of the chosen result is in `LinkModes`.
- Telegram's limits, such as the 64 bytes of a button's data, which refuse the keyboard of `/quality` for a long URL.
- Configuration, logging: constants and text.

Inline results named "best" and `/quality`'s "Best" are choices of their own that mean the default, and are
modelled as such (`Offer`, `QualityButton`).

## 9. Plan

Written so far, in this order: `JobTable`, `JobLifecycle`, `JobPromise`, their proofs and the refinement;
`Admission`; `Downloader` and its proofs; `QueueView`, `Housekeeping`, `LinkModes`, `SchemaStart`, and the proofs about these
and about `Admission`; `RowPath` and `DownloadPromise`, with the proofs that the detailed modules implement them; `StepsLeft`
and `WorkLeft`, the measures of a shutdown and of a cancel. What is left:

1. `QueueView` with two workers and three jobs in a run of its own, as a check of larger instances beside the proof.
2. A fair `QueueView` with a pool larger than the number of `/queue` commands: that every one is answered, as a run and,
   for its safety half, as a corollary of `OnlyListingsStarve`.
3. That a canceled download, and a worker after a signal, always has a step it can take, as `OnlyListingsStarve` has it for
   the pool: with `WorkLeft` and `StepsLeft` all of the argument but the scheduler would be proved.
