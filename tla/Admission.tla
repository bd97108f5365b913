------------------------------ MODULE Admission ------------------------------
(***************************************************************************)
(* How a Telegram update becomes rows of download_jobs: the ban check, the *)
(* rate limit and, for each URL, queueURL with its daily quota, its queue  *)
(* limit and its limit on running jobs.                                    *)
(*                                                                         *)
(* The bot library runs every handler in a goroutine of its own, so any    *)
(* two of them interleave between any two statements.  What happens to a   *)
(* row after its insert is module JobLifecycle; here it only moves on.     *)
(*                                                                         *)
(* Every read of a handler may fail, and the handler then goes on with     *)
(* "not banned" or a count of 0; it is `blind` from there on.  Time is     *)
(* abstracted: `hot` holds the users whose cooldown runs, `recent` the ids *)
(* created in the last 24 hours; both may lapse at any moment.             *)
(***************************************************************************)
EXTENDS Integers, FiniteSets

CONSTANTS
    JobId,          \* ids of download_jobs
    User,
    NoUser,
    Admin,          \* admin.user_ids
    Handler,        \* handler goroutines that can run at a time
    MaxQueued,      \* limits.max_queued_per_user
    MaxConcurrent,  \* limits.max_concurrent_per_user
    Quota,          \* limits.daily_quota_per_user, 0 for none
    RetentionHours, \* cleanup.retention_hours, 72 unless configured
    MaxUrls         \* bound: URLs in one message, entries in one playlist

ASSUME IdsAssumption == JobId \subseteq Nat /\ IsFiniteSet(JobId)

ASSUME UsersAssumption == NoUser \notin User /\ Admin \subseteq User

ASSUME HandlersAssumption == IsFiniteSet(Handler)

ASSUME LimitsAssumption ==
    /\ MaxQueued \in Nat \ {0} /\ MaxConcurrent \in Nat \ {0}
    /\ Quota \in Nat /\ RetentionHours \in Nat \ {0} /\ MaxUrls \in Nat \ {0}

VARIABLES
    row,            \* per id: its user, its status, whether a blind handler made it
    recent,         \* ids created in the last 24 hours
    banned,         \* banned_users
    hot,            \* users whose lastSubmit is younger than the cooldown
    hs,             \* the handlers
    passed          \* per user: updates let through since the cooldown began

vars == <<row, recent, banned, hot, hs, passed>>

\* "urls" is a message, a button, an inline result or /mp3, with one URL or more.
Kinds == {"urls", "playlist"}

\* Where a handler is.  "next" is the head of the loop over its URLs; "day",
\* "queued" and "running" are the three counts, "ack" the message to the user.
Steps == {"idle", "ban", "rate", "next", "day", "queued", "running", "ack",
          "insert"}

\* late: the user was banned when the update arrived, has not been unbanned
\* since, and no read of the handler has failed.
Idle == [step |-> "idle", user |-> NoUser, kind |-> "urls", left |-> 0,
         late |-> FALSE, blind |-> FALSE]

NoRow == [user |-> NoUser, status |-> "none", blind |-> FALSE]

TypeOK ==
    /\ row \in [JobId -> [user   : User \cup {NoUser},
                          status : {"none", "pending", "processing", "ended",
                                    "deleted"},
                          blind  : BOOLEAN]]
    /\ recent \subseteq JobId
    /\ banned \subseteq User
    /\ hot \subseteq User
    /\ hs \in [Handler -> [step : Steps, user : User \cup {NoUser}, kind : Kinds,
                           left : 0..MaxUrls, late : BOOLEAN, blind : BOOLEAN]]
    /\ passed \in [User -> Nat]

Init ==
    /\ row = [j \in JobId |-> NoRow]
    /\ recent = {}
    /\ banned = {}
    /\ hot = {}
    /\ hs = [h \in Handler |-> Idle]
    /\ passed = [u \in User |-> 0]

-----------------------------------------------------------------------------
(* The counts a handler reads. *)

Having(u, s) == {j \in JobId : row[j].user = u /\ row[j].status = s}

\* select count(*) ... where created_at >= now() - interval '24 hours'
Today(u) == {j \in recent : row[j].user = u /\ row[j].status # "deleted"}

Metered(u) == Quota > 0 /\ u \notin Admin

-----------------------------------------------------------------------------
(* A handler. *)

Step(h, from, to) ==
    hs[h].step = from /\ hs' = [hs EXCEPT ![h].step = to]

StepBlind(h, from, to) ==
    /\ hs[h].step = from
    /\ hs' = [hs EXCEPT ![h].step = to, ![h].blind = TRUE, ![h].late = FALSE]

Finish(h) == hs' = [hs EXCEPT ![h] = Idle]

\* An update arrives.  A playlist has some entries, or none, or cannot be fetched.
Arrive(h, u, k, n) ==
    /\ hs[h].step = "idle"
    /\ k = "urls" => n > 0
    /\ hs' = [hs EXCEPT ![h] = [Idle EXCEPT !.step = "ban", !.user = u,
                                            !.kind = k, !.left = n,
                                            !.late = u \in banned]]
    /\ UNCHANGED <<row, recent, banned, hot, passed>>

\* Slip: /playlist does not look at banned_users.
CheckBanNoPlaylist(h) ==
    /\ hs[h].step = "ban"
    /\ IF hs[h].user \in banned /\ hs[h].kind # "playlist"
       THEN Finish(h) ELSE Step(h, "ban", "rate")
    /\ UNCHANGED <<row, recent, banned, hot, passed>>

\* IsBanned; a failed read lets the user through.
CheckBan(h) ==
    /\ hs[h].step = "ban"
    /\ \/ hs[h].user \in banned /\ Finish(h)
       \/ hs[h].user \notin banned /\ Step(h, "ban", "rate")
       \/ StepBlind(h, "ban", "rate")
    /\ UNCHANGED <<row, recent, banned, hot, passed>>

\* Slip: lastSubmit is written only once something was queued.
CheckRateUnrecorded(h) ==
    LET u == hs[h].user IN
    /\ hs[h].step = "rate"
    /\ IF u \in hot
       THEN Finish(h) /\ UNCHANGED passed
       ELSE /\ Step(h, "rate", "next")
            /\ passed' = [passed EXCEPT ![u] = (@ + 1) % 3]
    /\ UNCHANGED <<row, recent, banned, hot>>

\* checkRateLimit, test and update under rateLimitMu
CheckRate(h) ==
    LET u == hs[h].user IN
    /\ hs[h].step = "rate"
    /\ IF u \in hot
       THEN Finish(h) /\ UNCHANGED <<hot, passed>>
       ELSE /\ hot' = hot \cup {u}
            /\ Step(h, "rate", "next")
            /\ passed' = [passed EXCEPT ![u] = @ + 1]
    /\ UNCHANGED <<row, recent, banned>>

\* Slip: an index that runs one past the end of the URLs.
NextUrlPastEnd(h) ==
    /\ hs[h].step = "next"
    /\ IF hs[h].left < 0 THEN Finish(h) ELSE Step(h, "next", "day")
    /\ UNCHANGED <<row, recent, banned, hot, passed>>

\* The head of the loop over the URLs.  handlePlaylist looks at the quota once
\* more before each entry, and stops when it is used up.
NextUrl(h) ==
    LET u == hs[h].user
        Full == hs[h].kind = "playlist" /\ Metered(u) /\ Cardinality(Today(u)) >= Quota
    IN
    /\ hs[h].step = "next"
    /\ \/ (hs[h].left = 0 \/ Full) /\ Finish(h)
       \/ hs[h].left > 0 /\ ~Full /\ Step(h, "next", "day")
       \/ hs[h].left > 0 /\ Full /\ StepBlind(h, "next", "day")
    /\ UNCHANGED <<row, recent, banned, hot, passed>>

\* queueURL returns, without a result, and the loop goes on.
UrlOver(h) == hs' = [hs EXCEPT ![h].step = "next", ![h].left = @ - 1]

\* A count(*) and the test of its result; failed: where its failure leads.
Count(h, from, to, failed, S, limit) ==
    /\ hs[h].step = from
    /\ \/ Cardinality(S) >= limit /\ UrlOver(h)
       \/ Cardinality(S) < limit /\ Step(h, from, to)
       \/ StepBlind(h, from, failed)
    /\ UNCHANGED <<row, recent, banned, hot, passed>>

\* The daily quota.
CountDay(h) ==
    IF Metered(hs[h].user)
    THEN Count(h, "day", "queued", "queued", Today(hs[h].user), Quota)
    ELSE Step(h, "day", "queued") /\ UNCHANGED <<row, recent, banned, hot, passed>>

\* Slip: one too many.
CountQueuedOff(h) ==
    Count(h, "queued", "running", "ack", Having(hs[h].user, "pending"), MaxQueued + 1)

\* UserActiveCounts, its two statements; when the first fails both counts are 0.
CountQueued(h) ==
    Count(h, "queued", "running", "ack", Having(hs[h].user, "pending"), MaxQueued)

CountRunning(h) ==
    Count(h, "running", "ack", "ack", Having(hs[h].user, "processing"), MaxConcurrent)

\* "Queueing your download..."; without that message there is no job.
Ack(h) ==
    /\ \/ Step(h, "ack", "insert")
       \/ hs[h].step = "ack" /\ UrlOver(h)
    /\ UNCHANGED <<row, recent, banned, hot, passed>>

InsertJob(h) ==
    /\ hs[h].step = "insert"
    /\ \E j \in JobId :
          /\ row[j].status = "none"
          /\ \A k \in JobId : k < j => row[k].status # "none"
          /\ row' = [row EXCEPT ![j] = [user |-> hs[h].user, status |-> "pending",
                                        blind |-> hs[h].blind]]
          /\ recent' = recent \cup {j}
    /\ UrlOver(h)
    /\ UNCHANGED <<banned, hot, passed>>

\* "Failed to queue this request."
InsertFails(h) ==
    /\ hs[h].step = "insert"
    /\ UrlOver(h)
    /\ UNCHANGED <<row, recent, banned, hot, passed>>

HandlerStep(h) ==
    \/ \E u \in User, k \in Kinds, n \in 0..MaxUrls : Arrive(h, u, k, n)
    \/ CheckBan(h) \/ CheckRate(h) \/ NextUrl(h) \/ CountDay(h)
    \/ CountQueued(h) \/ CountRunning(h) \/ Ack(h)
    \/ InsertJob(h) \/ InsertFails(h)

-----------------------------------------------------------------------------
(* Everything else that moves. *)

Ban(u) ==
    /\ banned' = banned \cup {u}
    /\ UNCHANGED <<row, recent, hot, hs, passed>>

Unban(u) ==
    /\ banned' = banned \ {u}
    /\ hs' = [h \in Handler |-> IF hs[h].user = u
                                THEN [hs[h] EXCEPT !.late = FALSE] ELSE hs[h]]
    /\ UNCHANGED <<row, recent, hot, passed>>

\* RateLimitSeconds have gone by since lastSubmit[u].
CooldownOver(u) ==
    /\ hot' = hot \ {u}
    /\ passed' = [passed EXCEPT ![u] = 0]
    /\ UNCHANGED <<row, recent, banned, hs>>

DayOver(j) ==
    /\ recent' = recent \ {j}
    /\ UNCHANGED <<row, banned, hot, hs, passed>>

Move(j, from, to) ==
    /\ row[j].status = from
    /\ row' = [row EXCEPT ![j].status = to]
    /\ UNCHANGED <<recent, banned, hot, hs, passed>>

\* ClaimJob; how many workers there are is left open.
Claim(j) == Move(j, "pending", "processing")

\* A verdict, on a running or, by /cancel, on a pending job.  No row goes back
\* to pending: JobLifecycle's workers never get to MarkFailedForRetry.
End(j) == Move(j, "processing", "ended") \/ Move(j, "pending", "ended")

\* Slip: the age of the rows is not looked at.
CleanupAtOnce(j) == Move(j, "ended", "deleted")

\* DeleteOldJobs: finished_at, never before created_at, is RetentionHours old.
\* A retention of less than a day, which Load accepts, spares no recent row.
Cleanup(j) ==
    /\ RetentionHours >= 24 => j \notin recent
    /\ Move(j, "ended", "deleted")

\* The process goes down and comes back: handlers and lastSubmit are gone.
Restart ==
    /\ hs' = [h \in Handler |-> Idle]
    /\ hot' = {}
    /\ passed' = [u \in User |-> 0]
    /\ UNCHANGED <<row, recent, banned>>

Next ==
    \/ \E h \in Handler : HandlerStep(h)
    \/ \E u \in User : Ban(u) \/ Unban(u) \/ CooldownOver(u)
    \/ \E j \in JobId : DayOver(j) \/ Claim(j) \/ End(j) \/ Cleanup(j)
    \/ Restart

Spec == Init /\ [][Next]_vars

Path == INSTANCE RowPath WITH at <- [j \in JobId |-> row[j].status]

\* Handlers that overlap get different ids, and a row they inserted moves as
\* module JobLifecycle moves it.
AdmittedRowsMoveOn == Path!Spec

-----------------------------------------------------------------------------
(* Safety. *)

\* Handlers of the user whose reads all succeeded, in one of the given steps.
Sighted(u, steps) ==
    {h \in Handler : hs[h].user = u /\ ~hs[h].blind /\ hs[h].step \in steps}

\* The queue limit is checked and then acted on.  Handlers that overlap can
\* exceed it, but by no more than one job each: every handler counts anew for
\* every URL, so a long message or playlist cannot.  Jobs of blind handlers
\* come on top; they take room from the others and never make any.
QueueOvershootBounded ==
    \A u \in User :
        Cardinality({j \in Having(u, "pending") : ~row[j].blind})
            + Cardinality(Sighted(u, {"running", "ack", "insert"}))
        <= MaxQueued + Cardinality(Handler) - 1

\* What the quota has to count: all that the user submitted in the last 24 hours
\* when rows are kept for a day or longer, and otherwise what the cleanup left.
Submitted(u) ==
    {j \in recent : /\ row[j].user = u
                    /\ RetentionHours < 24 => row[j].status # "deleted"}

\* The same for the daily quota.  With a retention of a day or more the cleanup
\* makes no room: the bound holds for everything the user really submitted.
QuotaOvershootBounded ==
    \A u \in User : Metered(u) =>
        Cardinality({j \in Submitted(u) : ~row[j].blind})
            + Cardinality(Sighted(u, {"queued", "running", "ack", "insert"}))
        <= Quota + Cardinality(Handler) - 1

\* What a user sends after a ban queues nothing, whichever handler receives it,
\* unless the read of banned_users fails; only updates already past their check
\* may still insert.
BanBlocksLaterMessages ==
    \A h \in Handler : hs[h].late => hs[h].step = "ban"

\* Concurrent handlers of one user: the cooldown lets one of them through.
OneMessagePerCooldown == \A u \in User : passed[u] <= 1

=============================================================================
