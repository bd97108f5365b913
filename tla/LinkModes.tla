----------------------------- MODULE LinkModes ------------------------------
(***************************************************************************)
(* How a download gets its mode.  The mode travels in front of the URL, as *)
(* a prefix of the url column, from the handler that queues the job to     *)
(* parseJobURL in the worker.  It comes from a prefix the user typed, from *)
(* the preference saved with /setquality, from /mp3, from a /quality       *)
(* button or from an inline result; a playlist's entries have none.        *)
(*                                                                         *)
(* One user.  Buttons are handled by goroutines of their own, two taps can *)
(* overlap; a message with several links reads the preference for each.    *)
(* A text is the sequence of its mode prefixes and what stands behind them *)
(* ("http", "www", or "other" for anything that is no link).               *)
(***************************************************************************)
EXTENDS Integers, Sequences

CONSTANTS
    Tap,        \* goroutines that can be inside handleSetQualityCallback
    Picked      \* the buttons of /setquality that get tapped

ASSUME PickedAssumption == Picked \subseteq {"q360", "q480", "q720", "q1080", "best"}

VARIABLES
    pref,       \* user_preferences.quality, "none" without a row
    shown,      \* the quality marked in the edited message, "none" before
    tap,        \* per goroutine: how far its tap has come
    doubt,      \* taps have overlapped, or an edit has failed, since a tap
                \* went through undisturbed
    msg,        \* the message whose links are being queued
    queued      \* the last job inserted: its url, the modes asked for it, and
                \* whether it is an entry of a playlist

lmVars == <<pref, shown, tap, doubt, msg, queued>>

Quality == {"q360", "q480", "q720", "q1080"}
Prefix == Quality \cup {"audio"}

Text(p, f) == [pre |-> p, form |-> f]

NoTap == [step |-> "idle", quality |-> "none", alone |-> FALSE]
NoMsg == [step |-> "idle", links |-> <<>>, seen |-> {}, asked |-> {}]
NoneQueued == [url |-> Text(<<>>, "other"), asked |-> {}, entry |-> FALSE]

-----------------------------------------------------------------------------
(* The functions on texts. *)

StripModePrefix(w) ==
    IF w.pre # <<>> /\ Head(w.pre) \in Prefix
    THEN [clean |-> [w EXCEPT !.pre = Tail(@)], prefix |-> <<Head(w.pre)>>]
    ELSE [clean |-> w, prefix |-> <<>>]

NormalizeURL(w) == IF w = Text(<<>>, "www") THEN Text(<<>>, "http") ELSE w

LooksLikeURL(w) == w.pre = <<>> /\ w.form \in {"http", "www"}

\* What extractURLs makes of one word: a link, or nothing.
ExtractURL(w) ==
    LET s == StripModePrefix(w)
        n == NormalizeURL(s.clean)
    IN  IF LooksLikeURL(n) THEN <<[n EXCEPT !.pre = s.prefix]>> ELSE <<>>

\* The argument of /mp3, /quality and /playlist, and an inline query: a link
\* without a prefix, or the command is refused.
Accepted(w) == LooksLikeURL(NormalizeURL(w))

Prefixed(m, u) == [u EXCEPT !.pre = <<m>> \o @]

ParseJobURL(raw) ==
    IF raw.pre # <<>> /\ Head(raw.pre) \in Prefix
    THEN [mode |-> Head(raw.pre), url |-> [raw EXCEPT !.pre = Tail(@)]]
    ELSE [mode |-> "default", url |-> raw]

\* The mode a saved preference stands for.
ModeOf(q) == IF q \in Quality THEN q ELSE "default"

-----------------------------------------------------------------------------
LmInit ==
    /\ pref = "none" /\ shown = "none"
    /\ tap = [t \in Tap |-> NoTap]
    /\ doubt = FALSE
    /\ msg = NoMsg
    /\ queued = NoneQueued

(* /setquality: handleSetQualityCallback. *)

Quiet == \A t \in Tap : tap[t].step = "idle"

TapBegin(t) ==
    /\ tap[t].step = "idle"
    /\ \E q \in Picked :
          tap' = [s \in Tap |->
              IF s = t THEN [step |-> "save", quality |-> q, alone |-> Quiet]
              ELSE [tap[s] EXCEPT !.alone = FALSE]]
    /\ doubt' = (doubt \/ ~Quiet)
    /\ UNCHANGED <<pref, shown, msg, queued>>

\* Slip: a save that fails is shown like one that does not.
TapSaveUnchecked(t) ==
    /\ tap[t].step = "save"
    /\ tap' = [tap EXCEPT ![t].step = "show"]
    /\ \/ pref' = tap[t].quality /\ msg' = [msg EXCEPT !.seen = @ \cup {ModeOf(pref')}]
       \/ UNCHANGED <<pref, msg>>
    /\ UNCHANGED <<shown, doubt, queued>>

\* Slip: the callback's data is saved as it came, with its "sq:".
TapSaveWhole(t) ==
    /\ tap[t].step = "save"
    /\ pref' = "sq:" \o tap[t].quality
    /\ tap' = [tap EXCEPT ![t].step = "show"]
    /\ UNCHANGED <<shown, doubt, msg, queued>>

\* SetUserQuality, an upsert; when it fails nothing more is shown.
TapSave(t) ==
    /\ tap[t].step = "save"
    /\ \/ /\ pref' = tap[t].quality
          /\ tap' = [tap EXCEPT ![t].step = "show"]
          /\ msg' = IF msg.step = "idle" THEN msg
                    ELSE [msg EXCEPT !.seen = @ \cup {ModeOf(pref')}]
       \/ tap' = [tap EXCEPT ![t] = NoTap] /\ UNCHANGED <<pref, msg>>
    /\ UNCHANGED <<shown, doubt, queued>>

\* "Quality preference saved": the message is edited, or the request fails.
TapShow(t) ==
    /\ tap[t].step = "show"
    /\ \/ shown' = tap[t].quality /\ doubt' = (doubt /\ ~tap[t].alone)
       \/ UNCHANGED shown /\ doubt' = TRUE
    /\ tap' = [tap EXCEPT ![t] = NoTap]
    /\ UNCHANGED <<pref, msg, queued>>

-----------------------------------------------------------------------------
(* A message with links. *)

Words == {Text(<<>>, "http"), Text(<<>>, "www"), Text(<<>>, "other"),
          Text(<<"audio">>, "www"), Text(<<"q1080">>, "http"),
          Text(<<"audio", "q720">>, "http")}

MessageArrives ==
    /\ msg.step = "idle"
    /\ \E v, w \in Words :
          LET links == ExtractURL(v) \o ExtractURL(w) IN
          /\ links # <<>>
          /\ msg' = [NoMsg EXCEPT !.step = "next", !.links = links,
                                  !.seen = {ModeOf(pref)}]
    /\ UNCHANGED <<pref, shown, tap, doubt, queued>>

\* Slip: "best" is put in front like any other preference.
WithPreferenceBest(q, u) == IF q = "none" THEN u ELSE Prefixed(q, u)

WithPreference(q, u) == IF q \in {"none", "best"} THEN u ELSE Prefixed(q, u)

HasPrefix(u) == StripModePrefix(u).prefix # <<>>

\* A link that brings its own mode keeps it.
KeepPrefix ==
    /\ msg.step = "next"
    /\ HasPrefix(Head(msg.links))
    /\ msg' = [msg EXCEPT !.step = "queue", !.asked = {Head(Head(msg.links).pre)}]
    /\ UNCHANGED <<pref, shown, tap, doubt, queued>>

\* GetUserQuality for any other: it says "best" when there is no row, and also
\* when the statement fails.
ReadPreference ==
    /\ msg.step = "next"
    /\ ~HasPrefix(Head(msg.links))
    /\ \/ msg' = [msg EXCEPT !.step = "queue", !.asked = msg.seen,
                             !.links[1] = WithPreference(pref, @)]
       \/ msg' = [msg EXCEPT !.step = "queue", !.asked = {"default"}]
    /\ UNCHANGED <<pref, shown, tap, doubt, queued>>

Insert(u, asked) == queued' = [url |-> u, asked |-> asked, entry |-> FALSE]

\* queueURL: the job is inserted, or refused by a limit or an error.
QueueLink ==
    /\ msg.step = "queue"
    /\ Insert(Head(msg.links), msg.asked) \/ UNCHANGED queued
    /\ msg' = IF Len(msg.links) = 1 THEN NoMsg
              ELSE [NoMsg EXCEPT !.step = "next", !.links = Tail(msg.links),
                                 !.seen = {ModeOf(pref)}]
    /\ UNCHANGED <<pref, shown, tap, doubt>>

-----------------------------------------------------------------------------
(* The commands that bring a mode of their own. *)

Argument == {w \in Words : Accepted(w)}

\* /mp3
Mp3 ==
    /\ \E w \in Argument : Insert(Prefixed("audio", NormalizeURL(w)), {"audio"})
    /\ UNCHANGED <<pref, shown, tap, doubt, msg>>

\* A button of the keyboard /quality has sent: dl:<quality>:<url>.
QualityButton ==
    /\ \E w \in Argument, q \in Quality \cup {"qbest"} :
          LET u == NormalizeURL(w) IN
          Insert(IF q = "qbest" THEN u ELSE Prefixed(q, u), {ModeOf(q)})
    /\ UNCHANGED <<pref, shown, tap, doubt, msg>>

\* What the user reads in the results of an inline query, by their identifiers.
Offer == [dl_best |-> "default", dl_720 |-> "q720", dl_480 |-> "q480",
          dl_mp3 |-> "audio"]

\* What the handler of the chosen result makes of the identifier.
InlineMode(id) == CASE id = "dl_720" -> "q720" [] id = "dl_480" -> "q480"
                    [] id = "dl_mp3" -> "audio" [] OTHER -> "default"

ChosenInline ==
    /\ \E w \in Argument, id \in DOMAIN Offer :
          LET u == NormalizeURL(w) m == InlineMode(id) IN
          Insert(IF m = "default" THEN u ELSE Prefixed(m, u), {Offer[id]})
    /\ UNCHANGED <<pref, shown, tap, doubt, msg>>

\* An entry of a playlist: the URL yt-dlp gave, whatever the preference is.
\* Asked for is the preference, saved or last seen saved.
PlaylistEntry ==
    /\ queued' = [url |-> Text(<<>>, "http"), asked |-> {ModeOf(shown), ModeOf(pref)},
                  entry |-> TRUE]
    /\ UNCHANGED <<pref, shown, tap, doubt, msg>>

LmNext ==
    \/ \E t \in Tap : TapBegin(t) \/ TapSave(t) \/ TapShow(t)
    \/ MessageArrives \/ KeepPrefix \/ ReadPreference \/ QueueLink
    \/ Mp3 \/ QualityButton \/ ChosenInline \/ PlaylistEntry

LmSpec == LmInit /\ [][LmNext]_lmVars

-----------------------------------------------------------------------------
(* Safety. *)

LmTypeOK ==
    /\ pref \in {"none"} \cup Picked /\ shown \in {"none"} \cup Picked
    /\ tap \in [Tap -> [step : {"idle", "save", "show"},
                        quality : {"none"} \cup Picked,
                        alone : BOOLEAN]]
    /\ doubt \in BOOLEAN
    /\ msg.step \in {"idle", "next", "queue"} /\ Len(msg.links) <= 2
    /\ queued.asked \subseteq Prefix \cup {"default"} /\ queued.entry \in BOOLEAN

\* The worker hands yt-dlp a link with no prefix left, and reads the mode that was
\* asked for: the prefix the user typed, the button or result chosen, or a
\* preference in force while the link was handled ("best" if it could not be
\* read).  An entry of a playlist has no mode at all; what the bot says of that is
\* AllUseThisSetting.  The handlers of bot.go against parseJobURL in worker.go.
ModeHonoured ==
    queued # NoneQueued =>
        LET job == ParseJobURL(queued.url) IN
        /\ job.url = Text(<<>>, "http")
        /\ ~queued.entry => job.mode \in queued.asked

\* The quality the user last saw saved is the one in force, also after saves that
\* failed, unless two taps overlapped: their two statements and their two edits
\* may take effect in different orders.  A tap that goes through by itself
\* settles it again.  handleSetQualityCallback.
ShownIsSaved ==
    Quiet /\ ~doubt => shown \in {"none", pref}

-----------------------------------------------------------------------------
(* What the program says and does not do. *)

\* "All your downloads will now use this setting", a playlist's too.
AllUseThisSetting ==
    queued.entry => ParseJobURL(queued.url).mode \in queued.asked
=============================================================================
