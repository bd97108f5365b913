--------------------------- MODULE LinkModesProofs --------------------------
(***************************************************************************)
(* Theorems about LinkModes, for any number of overlapping taps and any    *)
(* sequence of messages, buttons and commands.                             *)
(***************************************************************************)
EXTENDS LinkModes, SequenceTheorems, TLAPS

-----------------------------------------------------------------------------
(* Taps of /setquality. *)

TapState == [step : {"idle", "save", "show"}, quality : {"none"} \cup Picked,
             alone : BOOLEAN]

\* A tap that is alone saves and shows with nobody in between, and as long as
\* there is no doubt every tap is alone.
TapsOrdered ==
    /\ pref \in {"none"} \cup Picked /\ shown \in {"none"} \cup Picked
    /\ tap \in [Tap -> TapState]
    /\ doubt \in BOOLEAN
    /\ \A t \in Tap : tap[t].step # "idle" => tap[t].quality \in Picked
    /\ \A t \in Tap : tap[t].step # "idle" /\ tap[t].alone =>
          /\ \A s \in Tap \ {t} : tap[s].step = "idle"
          /\ tap[t].step = "show" => pref = tap[t].quality
    /\ ~doubt =>
          /\ \A t \in Tap : tap[t].step # "idle" => tap[t].alone
          /\ (\A t \in Tap : tap[t].step # "show") => shown \in {"none", pref}

LEMMA NoTapTyped ==
    NoTap \in TapState /\ NoTap.step = "idle" /\ ~NoTap.alone
BY DEF NoTap, TapState

LEMMA TapsInit == LmInit => TapsOrdered
BY NoTapTyped DEF LmInit, TapsOrdered

LEMMA TapsBegin ==
    ASSUME TapsOrdered, NEW t \in Tap, TapBegin(t)
    PROVE  TapsOrdered'
<1>1. PICK q \in Picked :
         tap' = [s \in Tap |->
             IF s = t THEN [step |-> "save", quality |-> q, alone |-> Quiet]
             ELSE [tap[s] EXCEPT !.alone = FALSE]]
  BY DEF TapBegin
<1>2. /\ pref' = pref /\ shown' = shown
      /\ doubt' = (doubt \/ ~Quiet)
      /\ pref \in {"none"} \cup Picked /\ shown \in {"none"} \cup Picked
      /\ tap \in [Tap -> TapState]
  BY DEF TapBegin, TapsOrdered
<1>3. ASSUME NEW s \in Tap \ {t}
      PROVE  /\ tap'[s] \in TapState /\ ~tap'[s].alone
             /\ tap'[s].step = tap[s].step /\ tap'[s].quality = tap[s].quality
  <2>1. tap'[s] = [tap[s] EXCEPT !.alone = FALSE]
    BY <1>1
  <2>. QED BY <1>2, <2>1 DEF TapState
<1>4. tap'[t].step = "save" /\ tap'[t].quality = q /\ (tap'[t].alone <=> Quiet)
  BY <1>1
<1>5. tap'[t] \in TapState
  <2>1. CASE Quiet
    <3>1. Quiet = TRUE
      BY <2>1
    <3>. QED BY <1>1, <3>1 DEF TapState
  <2>2. CASE ~Quiet
    <3>1. Quiet = FALSE
      BY <2>2
    <3>. QED BY <1>1, <3>1 DEF TapState
  <2>. QED BY <2>1, <2>2
<1>6. tap' \in [Tap -> TapState]
  BY <1>1, <1>3, <1>5
<1>7. Quiet => \A s \in Tap \ {t} : tap'[s].step = "idle"
  BY <1>3 DEF Quiet
<1>8. ~doubt' => ~doubt /\ Quiet
  BY <1>2
<1>9. doubt' \in BOOLEAN
  BY <1>2 DEF TapsOrdered
<1>10. /\ \A s \in Tap : tap'[s].step # "idle" => tap'[s].quality \in Picked
       /\ \A s \in Tap : tap'[s].step # "idle" /\ tap'[s].alone =>
             /\ \A r \in Tap \ {s} : tap'[r].step = "idle"
             /\ tap'[s].step = "show" => pref' = tap'[s].quality
  BY <1>3, <1>4, <1>7 DEF TapsOrdered
<1>11. ASSUME ~doubt'
       PROVE  /\ \A s \in Tap : tap'[s].step # "idle" => tap'[s].alone
              /\ shown' \in {"none", pref'}
  <2>1. \A s \in Tap : tap[s].step # "show"
    BY <1>8, <1>11 DEF Quiet
  <2>. QED BY <1>2, <1>3, <1>4, <1>7, <1>8, <1>11, <2>1 DEF TapsOrdered
<1>. QED BY <1>2, <1>6, <1>9, <1>10, <1>11 DEF TapsOrdered

LEMMA TapsSave ==
    ASSUME TapsOrdered, NEW t \in Tap, TapSave(t)
    PROVE  TapsOrdered'
<1>1. /\ tap \in [Tap -> TapState] /\ tap[t].step = "save" /\ tap[t].quality \in Picked
      /\ shown' = shown /\ doubt' = doubt
  BY DEF TapSave, TapsOrdered
<1>2. CASE pref' = tap[t].quality /\ tap' = [tap EXCEPT ![t].step = "show"]
  <2>1. /\ tap'[t] \in TapState /\ tap'[t].step = "show"
        /\ tap'[t].quality = tap[t].quality /\ tap'[t].alone = tap[t].alone
        /\ \A s \in Tap \ {t} : tap'[s] = tap[s]
    BY <1>1, <1>2 DEF TapState
  <2>2. tap' \in [Tap -> TapState]
    BY <1>1, <1>2, <2>1
  <2>3. \A s \in Tap \ {t} : ~(tap[s].step # "idle" /\ tap[s].alone)
    BY <1>1 DEF TapsOrdered
  <2>. QED BY <1>1, <1>2, <2>1, <2>2, <2>3 DEF TapsOrdered
<1>3. CASE tap' = [tap EXCEPT ![t] = NoTap] /\ pref' = pref
  BY <1>1, <1>3, NoTapTyped DEF TapsOrdered
<1>. QED BY <1>2, <1>3 DEF TapSave

LEMMA TapsShow ==
    ASSUME TapsOrdered, NEW t \in Tap, TapShow(t)
    PROVE  TapsOrdered'
<1>1. /\ tap \in [Tap -> TapState] /\ tap[t].step = "show" /\ tap[t].quality \in Picked
      /\ tap' = [tap EXCEPT ![t] = NoTap] /\ pref' = pref
      /\ tap' \in [Tap -> TapState]
  BY NoTapTyped DEF TapShow, TapsOrdered
<1>2. /\ tap'[t].step = "idle" /\ \A s \in Tap \ {t} : tap'[s] = tap[s]
  BY <1>1, NoTapTyped
<1>3. CASE shown' = tap[t].quality /\ doubt' = (doubt /\ ~tap[t].alone)
  <2>1. doubt' \in BOOLEAN
    BY <1>3 DEF TapsOrdered
  <2>2. ~doubt' => tap[t].alone
    BY <1>1, <1>3 DEF TapsOrdered
  <2>3. tap[t].alone => pref = tap[t].quality /\ \A s \in Tap : tap'[s].step = "idle"
    BY <1>1, <1>2 DEF TapsOrdered
  <2>. QED BY <1>1, <1>2, <1>3, <2>1, <2>2, <2>3 DEF TapsOrdered
<1>4. CASE shown' = shown /\ doubt' = TRUE
  BY <1>1, <1>2, <1>4 DEF TapsOrdered
<1>. QED BY <1>3, <1>4 DEF TapShow

LEMMA TapsNext == TapsOrdered /\ [LmNext]_lmVars => TapsOrdered'
<1>. SUFFICES ASSUME TapsOrdered, [LmNext]_lmVars PROVE TapsOrdered'
  OBVIOUS
<1>1. CASE UNCHANGED <<pref, shown, tap, doubt>>
  BY <1>1 DEF TapsOrdered
<1>2. \/ \E t \in Tap : TapBegin(t) \/ TapSave(t) \/ TapShow(t)
      \/ UNCHANGED <<pref, shown, tap, doubt>>
  BY DEF LmNext, lmVars, MessageArrives, KeepPrefix, ReadPreference, QueueLink, Mp3,
         QualityButton, ChosenInline, PlaylistEntry
<1>. QED BY <1>1, <1>2, TapsBegin, TapsSave, TapsShow

\* However many taps of /setquality overlap and fail: once one has gone through
\* by itself, the quality shown last is the one saved, until taps overlap again
\* or an edit fails.  handleSetQualityCallback.
THEOREM ShownStaysSaved == LmSpec => []ShownIsSaved
<1>1. TapsOrdered => ShownIsSaved
  BY DEF TapsOrdered, ShownIsSaved, Quiet
<1>. QED BY <1>1, TapsInit, TapsNext, PTL DEF LmSpec

-----------------------------------------------------------------------------
(* What the functions do to the texts that occur. *)

Plain == Text(<<>>, "http")
Links == {Plain} \cup {Text(<<m>>, "http") : m \in Prefix}
Modes == Prefix \cup {"default"}

\* The worker reads one of the modes asked, and a link without a prefix.
Good(u, asked) == ParseJobURL(u).mode \in asked /\ ParseJobURL(u).url = Plain

LEMMA ShortTuples ==
    ASSUME NEW m, NEW n
    PROVE  /\ <<m>> # <<>> /\ Head(<<m>>) = m /\ Tail(<<m>>) = <<>>
           /\ <<m, n>> # <<>> /\ Head(<<m, n>>) = m /\ Tail(<<m, n>>) = <<n>>
OBVIOUS

LEMMA ShortSequences ==
    /\ \A S : \A l \in S : <<l>> \in Seq(S) /\ Len(<<l>>) = 1
    /\ \A S : <<>> \in Seq(S) /\ Len(<<>>) = 0
OBVIOUS

LEMMA SequenceParts ==
    ASSUME NEW S, NEW s \in Seq(S), s # <<>>, Len(s) <= 2
    PROVE  /\ s[1] \in S /\ Head(s) = s[1] /\ Head(s) \in S
           /\ Tail(s) \in Seq(S) /\ Len(Tail(s)) <= 2
           /\ Len(s) # 1 => Tail(s) # <<>>
<1>1. Len(s) \in Nat /\ Len(s) > 0
  BY EmptySeq
<1>2. /\ Head(s) \in S /\ Tail(s) \in Seq(S) /\ Len(Tail(s)) = Len(s) - 1
  BY HeadTailProperties
<1>3. s[1] \in S /\ Head(s) = s[1]
  BY <1>1, ElementOfSeq
<1>4. Len(s) # 1 => Tail(s) # <<>>
  <2>1. Tail(s) = <<>> => Len(Tail(s)) = 0
    BY EmptySeq
  <2>. QED BY <1>1, <1>2, <2>1
<1>. QED BY <1>1, <1>2, <1>3, <1>4

LEMMA PlainParses == ParseJobURL(Plain) = [mode |-> "default", url |-> Plain]
BY DEF ParseJobURL, Text, Plain

LEMMA PrefixedParses ==
    ASSUME NEW m \in Prefix
    PROVE  ParseJobURL(Text(<<m>>, "http")) = [mode |-> m, url |-> Plain]
BY ShortTuples DEF ParseJobURL, Text, Plain

LEMMA PrefixSeen ==
    ~HasPrefix(Plain) /\ \A m \in Prefix : HasPrefix(Text(<<m>>, "http"))
BY ShortTuples DEF HasPrefix, StripModePrefix, Text, Plain

LEMMA PrefixPut == ASSUME NEW m PROVE Prefixed(m, Plain) = Text(<<m>>, "http")
BY DEF Prefixed, Plain, Text

LEMMA ArgumentsArePlain == \A w \in Argument : NormalizeURL(w) = Plain
BY ShortTuples DEF Argument, Words, Accepted, LooksLikeURL, NormalizeURL, Text, Plain

LEMMA WordsGiveLinks == \A w \in Words : ExtractURL(w) \in {<<>>} \cup {<<l>> : l \in Links}
<1>1. /\ ExtractURL(Text(<<>>, "http")) = <<Plain>>
      /\ ExtractURL(Text(<<>>, "www")) = <<Plain>>
      /\ ExtractURL(Text(<<>>, "other")) = <<>>
  BY DEF ExtractURL, StripModePrefix, NormalizeURL, LooksLikeURL, Text, Plain
<1>2. ASSUME NEW m \in Prefix, NEW f \in {"http", "www"}
      PROVE  ExtractURL(Text(<<m>>, f)) = <<Text(<<m>>, "http")>>
  BY ShortTuples DEF ExtractURL, StripModePrefix, NormalizeURL, LooksLikeURL, Text, Plain
<1>3. ASSUME NEW m \in Prefix, NEW n
      PROVE  ExtractURL(Text(<<m, n>>, "http")) = <<>>
  BY ShortTuples DEF ExtractURL, StripModePrefix, NormalizeURL, LooksLikeURL, Text, Plain
<1>4. "audio" \in Prefix /\ "q1080" \in Prefix
  BY DEF Prefix, Quality
<1>5. /\ ExtractURL(Text(<<"audio">>, "www")) = <<Text(<<"audio">>, "http")>>
      /\ ExtractURL(Text(<<"q1080">>, "http")) = <<Text(<<"q1080">>, "http")>>
      /\ ExtractURL(Text(<<"audio", "q720">>, "http")) = <<>>
  BY <1>2, <1>3, <1>4
<1>6. /\ Plain \in Links /\ Text(<<"audio">>, "http") \in Links
      /\ Text(<<"q1080">>, "http") \in Links
  BY <1>4 DEF Links
<1>. QED BY <1>1, <1>5, <1>6 DEF Words

LEMMA PlainIsGood == ASSUME NEW asked, "default" \in asked PROVE Good(Plain, asked)
BY PlainParses DEF Good

LEMMA PrefixedIsGood ==
    ASSUME NEW m \in Prefix, NEW asked, m \in asked
    PROVE  Good(Prefixed(m, Plain), asked) /\ Good(Text(<<m>>, "http"), asked)
<1>1. Prefixed(m, Plain) = Text(<<m>>, "http")
  BY PrefixPut
<1>2. ParseJobURL(Text(<<m>>, "http")) = [mode |-> m, url |-> Plain]
  BY PrefixedParses
<1>3. Good(Text(<<m>>, "http"), asked)
  BY <1>2 DEF Good
<1>. QED BY <1>1, <1>3

LEMMA PreferencePut ==
    ASSUME NEW q \in {"none"} \cup Picked
    PROVE  /\ WithPreference(q, Plain) \in Links /\ ModeOf(q) \in Modes
           /\ ParseJobURL(WithPreference(q, Plain)) = [mode |-> ModeOf(q), url |-> Plain]
<1>1. CASE q \in {"none", "best"}
  <2>1. ModeOf(q) = "default"
    BY <1>1 DEF ModeOf, Quality
  <2>. QED BY <1>1, <2>1, PlainParses DEF WithPreference, Links, Modes
<1>2. CASE q \notin {"none", "best"}
  <2>1. q \in Quality
    BY <1>2, PickedAssumption DEF Quality
  <2>2. q \in Prefix /\ ModeOf(q) = q /\ WithPreference(q, Plain) = Text(<<q>>, "http")
    BY <1>2, <2>1, PrefixPut DEF Prefix, ModeOf, WithPreference
  <2>. QED BY <2>2, PrefixedParses DEF Links, Modes
<1>. QED BY <1>1, <1>2

-----------------------------------------------------------------------------
(* The message and the last job. *)

MsgState == [step : {"idle", "next", "queue"}, links : Seq(Links),
             seen : SUBSET Modes, asked : SUBSET Modes]

MsgSane ==
    /\ msg \in MsgState /\ Len(msg.links) <= 2
    /\ msg.step # "idle" => msg.links # <<>>
    /\ msg.step = "next" => ModeOf(pref) \in msg.seen
    /\ msg.step = "queue" => Good(Head(msg.links), msg.asked)

QueuedGood ==
    /\ queued.asked \subseteq Modes /\ queued.entry \in BOOLEAN
    /\ queued # NoneQueued =>
          ParseJobURL(queued.url).url = Plain
          /\ (~queued.entry => Good(queued.url, queued.asked))

ModesKept == TapsOrdered /\ MsgSane /\ QueuedGood

LEMMA NoMsgSane == NoMsg \in MsgState /\ Len(NoMsg.links) = 0 /\ NoMsg.step = "idle"
BY DEF NoMsg, MsgState

LEMMA ModesInit == LmInit => ModesKept
<1>. SUFFICES ASSUME LmInit PROVE ModesKept
  OBVIOUS
<1>1. MsgSane
  BY NoMsgSane DEF LmInit, MsgSane
<1>2. QueuedGood
  BY DEF LmInit, QueuedGood, NoneQueued
<1>. QED BY <1>1, <1>2, TapsInit DEF ModesKept

LEMMA InsertKeeps ==
    ASSUME NEW u, NEW asked \in SUBSET Modes, Good(u, asked), Insert(u, asked)
    PROVE  QueuedGood'
<1>1. queued' = [url |-> u, asked |-> asked, entry |-> FALSE]
  BY DEF Insert
<1>2. queued'.url = u /\ queued'.asked = asked /\ queued'.entry = FALSE
  BY <1>1
<1>. QED BY <1>2 DEF QueuedGood, Good

LEMMA PrefModes ==
    ASSUME ModesKept
    PROVE  /\ pref \in {"none"} \cup Picked
           /\ ModeOf(pref) \in Modes
BY PreferencePut DEF ModesKept, TapsOrdered

LEMMA KeepSave ==
    ASSUME ModesKept, NEW t \in Tap, TapSave(t)
    PROVE  MsgSane'
<1>1. CASE UNCHANGED <<pref, msg>>
  BY <1>1 DEF ModesKept, MsgSane
<1>2. CASE /\ pref' = tap[t].quality
           /\ msg' = IF msg.step = "idle" THEN msg
                     ELSE [msg EXCEPT !.seen = @ \cup {ModeOf(pref')}]
  <2>1. tap[t].quality \in {"none"} \cup Picked
    BY DEF ModesKept, TapsOrdered, TapSave
  <2>2. ModeOf(pref') \in Modes
    BY <1>2, <2>1, PreferencePut
  <2>3. CASE msg.step = "idle"
    BY <1>2, <2>3 DEF ModesKept, MsgSane
  <2>4. CASE msg.step # "idle"
    <3>1. msg \in MsgState
      BY DEF ModesKept, MsgSane
    <3>2. msg' = [msg EXCEPT !.seen = msg.seen \cup {ModeOf(pref')}]
      BY <1>2, <2>4
    <3>3. /\ msg'.step = msg.step /\ msg'.links = msg.links /\ msg'.asked = msg.asked
          /\ msg'.seen = msg.seen \cup {ModeOf(pref')}
          /\ msg' \in MsgState
      BY <2>2, <3>1, <3>2 DEF MsgState
    <3>. QED BY <2>4, <3>3 DEF ModesKept, MsgSane
  <2>. QED BY <2>3, <2>4
<1>. QED BY <1>1, <1>2 DEF TapSave

LEMMA KeepArrives ==
    ASSUME ModesKept, MessageArrives
    PROVE  MsgSane'
<1>1. PICK v \in Words, w \in Words :
         /\ ExtractURL(v) \o ExtractURL(w) # <<>>
         /\ msg' = [NoMsg EXCEPT !.step = "next", !.links = ExtractURL(v) \o ExtractURL(w),
                                 !.seen = {ModeOf(pref)}]
         /\ pref' = pref
  BY DEF MessageArrives
<1>2. /\ ExtractURL(v) \in Seq(Links) /\ ExtractURL(w) \in Seq(Links)
      /\ Len(ExtractURL(v)) <= 1 /\ Len(ExtractURL(w)) <= 1
  <2>1. ASSUME NEW x \in Words
        PROVE  ExtractURL(x) \in Seq(Links) /\ Len(ExtractURL(x)) <= 1
    <3>1. ExtractURL(x) = <<>> \/ \E l \in Links : ExtractURL(x) = <<l>>
      BY WordsGiveLinks
    <3>2. CASE ExtractURL(x) = <<>>
      BY <3>2, ShortSequences
    <3>3. CASE \E l \in Links : ExtractURL(x) = <<l>>
      BY <3>3, ShortSequences
    <3>. QED BY <3>1, <3>2, <3>3
  <2>. QED BY <2>1
<1>. DEFINE links == ExtractURL(v) \o ExtractURL(w)
<1>3. links \in Seq(Links) /\ Len(links) <= 2 /\ links # <<>>
  BY <1>1, <1>2
<1>. HIDE DEF links
<1>4. /\ msg' = [NoMsg EXCEPT !.step = "next", !.links = links, !.seen = {ModeOf(pref)}]
      /\ pref' = pref
  BY <1>1 DEF links
<1>5. msg'.step = "next" /\ msg'.links = links /\ msg'.seen = {ModeOf(pref)}
  BY <1>4 DEF NoMsg
<1>6. msg' \in MsgState
  BY <1>3, <1>4, PrefModes DEF NoMsg, MsgState
<1>. QED BY <1>3, <1>4, <1>5, <1>6 DEF MsgSane

LEMMA KeepKeeps ==
    ASSUME ModesKept, KeepPrefix
    PROVE  MsgSane'
<1>1. /\ msg \in MsgState /\ msg.links \in Seq(Links) /\ msg.links # <<>> /\ Len(msg.links) <= 2
      /\ HasPrefix(Head(msg.links))
      /\ msg' = [msg EXCEPT !.step = "queue", !.asked = {Head(Head(msg.links).pre)}]
  BY DEF ModesKept, MsgSane, KeepPrefix, MsgState
<1>2. Head(msg.links) \in Links
  BY <1>1
<1>3. PICK m \in Prefix : Head(msg.links) = Text(<<m>>, "http")
  BY <1>1, <1>2, PrefixSeen DEF Links
<1>4. Head(Head(msg.links).pre) = m
  BY <1>3, ShortTuples DEF Text
<1>5. /\ msg'.step = "queue" /\ msg'.links = msg.links /\ msg'.asked = {m}
      /\ msg' \in MsgState
  BY <1>1, <1>4 DEF MsgState, Modes
<1>6. Good(Head(msg'.links), msg'.asked)
  BY <1>3, <1>5, PrefixedIsGood
<1>. QED BY <1>1, <1>5, <1>6 DEF MsgSane

LEMMA KeepReads ==
    ASSUME ModesKept, ReadPreference
    PROVE  MsgSane'
<1>1. /\ msg \in MsgState /\ msg.links \in Seq(Links) /\ msg.links # <<>> /\ Len(msg.links) <= 2
      /\ ~HasPrefix(Head(msg.links)) /\ ModeOf(pref) \in msg.seen /\ msg.seen \in SUBSET Modes
  BY DEF ModesKept, MsgSane, ReadPreference, MsgState
<1>2. Head(msg.links) \in Links
  BY <1>1
<1>3. Head(msg.links) = Plain /\ msg.links[1] = Plain
  <2>1. Head(msg.links) = Plain
    BY <1>1, <1>2, PrefixSeen DEF Links
  <2>. QED BY <1>1, <2>1, SequenceParts
<1>4. CASE msg' = [msg EXCEPT !.step = "queue", !.asked = msg.seen,
                              !.links[1] = WithPreference(pref, @)]
  <2>. DEFINE u == WithPreference(pref, Plain)
              links == [msg.links EXCEPT ![1] = u]
  <2>1. u \in Links /\ Good(u, msg.seen)
    <3>1. ParseJobURL(u) = [mode |-> ModeOf(pref), url |-> Plain] /\ u \in Links
      BY PrefModes, PreferencePut
    <3>. QED BY <1>1, <3>1 DEF Good
  <2>. HIDE DEF u
  <2>2. /\ links \in Seq(Links) /\ Len(links) = Len(msg.links) /\ links # <<>>
        /\ Head(links) = u
    BY <1>1, <2>1
  <2>. HIDE DEF links
  <2>3. msg' = [msg EXCEPT !.step = "queue", !.asked = msg.seen, !.links = links]
    BY <1>3, <1>4 DEF u, links
  <2>4. /\ msg'.step = "queue" /\ msg'.links = links /\ msg'.asked = msg.seen
        /\ msg' \in MsgState
    BY <1>1, <2>2, <2>3 DEF MsgState
  <2>. QED BY <1>1, <2>1, <2>2, <2>4 DEF MsgSane
<1>5. CASE msg' = [msg EXCEPT !.step = "queue", !.asked = {"default"}]
  <2>1. /\ msg'.step = "queue" /\ msg'.links = msg.links /\ msg'.asked = {"default"}
        /\ msg' \in MsgState
    BY <1>1, <1>5 DEF MsgState, Modes
  <2>2. Good(Head(msg'.links), msg'.asked)
    BY <1>3, <2>1, PlainIsGood
  <2>. QED BY <1>1, <2>1, <2>2 DEF MsgSane
<1>. QED BY <1>4, <1>5 DEF ReadPreference

LEMMA KeepQueues ==
    ASSUME ModesKept, QueueLink
    PROVE  MsgSane' /\ QueuedGood'
<1>1. /\ msg \in MsgState /\ msg.links \in Seq(Links) /\ msg.links # <<>> /\ Len(msg.links) <= 2
      /\ Good(Head(msg.links), msg.asked) /\ msg.asked \in SUBSET Modes /\ pref' = pref
  BY DEF ModesKept, MsgSane, QueueLink, MsgState
<1>2. QueuedGood'
  <2>1. CASE Insert(Head(msg.links), msg.asked)
    BY <1>1, <2>1, InsertKeeps
  <2>2. CASE UNCHANGED queued
    BY <2>2 DEF ModesKept, QueuedGood
  <2>. QED BY <2>1, <2>2 DEF QueueLink
<1>3. CASE Len(msg.links) = 1
  <2>1. msg' = NoMsg
    BY <1>3 DEF QueueLink
  <2>2. MsgSane'
    BY <2>1, NoMsgSane DEF MsgSane
  <2>. QED BY <1>2, <2>2
<1>4. CASE Len(msg.links) # 1
  <2>1. /\ Tail(msg.links) \in Seq(Links) /\ Len(Tail(msg.links)) <= 2 /\ Tail(msg.links) # <<>>
    BY <1>1, <1>4, SequenceParts
  <2>2. msg' = [NoMsg EXCEPT !.step = "next", !.links = Tail(msg.links), !.seen = {ModeOf(pref)}]
    BY <1>4 DEF QueueLink
  <2>3. /\ msg'.step = "next" /\ msg'.links = Tail(msg.links) /\ msg'.seen = {ModeOf(pref)}
    BY <2>2 DEF NoMsg
  <2>4. msg' \in MsgState
    BY <2>1, <2>2, PrefModes DEF NoMsg, MsgState
  <2>5. MsgSane'
    BY <1>1, <2>1, <2>3, <2>4 DEF MsgSane
  <2>. QED BY <1>2, <2>5
<1>. QED BY <1>3, <1>4

-----------------------------------------------------------------------------
(* The commands. *)

LEMMA CommandKeeps ==
    ASSUME ModesKept, Mp3 \/ QualityButton \/ ChosenInline \/ PlaylistEntry
    PROVE  MsgSane' /\ QueuedGood'
<1>1. MsgSane'
  BY DEF ModesKept, MsgSane, Mp3, QualityButton, ChosenInline, PlaylistEntry
<1>2. {"audio"} \in SUBSET Modes /\ {"default"} \in SUBSET Modes /\ "audio" \in Prefix
  BY DEF Modes, Prefix
<1>3. CASE Mp3
  <2>1. Insert(Prefixed("audio", Plain), {"audio"})
    BY <1>3, ArgumentsArePlain DEF Mp3
  <2>2. Good(Prefixed("audio", Plain), {"audio"})
    BY <1>2, PrefixedIsGood
  <2>. QED BY <1>1, <1>2, <2>1, <2>2, InsertKeeps
<1>4. CASE QualityButton
  <2>1. PICK q \in Quality \cup {"qbest"} :
           Insert(IF q = "qbest" THEN Plain ELSE Prefixed(q, Plain), {ModeOf(q)})
    BY <1>4, ArgumentsArePlain DEF QualityButton
  <2>2. CASE q = "qbest"
    <3>1. ModeOf(q) = "default"
      BY <2>2 DEF ModeOf, Quality
    <3>2. Insert(Plain, {"default"})
      BY <2>1, <2>2, <3>1
    <3>. QED BY <1>1, <1>2, <3>2, PlainIsGood, InsertKeeps
  <2>3. CASE q \in Quality /\ q # "qbest"
    <3>1. q \in Prefix /\ ModeOf(q) = q /\ {q} \in SUBSET Modes
      BY <2>3 DEF ModeOf, Prefix, Modes
    <3>2. Insert(Prefixed(q, Plain), {q})
      BY <2>1, <2>3, <3>1
    <3>3. Good(Prefixed(q, Plain), {q})
      BY <3>1, PrefixedIsGood
    <3>. QED BY <1>1, <3>1, <3>2, <3>3, InsertKeeps
  <2>. QED BY <2>1, <2>2, <2>3
<1>5. CASE ChosenInline
  <2>1. PICK id \in DOMAIN Offer :
           Insert(IF InlineMode(id) = "default" THEN Plain
                  ELSE Prefixed(InlineMode(id), Plain), {Offer[id]})
    BY <1>5, ArgumentsArePlain DEF ChosenInline
  <2>2. Offer[id] = InlineMode(id) /\ InlineMode(id) \in Modes
    BY DEF Offer, InlineMode, Modes, Prefix, Quality
  <2>3. CASE InlineMode(id) = "default"
    <3>1. Insert(Plain, {"default"})
      BY <2>1, <2>2, <2>3
    <3>. QED BY <1>1, <1>2, <3>1, PlainIsGood, InsertKeeps
  <2>4. CASE InlineMode(id) # "default"
    <3>1. InlineMode(id) \in Prefix /\ {InlineMode(id)} \in SUBSET Modes
      BY <2>2, <2>4 DEF Modes
    <3>2. Insert(Prefixed(InlineMode(id), Plain), {InlineMode(id)})
      BY <2>1, <2>2, <2>4
    <3>3. Good(Prefixed(InlineMode(id), Plain), {InlineMode(id)})
      BY <3>1, PrefixedIsGood
    <3>. QED BY <1>1, <3>1, <3>2, <3>3, InsertKeeps
  <2>. QED BY <2>3, <2>4
<1>6. CASE PlaylistEntry
  <2>1. {ModeOf(shown), ModeOf(pref)} \in SUBSET Modes
    BY PreferencePut DEF ModesKept, TapsOrdered
  <2>2. queued' = [url |-> Plain, asked |-> {ModeOf(shown), ModeOf(pref)},
                   entry |-> TRUE]
    BY <1>6 DEF PlaylistEntry, Plain
  <2>3. /\ queued'.url = Plain /\ queued'.entry = TRUE
        /\ queued'.asked = {ModeOf(shown), ModeOf(pref)}
    BY <2>2
  <2>4. queued'.asked \subseteq Modes /\ queued'.entry \in BOOLEAN /\ queued'.entry
    BY <2>1, <2>3
  <2>5. ParseJobURL(queued'.url).url = Plain
    BY <2>3, PlainParses
  <2>6. QueuedGood'
    BY <2>4, <2>5 DEF QueuedGood
  <2>. QED BY <1>1, <2>6
<1>. QED BY <1>3, <1>4, <1>5, <1>6

LEMMA ModesNext == ModesKept /\ [LmNext]_lmVars => ModesKept'
<1>. SUFFICES ASSUME ModesKept, [LmNext]_lmVars PROVE MsgSane' /\ QueuedGood'
  BY TapsNext DEF ModesKept
<1>1. ASSUME NEW t \in Tap, TapBegin(t) \/ TapShow(t) PROVE MsgSane' /\ QueuedGood'
  BY <1>1 DEF ModesKept, MsgSane, QueuedGood, TapBegin, TapShow
<1>2. ASSUME NEW t \in Tap, TapSave(t) PROVE MsgSane' /\ QueuedGood'
  <2>1. QueuedGood'
    BY <1>2 DEF ModesKept, QueuedGood, TapSave
  <2>. QED BY <1>2, <2>1, KeepSave
<1>3. CASE MessageArrives \/ KeepPrefix \/ ReadPreference
  <2>1. QueuedGood'
    BY <1>3 DEF ModesKept, QueuedGood, MessageArrives, KeepPrefix, ReadPreference
  <2>. QED BY <1>3, <2>1, KeepArrives, KeepKeeps, KeepReads
<1>4. CASE UNCHANGED lmVars
  BY <1>4 DEF ModesKept, MsgSane, QueuedGood, lmVars
<1>. QED BY <1>1, <1>2, <1>3, <1>4, KeepQueues, CommandKeeps DEF LmNext

LEMMA ModesInvariant == LmSpec => []ModesKept
BY ModesInit, ModesNext, PTL DEF LmSpec

\* Every state of the taps, the message and the last job is well typed, a mode
\* that is asked for is one parseJobURL knows.
THEOREM LmTypeCorrect == LmSpec => []LmTypeOK
<1>1. ModesKept => LmTypeOK
  BY DEF ModesKept, TapsOrdered, MsgSane, QueuedGood, LmTypeOK, TapState, MsgState, Modes
<1>. QED BY <1>1, ModesInvariant, PTL

\* Whatever a user types, taps, chooses or lists, and whenever the preference
\* changes meanwhile, the worker reads a link without a prefix and, but for the
\* entries of playlists, a mode that was asked for.  bot.go against parseJobURL
\* in worker.go.
THEOREM ModesAreHonoured == LmSpec => []ModeHonoured
<1>1. ModesKept => ModeHonoured
  BY DEF ModesKept, QueuedGood, Good, Plain, ModeHonoured
<1>. QED BY <1>1, ModesInvariant, PTL
=============================================================================
