-------------------------- MODULE DownloaderProofs --------------------------
(***************************************************************************)
(* Theorems about Downloader, for pipes of every size and runs of every    *)
(* length.                                                                 *)
(***************************************************************************)
EXTENDS Downloader, TLAPS, SequenceTheorems

USE BoundsAssumption

-----------------------------------------------------------------------------
(* The chains, and what an external call leaves behind. *)

Rungs == {"audio", "best", "q1080", "q720", "q480", "q360"}

LEMMA Singleton == ASSUME NEW S, NEW e \in S PROVE <<e>> \in Seq(S)
OBVIOUS

LEMMA FourRungs ==
    ASSUME NEW S, NEW q1 \in S, NEW q2 \in S, NEW q3 \in S, NEW q4 \in S
    PROVE  <<q1, q2, q3, q4>> \in Seq(S)
OBVIOUS

LEMMA Suffix ==
    ASSUME NEW S, NEW q \in Seq(S), Len(q) = 4, NEW n \in 1..4, NEW e \in S
    PROVE  /\ Append(SubSeq(q, n, 4), e) \in Seq(S)
           /\ Len(Append(SubSeq(q, n, 4), e)) >= 1
<1>1. \A i \in n..4 : q[i] \in S
  BY ElementOfSeq
<1>2. SubSeq(q, n, 4) \in Seq(S)
  BY <1>1, SubSeqProperties
<1>. QED BY <1>2

\* Every chain is a sequence of rungs, and has one.
LEMMA ChainsAreSequences ==
    \A c \in Chains : c \in Seq(Rungs) /\ Len(c) \in Nat \ {0}
<1>1. \A r : Len(<<r>>) = 1
  OBVIOUS
<1>2. Qualities \in Seq(Rungs)
  BY FourRungs DEF Qualities, Rungs
<1>3. Len(Qualities) = 4 /\ DOMAIN Qualities = 1..4
  BY DEF Qualities
<1>4. ASSUME NEW i \in DOMAIN Qualities
      PROVE  /\ QualityFallbackChain(Qualities[i]) \in Seq(Rungs)
             /\ Len(QualityFallbackChain(Qualities[i])) \in Nat \ {0}
  <2>. DEFINE n == CHOOSE n \in DOMAIN Qualities : Qualities[n] = Qualities[i]
  <2>1. n \in 1..4
    BY <1>3, <1>4
  <2>2. QualityFallbackChain(Qualities[i]) = Append(SubSeq(Qualities, n, 4), "best")
    BY <1>3 DEF QualityFallbackChain
  <2>. HIDE DEF n
  <2>3. "best" \in Rungs
    BY DEF Rungs
  <2>4. /\ Append(SubSeq(Qualities, n, 4), "best") \in Seq(Rungs)
        /\ Len(Append(SubSeq(Qualities, n, 4), "best")) >= 1
    BY <1>2, <1>3, <2>1, <2>3, Suffix
  <2>5. Len(Append(SubSeq(Qualities, n, 4), "best")) \in Nat
    BY <2>4
  <2>. QED BY <2>2, <2>4, <2>5
<1>5. "audio" \in Rungs /\ "best" \in Rungs
  BY DEF Rungs
<1>6. ASSUME NEW r \in Rungs
      PROVE  <<r>> \in Seq(Rungs) /\ Len(<<r>>) \in Nat \ {0}
  BY <1>1, Singleton
<1>. QED BY <1>4, <1>5, <1>6 DEF Chains

\* Whatever a call leaves is a file of this rung; thumbnails come from the two
\* image calls only, and the metadata leaves nothing.
LEMMA LeavesFiles ==
    ASSUME TypeOK, NEW ok \in BOOLEAN, NEW new \in Leaves(ok)
    PROVE  /\ new \subseteq File
           /\ \A f \in new : f.rung = rung
           /\ (\E f \in new : f.kind = "thumb") => step \in {"thumbnail", "url"}
           /\ step \notin {"running", "thumbnail", "url"} => new = {}
<1>1. rung \in Nat
  BY ChainsAreSequences DEF TypeOK
<1>2. ASSUME NEW k \in {"media", "part", "thumb"}
      PROVE  /\ [rung |-> rung, kind |-> k] \in File
             /\ [rung |-> rung, kind |-> k].rung = rung
             /\ [rung |-> rung, kind |-> k].kind = k
  BY <1>1 DEF File
<1>3. ASSUME NEW f \in new
      PROVE  /\ f \in File /\ f.rung = rung
             /\ f.kind = "thumb" => step \in {"thumbnail", "url"}
             /\ step \in {"running", "thumbnail", "url"}
  <2>1. PICK k \in {"media", "part", "thumb"} :
              /\ f = [rung |-> rung, kind |-> k]
              /\ k = "thumb" => step \in {"thumbnail", "url"}
              /\ step \in {"running", "thumbnail", "url"}
    BY <1>3 DEF Leaves
  <2>. QED BY <1>2, <2>1
<1>. QED BY <1>3

-----------------------------------------------------------------------------
(* Type correctness. *)

\* An empty pipe is a pipe.
LEMMA EmptyPipe == <<>> \in Seq(Lines) /\ Len(<<>>) <= PipeCap
OBVIOUS

LEMMA TypeInit == Init => TypeOK
<1>. SUFFICES ASSUME Init PROVE TypeOK
  OBVIOUS
<1>1. 1 \in 1..Len(chain)
  BY ChainsAreSequences DEF Init
<1>2. pipe \in [Pipes -> Seq(Lines)] /\ \A p \in Pipes : Len(pipe[p]) <= PipeCap
  BY EmptyPipe DEF Init
<1>3. result \in [status : {"none", "ok", "error"}, file : File]
  BY DEF Init, NoFile, File
<1>4. /\ todo \in [Pipes -> 0..MaxLines]
      /\ reader \in [Pipes -> {"none", "reading", "reporting", "done"}]
  BY DEF Init
<1>5. /\ canceled \in BOOLEAN /\ said \in BOOLEAN
      /\ closed \in BOOLEAN /\ thumb \in BOOLEAN
  BY DEF Init
<1>. QED BY <1>1, <1>2, <1>3, <1>4, <1>5 DEF Init, TypeOK

LEMMA TypeNext == TypeOK /\ [Next]_vars => TypeOK'
<1>. SUFFICES ASSUME TypeOK, [Next]_vars PROVE TypeOK'
  OBVIOUS
<1>. USE DEF TypeOK, runVars
<1>0. chain \in Seq(Rungs) /\ Len(chain) \in Nat \ {0} /\ rung \in Nat
  BY ChainsAreSequences
<1>1. CASE Code
  <2>. USE DEF Goto, Launch, Return, InFlight
  <2>1. CASE Attempt
    BY <2>1 DEF Attempt
  <2>2. CASE MetadataOver
    BY <2>2 DEF MetadataOver
  <2>3. CASE Run
    BY <2>3, EmptyPipe DEF Run
  <2>4. CASE RunFails
    BY <2>4 DEF RunFails
  <2>5. CASE WaitOver
    BY <2>5 DEF WaitOver
  <2>6. CASE Join
    BY <2>6, EmptyPipe DEF Join
  <2>7. CASE Judge
    BY <2>7 DEF Judge
  <2>8. CASE FindOutput
    BY <2>8 DEF FindOutput, Found
  <2>9. CASE Image
    BY <2>9 DEF Image
  <2>10. CASE ThumbnailOver
    BY <2>10 DEF ThumbnailOver, Found
  <2>11. CASE Link
    BY <2>11 DEF Link
  <2>12. CASE UrlOver
    BY <1>0, <2>12 DEF UrlOver, File
  <2>13. CASE NextRung
    BY <1>0, <2>13 DEF NextRung
  <2>14. CASE GiveUp
    BY <2>14 DEF GiveUp, NoFile, File
  <2>. QED
    BY <1>1, <2>1, <2>2, <2>3, <2>4, <2>5, <2>6, <2>7, <2>8, <2>9, <2>10,
       <2>11, <2>12, <2>13, <2>14 DEF Code
<1>2. ASSUME NEW p \in Pipes, Reader(p) PROVE TypeOK'
  <2>1. CASE ReadLine(p)
    <3>1. /\ Tail(pipe[p]) \in Seq(Lines) /\ Head(pipe[p]) \in Lines
          /\ Len(Tail(pipe[p])) <= PipeCap
      BY <2>1 DEF ReadLine
    <3>. QED BY <2>1, <3>1 DEF ReadLine
  <2>2. CASE Reported(p) \/ ReadEnd(p)
    BY <2>2 DEF Reported, ReadEnd
  <2>. QED BY <1>2, <2>1, <2>2 DEF Reader
<1>3. ASSUME NEW p \in Pipes, NEW line \in Lines, Write(p, line) PROVE TypeOK'
  <2>1. /\ Append(pipe[p], line) \in Seq(Lines)
        /\ Len(Append(pipe[p], line)) <= PipeCap
    BY <1>3 DEF Write
  <2>2. todo[p] - 1 \in 0..MaxLines
    BY <1>3 DEF Write
  <2>. QED BY <1>3, <2>1, <2>2 DEF Write
<1>4. ASSUME NEW ok \in BOOLEAN, Exit(ok) PROVE TypeOK'
  BY <1>4, LeavesFiles DEF Exit
<1>5. CASE Kill
  BY <1>5, LeavesFiles DEF Kill
<1>6. CASE Hang \/ Cancel
  BY <1>6 DEF Hang, Cancel
<1>7. CASE Rest \/ UNCHANGED vars
  BY <1>7 DEF Rest, vars
<1>. QED
  BY <1>1, <1>2, <1>3, <1>4, <1>5, <1>6, <1>7 DEF Next, YtDlp

\* Every reachable state is well typed, for pipes and runs of every size.
THEOREM TypeCorrect == Spec => []TypeOK
BY TypeInit, TypeNext, PTL DEF Spec

-----------------------------------------------------------------------------
(* The readers.  They start with yt-dlp, and Join waits for both. *)

LEMMA ReaderNext ==
    TypeOK /\ NoReaderOutlivesRun /\ [Next]_vars => NoReaderOutlivesRun'
<1>. SUFFICES ASSUME TypeOK, NoReaderOutlivesRun, [Next]_vars
              PROVE  NoReaderOutlivesRun'
  OBVIOUS
<1>. USE DEF NoReaderOutlivesRun, Live, runVars
<1>1. CASE Code
  <2>. USE DEF Goto, Launch, Return
  <2>1. CASE Run \/ WaitOver
    BY <2>1 DEF Run, WaitOver
  <2>2. CASE Join
    BY <2>2 DEF Join
  <2>3. CASE Attempt \/ MetadataOver \/ RunFails \/ Judge
    BY <2>3 DEF Attempt, MetadataOver, RunFails, Judge
  <2>4. CASE FindOutput \/ Image \/ ThumbnailOver \/ Link \/ UrlOver
    BY <2>4 DEF FindOutput, Image, ThumbnailOver, Link, UrlOver
  <2>5. CASE NextRung \/ GiveUp
    BY <2>5 DEF NextRung, GiveUp
  <2>. QED BY <1>1, <2>1, <2>2, <2>3, <2>4, <2>5 DEF Code
<1>2. ASSUME NEW p \in Pipes, Reader(p) PROVE NoReaderOutlivesRun'
  <2>1. step' = step /\ reader[p] \in {"reading", "reporting"}
    BY <1>2 DEF Reader, ReadLine, Reported, ReadEnd
  <2>. QED BY <2>1
<1>3. CASE YtDlp \/ Hang \/ Kill \/ Cancel
  BY <1>3 DEF YtDlp, Write, Exit, Hang, Kill, Cancel
<1>4. CASE Rest \/ UNCHANGED vars
  BY <1>4 DEF Rest, vars
<1>. QED BY <1>1, <1>2, <1>3, <1>4 DEF Next

\* No goroutine of a run is left when its output is judged: Join waits for both
\* readers, whatever closes the pipes under them.
THEOREM ReadersAreJoined == Spec => []NoReaderOutlivesRun
<1>1. Init => NoReaderOutlivesRun
  BY DEF Init, NoReaderOutlivesRun, Live
<1>. QED BY <1>1, TypeCorrect, ReaderNext, PTL DEF Spec

-----------------------------------------------------------------------------
(* The result. *)

\* The directory holds files of this attempt only, and none before the download
\* begins: NextRung cleans it.
FilesOfRung ==
    /\ \A f \in files : f.rung = rung
    /\ step \in {"attempt", "metadata", "start"} => files = {}

\* What the readers have, or may still get, of "no video" was said in this run.
HeardIsSaid ==
    /\ "noVideo" \in heard => said
    /\ \A p \in Pipes : \A i \in 1..Len(pipe[p]) : pipe[p][i] = "noVideo" => said

\* Images are tried for in the last rung only, after "no video".
ImageNeedsNoVideo ==
    (step \in {"image", "thumbnail", "link", "url"} \/ \E f \in files : f.kind = "thumb")
        => chain[rung] = "best" /\ said

\* A result is a whole file of the directory, and final.
ResultInFiles ==
    result.status = "ok" =>
        step = "returned" /\ result.file \in files /\ result.file.kind # "part"

\* downloadURL returns a file that it has written.
UrlSaved ==
    step = "url" /\ proc = "ok" => [rung |-> rung, kind |-> "thumb"] \in files

Sound ==
    FilesOfRung /\ HeardIsSaid /\ ImageNeedsNoVideo /\ UrlSaved /\ ResultInFiles

\* Steps of the goroutine that start no run, clean nothing and decide nothing.
LEMMA SoundCalls ==
    ASSUME TypeOK, Sound,
           Attempt \/ MetadataOver \/ RunFails \/ WaitOver \/ Image \/ Link
    PROVE  Sound'
<1>1. UNCHANGED <<chain, rung, said, pipe, heard, files, result>>
  BY DEF Attempt, MetadataOver, RunFails, WaitOver, Image, Link, runVars
<1>2. /\ step # "returned"
      /\ step' \in {"attempt", "metadata", "start"} => files = {}
      /\ step' \in {"image", "thumbnail", "link", "url"}
            => step \in {"image", "thumbnail", "link", "url"}
      /\ step' = "url" => proc' # "ok"
  BY DEF Attempt, MetadataOver, RunFails, WaitOver, Image, Link, Goto, Launch,
         Sound, FilesOfRung
<1>. QED
  BY <1>1, <1>2
     DEF Sound, FilesOfRung, HeardIsSaid, ImageNeedsNoVideo, UrlSaved,
         ResultInFiles

\* A new run has said nothing, and finds the directory empty.
LEMMA SoundRun == ASSUME TypeOK, Sound, Run PROVE Sound'
<1>. USE DEF Run, Launch
<1>1. step = "start" /\ step' = "running" /\ UNCHANGED <<rung, files, result>>
  OBVIOUS
<1>2. files = {} /\ result.status # "ok"
  BY <1>1 DEF Sound, FilesOfRung, ResultInFiles
<1>3. HeardIsSaid'
  BY EmptyPipe DEF HeardIsSaid
<1>. QED
  BY <1>1, <1>2, <1>3
     DEF Sound, FilesOfRung, ImageNeedsNoVideo, UrlSaved, ResultInFiles

LEMMA SoundJoin == ASSUME TypeOK, Sound, Join PROVE Sound'
<1>. USE DEF Join, Goto
<1>1. HeardIsSaid'
  BY EmptyPipe DEF Sound, HeardIsSaid
<1>. QED BY <1>1
   DEF Sound, FilesOfRung, ImageNeedsNoVideo, UrlSaved, ResultInFiles

\* The image fallback is chosen on what was heard, so on what was said.
LEMMA SoundJudge == ASSUME TypeOK, Sound, Judge PROVE Sound'
<1>. USE DEF Judge, Goto, runVars
<1>1. step' = "image" => chain[rung] = "best" /\ said
  BY DEF Sound, HeardIsSaid
<1>. QED
  BY <1>1
     DEF Sound, FilesOfRung, HeardIsSaid, ImageNeedsNoVideo, UrlSaved,
         ResultInFiles

\* Where a result is made, and where none is.
LEMMA SoundReturn ==
    ASSUME TypeOK, Sound, FindOutput \/ ThumbnailOver \/ UrlOver \/ GiveUp
    PROVE  Sound'
<1>. USE DEF FindOutput, ThumbnailOver, UrlOver, GiveUp, Return
<1>1. UNCHANGED <<chain, rung, said, pipe, heard, files>>
  BY DEF runVars
<1>2. /\ step \notin {"attempt", "metadata", "start", "returned"}
      /\ step' \in {"failed", "link", "returned"}
      /\ step' = "link" => step = "thumbnail"
  OBVIOUS
<1>3. FilesOfRung' /\ HeardIsSaid' /\ ImageNeedsNoVideo'
  BY <1>1, <1>2 DEF Sound, FilesOfRung, HeardIsSaid, ImageNeedsNoVideo
<1>4. result' # result => step' = "returned" /\ result'.status \in {"ok", "error"}
  OBVIOUS
<1>5. result' # result /\ result'.status = "ok"
        => result'.file \in files /\ result'.file.kind # "part"
  <2>1. CASE FindOutput \/ ThumbnailOver
    BY <2>1 DEF Found
  <2>2. CASE UrlOver
    BY <2>2 DEF Sound, UrlSaved
  <2>3. CASE GiveUp
    BY <2>3
  <2>. QED BY <2>1, <2>2, <2>3
<1>6. ResultInFiles' /\ UrlSaved'
  BY <1>1, <1>2, <1>4, <1>5 DEF Sound, ResultInFiles, UrlSaved
<1>. QED BY <1>3, <1>6 DEF Sound

LEMMA SoundNextRung == ASSUME TypeOK, Sound, NextRung PROVE Sound'
<1>. USE DEF NextRung, Goto, runVars
<1>1. result.status # "ok"
  BY DEF Sound, ResultInFiles
<1>. QED
  BY <1>1
     DEF Sound, FilesOfRung, HeardIsSaid, ImageNeedsNoVideo, UrlSaved,
         ResultInFiles

\* A reader takes the first line off its pipe, and notes it.
LEMMA SoundReader == ASSUME TypeOK, Sound, NEW p \in Pipes, Reader(p) PROVE Sound'
<1>1. UNCHANGED <<chain, rung, step, proc, said, files, result>>
  BY DEF Reader, ReadLine, Reported, ReadEnd
<1>2. CASE ReadLine(p)
  <2>1. /\ pipe[p] \in Seq(Lines) /\ pipe[p] # <<>>
        /\ pipe' = [pipe EXCEPT ![p] = Tail(@)]
        /\ heard' = heard \cup {Head(pipe[p])}
    BY <1>2 DEF ReadLine, TypeOK
  <2>2. /\ Head(pipe[p]) = pipe[p][1] /\ 1 \in 1..Len(pipe[p])
        /\ \A i \in 1..Len(Tail(pipe[p])) :
              i + 1 \in 1..Len(pipe[p]) /\ Tail(pipe[p])[i] = pipe[p][i + 1]
    BY <2>1
  <2>3. Head(pipe[p]) = "noVideo" => said
    BY <2>2 DEF Sound, HeardIsSaid
  <2>4. \A i \in 1..Len(Tail(pipe[p])) : Tail(pipe[p])[i] = "noVideo" => said
    BY <2>2 DEF Sound, HeardIsSaid
  <2>5. ASSUME NEW q \in Pipes
        PROVE  \A i \in 1..Len(pipe'[q]) : pipe'[q][i] = "noVideo" => said
    <3>1. pipe'[q] = IF q = p THEN Tail(pipe[p]) ELSE pipe[q]
      BY <2>1 DEF TypeOK
    <3>. QED BY <2>4, <3>1 DEF Sound, HeardIsSaid
  <2>6. HeardIsSaid'
    BY <1>1, <2>1, <2>3, <2>5 DEF Sound, HeardIsSaid
  <2>. QED BY <1>1, <2>6
     DEF Sound, FilesOfRung, ImageNeedsNoVideo, UrlSaved, ResultInFiles
<1>3. CASE Reported(p) \/ ReadEnd(p)
  <2>1. UNCHANGED <<pipe, heard>>
    BY <1>3 DEF Reported, ReadEnd
  <2>. QED
    BY <1>1, <2>1
       DEF Sound, FilesOfRung, HeardIsSaid, ImageNeedsNoVideo, UrlSaved,
           ResultInFiles
<1>. QED BY <1>2, <1>3 DEF Reader

LEMMA SoundWrite ==
    ASSUME TypeOK, Sound, NEW p \in Pipes, NEW line \in Lines, Write(p, line)
    PROVE  Sound'
<1>1. /\ UNCHANGED <<chain, rung, step, proc, files, result, heard>>
      /\ pipe' = [pipe EXCEPT ![p] = Append(@, line)]
      /\ said' = (said \/ line = "noVideo")
  BY DEF Write
<1>2. pipe[p] \in Seq(Lines)
  BY DEF TypeOK
<1>3. \A i \in 1..Len(Append(pipe[p], line)) :
         \/ i \in 1..Len(pipe[p]) /\ Append(pipe[p], line)[i] = pipe[p][i]
         \/ Append(pipe[p], line)[i] = line
  BY <1>2
<1>4. \A i \in 1..Len(Append(pipe[p], line)) :
         Append(pipe[p], line)[i] = "noVideo" => said'
  BY <1>1, <1>3 DEF Sound, HeardIsSaid
<1>5. ASSUME NEW q \in Pipes
      PROVE  \A i \in 1..Len(pipe'[q]) : pipe'[q][i] = "noVideo" => said'
  <2>1. pipe'[q] = IF q = p THEN Append(pipe[p], line) ELSE pipe[q]
    BY <1>1 DEF TypeOK
  <2>. QED BY <1>1, <1>4, <2>1 DEF Sound, HeardIsSaid
<1>6. HeardIsSaid'
  BY <1>1, <1>5 DEF Sound, HeardIsSaid
<1>. QED
  BY <1>1, <1>6
     DEF Sound, FilesOfRung, ImageNeedsNoVideo, UrlSaved, ResultInFiles

\* What a call leaves is of this rung, and an image only where one is due.
LEMMA SoundLeaves ==
    ASSUME TypeOK, Sound, NEW ok \in BOOLEAN, NEW new \in Leaves(ok),
           files' = files \cup new,
           UNCHANGED <<chain, rung, step, said, pipe, heard, result>>,
           proc' = IF ok THEN "ok" ELSE "failed"
    PROVE  Sound'
<1>1. FilesOfRung'
  BY LeavesFiles DEF Sound, FilesOfRung
<1>2. ImageNeedsNoVideo'
  BY LeavesFiles DEF Sound, ImageNeedsNoVideo
<1>3. UrlSaved'
  <2>. SUFFICES ASSUME step = "url", ok PROVE [rung |-> rung, kind |-> "thumb"] \in new
    BY DEF UrlSaved
  <2>. QED BY DEF Leaves
<1>. QED BY <1>1, <1>2, <1>3 DEF Sound, HeardIsSaid, ResultInFiles

LEMMA SoundNext == TypeOK /\ Sound /\ [Next]_vars => Sound'
<1>. SUFFICES ASSUME TypeOK, Sound, [Next]_vars PROVE Sound'
  OBVIOUS
<1>1. CASE Code
  BY <1>1, SoundCalls, SoundRun, SoundJoin, SoundJudge, SoundReturn, SoundNextRung
     DEF Code
<1>2. ASSUME NEW p \in Pipes, Reader(p) PROVE Sound'
  BY <1>2, SoundReader
<1>3. ASSUME NEW p \in Pipes, NEW line \in Lines, Write(p, line) PROVE Sound'
  BY <1>3, SoundWrite
<1>4. ASSUME NEW ok \in BOOLEAN, Exit(ok) PROVE Sound'
  BY <1>4, SoundLeaves DEF Exit, runVars
<1>5. CASE Kill
  BY <1>5, SoundLeaves DEF Kill, runVars
<1>6. CASE Hang \/ Cancel \/ Rest \/ UNCHANGED vars
  <2>1. /\ UNCHANGED <<chain, rung, step, said, pipe, heard, files, result>>
        /\ proc' = "ok" => proc = "ok"
    BY <1>6 DEF Hang, Cancel, Rest, vars, runVars
  <2>. QED
    BY <2>1
       DEF Sound, FilesOfRung, HeardIsSaid, ImageNeedsNoVideo, UrlSaved,
           ResultInFiles
<1>. QED BY <1>1, <1>2, <1>3, <1>4, <1>5, <1>6 DEF Next, YtDlp

\* What is sent was made by the attempt that succeeded: not left by a quality
\* that failed, not a partial file, and an image only when there is no video.
THEOREM ResultsAreFresh == Spec => []ResultIsOfThisAttempt
<1>1. Init => Sound
  BY EmptyPipe
     DEF Init, Sound, FilesOfRung, HeardIsSaid, ImageNeedsNoVideo, UrlSaved,
         ResultInFiles
<1>2. Sound => ResultIsOfThisAttempt
  BY DEF Sound, FilesOfRung, ImageNeedsNoVideo, UrlSaved, ResultInFiles,
         ResultIsOfThisAttempt
<1>. QED BY <1>1, <1>2, TypeCorrect, SoundNext, PTL DEF Spec

-----------------------------------------------------------------------------
(* The promise.  The worker's goroutine waits for what it started before it   *)
(* goes on, so at its other steps nothing runs and nobody reads.              *)

Running == proc \in {"running", "hung"}

Readers == {p \in Pipes : Live(p)}

\* An external call runs only while the goroutine waits for it, and there is a
\* result when the download has returned, not before.
InStep ==
    /\ Running => step \in InFlight
    /\ result.status = "none" <=> step # "returned"

Orderly == TypeOK /\ NoReaderOutlivesRun /\ InStep

LEMMA OrderlyInit == Init => Orderly
BY TypeInit DEF Init, Orderly, NoReaderOutlivesRun, Live, InStep, Running, NoFile

LEMMA InStepNext == Orderly /\ [Next]_vars => InStep'
<1>. SUFFICES ASSUME Orderly, [Next]_vars PROVE InStep'
  OBVIOUS
<1>0. result \in [status : {"none", "ok", "error"}, file : File]
  BY DEF Orderly, TypeOK
<1>. USE <1>0 DEF Orderly, InStep, Running, InFlight, runVars
<1>1. CASE Code
  <2>. USE DEF Goto, Launch, Return, Over
  <2>1. CASE Attempt \/ MetadataOver \/ Run \/ RunFails \/ WaitOver
    BY <2>1 DEF Attempt, MetadataOver, Run, RunFails, WaitOver
  <2>2. CASE Join \/ Judge \/ Image \/ Link \/ NextRung
    BY <2>2 DEF Join, Judge, Image, Link, NextRung
  <2>3. CASE FindOutput \/ GiveUp
    BY <2>3 DEF FindOutput, GiveUp
  <2>4. CASE ThumbnailOver \/ UrlOver
    BY <2>4 DEF ThumbnailOver, UrlOver
  <2>. QED BY <1>1, <2>1, <2>2, <2>3, <2>4 DEF Code
<1>2. ASSUME NEW p \in Pipes, Reader(p) PROVE InStep'
  BY <1>2 DEF Reader, ReadLine, Reported, ReadEnd
<1>3. CASE YtDlp \/ Hang \/ Kill \/ Cancel
  BY <1>3 DEF YtDlp, Write, Exit, Hang, Kill, Cancel
<1>4. CASE Rest \/ UNCHANGED vars
  BY <1>4 DEF Rest, vars
<1>. QED BY <1>1, <1>2, <1>3, <1>4 DEF Next

LEMMA OrderlyAlways == Spec => []Orderly
BY OrderlyInit, InStepNext, TypeNext, ReaderNext, PTL DEF Spec, Orderly

\* A program has ended when the goroutine goes on from where it waited for it.
LEMMA WaitsForNothing ==
    ASSUME Orderly, step \notin InFlight \/ Over
    PROVE  ~Running
BY DEF Orderly, InStep, Running, Over

\* Then nothing goes on, except in a run, whose readers are joined first.
LEMMA AtRest ==
    ASSUME Orderly, ~Running, step \notin {"running", "join", "returned"}
    PROVE  Promise!Quiet
<1>1. result.status = "none"
  BY DEF Orderly, InStep
<1>2. Readers = {}
  BY DEF Orderly, NoReaderOutlivesRun, Readers
<1>. QED BY <1>1, <1>2 DEF Promise!Quiet, Running, Readers

Mapped == Promise!Next \/ UNCHANGED Promise!vars

\* Nothing changes that the promise speaks of.
LEMMA MapsToStutter ==
    ASSUME result' = result, canceled' = canceled, chain' = chain, rung' = rung,
           Running' <=> Running, Readers' = Readers
    PROVE  Mapped
<1>1. (proc \in {"running", "hung"})' = (proc \in {"running", "hung"})
  BY DEF Running
<1>2. {p \in Pipes : Live(p)}' = {p \in Pipes : Live(p)}
  BY DEF Readers
<1>. QED BY <1>1, <1>2 DEF Mapped, Promise!vars

LEMMA MapsToCall ==
    ASSUME Orderly, ~Running, step \notin {"running", "join", "returned"},
           ~canceled, proc' = "running", Readers' \in {{}, Pipes},
           result' = result, canceled' = canceled, chain' = chain, rung' = rung
    PROVE  Mapped
<1>1. Promise!Quiet
  BY AtRest
<1>2. (proc \in {"running", "hung"})' = TRUE
  OBVIOUS
<1>3. {p \in Pipes : Live(p)}' \in {{}, Pipes}
  BY DEF Readers
<1>4. Promise!Call
  BY <1>1, <1>2, <1>3 DEF Promise!Call
<1>. QED BY <1>4 DEF Mapped, Promise!Next

LEMMA MapsToReturn ==
    ASSUME Orderly, ~Running, step \notin {"running", "join", "returned"},
           NEW r \in {"ok", "error"}, result'.status = r,
           r = "error" => canceled \/ rung = Len(chain),
           ~Running', reader' = reader,
           canceled' = canceled, chain' = chain, rung' = rung
    PROVE  Mapped
<1>0. rung \in Nat /\ Len(chain) \in Nat
  BY ChainsAreSequences DEF Orderly, TypeOK
<1>1. Promise!Quiet
  BY AtRest
<1>2. (proc \in {"running", "hung"})' = (proc \in {"running", "hung"})
  BY <1>1 DEF Promise!Quiet, Running
<1>3. {p \in Pipes : Live(p)}' = {p \in Pipes : Live(p)}
  BY DEF Live
<1>4. r = "error" => canceled \/ Len(chain) - rung = 0
  BY <1>0
<1>5. Promise!Return(r)
  BY <1>1, <1>2, <1>3, <1>4 DEF Promise!Return
<1>. QED BY <1>5 DEF Mapped, Promise!Next

LEMMA CodeMaps ==
    ASSUME Orderly, Code
    PROVE  Mapped
<1>0. /\ rung \in Nat /\ Len(chain) \in Nat
      /\ result \in [status : {"none", "ok", "error"}, file : File]
  BY ChainsAreSequences DEF Orderly, TypeOK
<1>. USE DEF Goto, runVars
<1>1. ASSUME step \notin InFlight \cup {"join", "returned"}, NEW to, Launch(to),
             reader' = reader,
             result' = result, canceled' = canceled, chain' = chain, rung' = rung
      PROVE  Mapped
  <2>1. ~Running /\ step # "running"
    BY <1>1, WaitsForNothing DEF InFlight
  <2>2. Readers' = {}
    BY <1>1, <2>1 DEF Orderly, NoReaderOutlivesRun, Readers, Live
  <2>. QED BY <1>1, <2>1, <2>2, MapsToCall DEF Launch
<1>2. ASSUME ~Running, proc' = proc \/ proc' = "none", reader' = reader,
             result' = result, canceled' = canceled, chain' = chain, rung' = rung
      PROVE  Mapped
  <2>1. Running' <=> Running
    BY <1>2 DEF Running
  <2>2. Readers' = Readers
    BY <1>2 DEF Readers, Live
  <2>. QED BY <1>2, <2>1, <2>2, MapsToStutter
<1>3. CASE Attempt \/ Image \/ Link
  <2>1. /\ step \notin InFlight \cup {"join", "returned"} /\ ~Running
        /\ reader' = reader /\ result' = result /\ canceled' = canceled
        /\ chain' = chain /\ rung' = rung
    BY <1>3, WaitsForNothing DEF Attempt, Image, Link, InFlight
  <2>2. proc' = proc \/ \E to \in InFlight : Launch(to)
    BY <1>3 DEF Attempt, Image, Link, InFlight
  <2>. QED BY <1>1, <1>2, <2>1, <2>2
<1>4. CASE MetadataOver \/ RunFails \/ WaitOver \/ Judge
  <2>1. /\ step \notin InFlight \/ Over
        /\ proc' = proc \/ proc' = "none"
        /\ reader' = reader /\ result' = result /\ canceled' = canceled
        /\ chain' = chain /\ rung' = rung
    BY <1>4 DEF MetadataOver, RunFails, WaitOver, Judge, InFlight
  <2>. QED BY <1>2, <2>1, WaitsForNothing
<1>5. CASE Run
  <2>1. /\ step = "start" /\ ~canceled /\ proc' = "running"
        /\ reader' = [p \in Pipes |-> "reading"]
        /\ result' = result /\ canceled' = canceled
        /\ chain' = chain /\ rung' = rung
    BY <1>5 DEF Run, Launch
  <2>2. ~Running
    BY <2>1, WaitsForNothing DEF InFlight
  <2>3. Readers' = Pipes
    BY <2>1 DEF Readers, Live
  <2>. QED BY <2>1, <2>2, <2>3, MapsToCall
<1>6. CASE Join
  <2>1. /\ step = "join" /\ proc' = proc /\ reader' = reader
        /\ result' = result /\ canceled' = canceled
        /\ chain' = chain /\ rung' = rung
    BY <1>6 DEF Join
  <2>. QED BY <1>2, <2>1, WaitsForNothing DEF InFlight
<1>7. CASE FindOutput \/ ThumbnailOver \/ UrlOver
  <2>1. /\ step \in {"find", "thumbnail", "url"}
        /\ step \notin InFlight \/ Over
        /\ proc' = proc \/ proc' = "none"
        /\ reader' = reader /\ canceled' = canceled
        /\ chain' = chain /\ rung' = rung
    BY <1>7 DEF FindOutput, ThumbnailOver, UrlOver, InFlight
  <2>2. ~Running /\ ~Running'
    BY <2>1, WaitsForNothing DEF Running
  <2>3. result' = result \/ result'.status = "ok"
    BY <1>7 DEF FindOutput, ThumbnailOver, UrlOver, Return
  <2>. QED BY <1>2, <2>1, <2>2, <2>3, MapsToReturn
<1>8. CASE GiveUp
  <2>1. /\ step = "failed"
        /\ canceled \/ rung = Len(chain)
        /\ result'.status = "error" /\ proc' = proc /\ reader' = reader
        /\ canceled' = canceled /\ chain' = chain /\ rung' = rung
    BY <1>8 DEF GiveUp, Return
  <2>2. ~Running /\ ~Running'
    BY <2>1, WaitsForNothing DEF Running, InFlight
  <2>. QED BY <2>1, <2>2, MapsToReturn
<1>9. CASE NextRung
  <2>1. /\ step = "failed" /\ ~canceled /\ rung < Len(chain) /\ rung' = rung + 1
        /\ proc' = proc /\ reader' = reader /\ result' = result
        /\ canceled' = canceled /\ chain' = chain
    BY <1>9 DEF NextRung
  <2>2. Promise!Quiet
    BY <2>1, WaitsForNothing, AtRest DEF InFlight
  <2>3. Len(chain) - rung > 0 /\ Len(chain') - rung' = (Len(chain) - rung) - 1
    BY <1>0, <2>1
  <2>4. {p \in Pipes : Live(p)}' = {p \in Pipes : Live(p)}
    BY <2>1 DEF Live
  <2>5. Promise!TryNext
    BY <2>1, <2>2, <2>3, <2>4 DEF Promise!TryNext
  <2>. QED BY <2>5 DEF Mapped, Promise!Next
<1>. QED
  BY <1>3, <1>4, <1>5, <1>6, <1>7, <1>8, <1>9 DEF Code

LEMMA ReaderMaps ==
    ASSUME Orderly, NEW p \in Pipes, Reader(p)
    PROVE  Mapped
<1>1. /\ reader \in [Pipes -> {"none", "reading", "reporting", "done"}]
      /\ UNCHANGED <<chain, rung, canceled, proc, result>>
  BY DEF Orderly, TypeOK, Reader, ReadLine, Reported, ReadEnd
<1>2. CASE ReadLine(p) \/ Reported(p)
  <2>1. Readers' = Readers
    BY <1>1, <1>2 DEF ReadLine, Reported, Readers, Live
  <2>2. Running' <=> Running
    BY <1>1 DEF Running
  <2>. QED BY <1>1, <2>1, <2>2, MapsToStutter
<1>3. CASE ReadEnd(p)
  <2>1. Live(p) /\ reader' = [reader EXCEPT ![p] = "done"]
    BY <1>3 DEF ReadEnd, Live
  <2>2. {q \in Pipes : Live(q)}' = {q \in Pipes : Live(q)} \ {p}
    BY <1>1, <2>1 DEF Live
  <2>3. (proc \in {"running", "hung"})' = (proc \in {"running", "hung"})
    BY <1>1
  <2>4. Promise!WriterOver(p)
    BY <1>1, <2>1, <2>2, <2>3 DEF Promise!WriterOver
  <2>. QED BY <2>4 DEF Mapped, Promise!Next
<1>. QED BY <1>2, <1>3 DEF Reader

LEMMA OthersMap ==
    ASSUME Orderly, YtDlp \/ Hang \/ Kill \/ Cancel \/ Rest \/ UNCHANGED vars
    PROVE  Mapped
<1>1. reader' = reader /\ chain' = chain /\ rung' = rung /\ result' = result
  BY DEF YtDlp, Write, Exit, Hang, Kill, Cancel, Rest, vars, runVars
<1>2. Readers' = Readers
  BY <1>1 DEF Readers, Live
<1>3. CASE Cancel
  <2>1. /\ result.status = "none" /\ ~canceled /\ canceled' = TRUE
        /\ proc' = proc
    BY <1>3 DEF Cancel, Orderly, InStep
  <2>2. (proc \in {"running", "hung"})' = (proc \in {"running", "hung"})
    BY <2>1
  <2>3. Promise!Cancel
    BY <1>1, <1>2, <2>1, <2>2 DEF Promise!Cancel, Readers
  <2>. QED BY <2>3 DEF Mapped, Promise!Next
<1>4. CASE (Exit(TRUE) \/ Exit(FALSE)) \/ Kill
  <2>1. Running /\ proc' \in {"ok", "failed"} /\ canceled' = canceled
    BY <1>4 DEF Exit, Kill, Running
  <2>2. (proc \in {"running", "hung"})' = FALSE /\ (proc \in {"running", "hung"})
    BY <2>1 DEF Running
  <2>3. Promise!CallOver
    BY <1>1, <1>2, <2>1, <2>2 DEF Promise!CallOver, Readers
  <2>. QED BY <2>3 DEF Mapped, Promise!Next
<1>5. CASE \/ \E p \in Pipes, line \in Lines : Write(p, line)
           \/ Hang \/ Rest \/ UNCHANGED vars
  <2>1. canceled' = canceled /\ (Running' <=> Running)
    BY <1>5 DEF Write, Hang, Rest, vars, Running
  <2>. QED BY <1>1, <1>2, <2>1, MapsToStutter
<1>. QED BY <1>3, <1>4, <1>5 DEF YtDlp

\* A download keeps its promise for pipes of every size and runs of every length:
\* its readers and programs end with the attempt they belong to, nothing begins
\* in a context that is done, and it fails only when it was canceled or has tried
\* every quality.  Download, DownloadWithQuality, DownloadAudio and the chain in
\* Loop.
THEOREM DownloaderKeepsPromise == Spec => KeepsDownloadPromise
<1>1. Init => Promise!Init
  <2>. SUFFICES ASSUME Init PROVE Promise!Init
    OBVIOUS
  <2>1. Orderly
    BY OrderlyInit
  <2>2. Len(chain) - rung \in Nat
    BY ChainsAreSequences DEF Init
  <2>3. Readers = {} /\ ~Running
    BY DEF Init, Readers, Live, Running
  <2>. QED BY <2>2, <2>3 DEF Init, Promise!Init, Readers, Running
<1>2. Orderly /\ [Next]_vars => [Promise!Next]_(Promise!vars)
  BY CodeMaps, ReaderMaps, OthersMap DEF Mapped, Next
<1>. QED
  BY <1>1, <1>2, OrderlyAlways, PTL
     DEF Spec, KeepsDownloadPromise, Promise!Spec

-----------------------------------------------------------------------------
(* A canceled download winds down. *)

LEMMA Distances ==
    /\ Distance("running") = 6 /\ Distance("join") = 5 /\ Distance("judge") = 4
    /\ Distance("attempt") = 3 /\ Distance("metadata") = 3
    /\ Distance("image") = 3 /\ Distance("thumbnail") = 3
    /\ Distance("start") = 2 /\ Distance("find") = 2
    /\ Distance("link") = 2 /\ Distance("url") = 2
    /\ Distance("failed") = 1 /\ Distance("returned") = 0
BY DEF Distance

LEMMA CallWorks ==
    /\ CallWork("running") = 2 /\ CallWork("hung") = 1
    /\ CallWork("none") = 0 /\ CallWork("ok") = 0 /\ CallWork("failed") = 0
BY DEF CallWork

LEMMA ReaderWorks ==
    /\ ReaderWork("reporting") = 2 /\ ReaderWork("reading") = 1
    /\ ReaderWork("done") = 0 /\ ReaderWork("none") = 0
BY DEF ReaderWork

\* All of it is counted in natural numbers.
LEMMA WorkTyped ==
    ASSUME TypeOK
    PROVE  /\ Distance(step) \in Nat /\ CallWork(proc) \in Nat
           /\ \A p \in Pipes : /\ todo[p] \in Nat /\ Len(pipe[p]) \in Nat
                               /\ ReaderWork(reader[p]) \in Nat
                               /\ PipeWork(p) \in Nat
<1>1. Distance(step) \in Nat
  BY Distances DEF TypeOK, InFlight
<1>2. CallWork(proc) \in Nat
  BY CallWorks DEF TypeOK
<1>3. ASSUME NEW p \in Pipes
      PROVE  /\ todo[p] \in Nat /\ Len(pipe[p]) \in Nat
             /\ ReaderWork(reader[p]) \in Nat
  <2>1. todo[p] \in 0..MaxLines
    BY DEF TypeOK
  <2>2. pipe[p] \in Seq(Lines)
    BY DEF TypeOK
  <2>3. reader[p] \in {"none", "reading", "reporting", "done"}
    BY DEF TypeOK
  <2>. QED BY <2>1, <2>2, <2>3, ReaderWorks
<1>. QED BY <1>1, <1>2, <1>3 DEF PipeWork

\* The worker moves or a call ends, and nothing is added to the pipes.
LEMMA LessToDo ==
    ASSUME TypeOK,
           Distance(step') + CallWork(proc') < Distance(step) + CallWork(proc),
           Distance(step') \in Nat, CallWork(proc') \in Nat,
           \A p \in Pipes : PipeWork(p)' \in Nat /\ PipeWork(p)' <= PipeWork(p)
    PROVE  WorkLeft' < WorkLeft
<1>. DEFINE a == PipeWork("stdout")
            b == PipeWork("stderr")
<1>1. /\ a \in Nat /\ b \in Nat /\ a' \in Nat /\ b' \in Nat
      /\ a' <= a /\ b' <= b
      /\ Distance(step) \in Nat /\ CallWork(proc) \in Nat
  BY WorkTyped DEF Pipes
<1>2. /\ WorkLeft = Distance(step) + CallWork(proc) + a + b
      /\ WorkLeft' = Distance(step') + CallWork(proc') + a' + b'
  BY DEF WorkLeft
<1>. QED BY <1>1, <1>2

\* Something moves along one pipe.
LEMMA LessInPipe ==
    ASSUME TypeOK, NEW p \in Pipes, step' = step, proc' = proc,
           PipeWork(p)' \in Nat, PipeWork(p)' < PipeWork(p),
           \A q \in Pipes \ {p} : PipeWork(q)' = PipeWork(q)
    PROVE  WorkLeft' < WorkLeft
<1>. DEFINE a == PipeWork("stdout")
            b == PipeWork("stderr")
<1>1. /\ a \in Nat /\ b \in Nat /\ a' \in Nat /\ b' \in Nat
      /\ Distance(step) \in Nat /\ CallWork(proc) \in Nat
  BY WorkTyped DEF Pipes
<1>2. (a' < a /\ b' = b) \/ (a' = a /\ b' < b)
  BY DEF Pipes
<1>3. /\ WorkLeft = Distance(step) + CallWork(proc) + a + b
      /\ WorkLeft' = Distance(step) + CallWork(proc) + a' + b'
  BY DEF WorkLeft
<1>. QED BY <1>1, <1>2, <1>3

LEMMA CodeWindsDown ==
    ASSUME TypeOK, canceled, Code
    PROVE  WorkLeft' < WorkLeft
<1>1. /\ Distance(step') \in Nat /\ CallWork(proc') \in Nat
      /\ Distance(step') + CallWork(proc') < Distance(step) + CallWork(proc)
  <2>. DEFINE Nearer == /\ Distance(step') \in Nat /\ CallWork(proc') \in Nat
                        /\ Distance(step') < Distance(step)
                        /\ CallWork(proc') <= CallWork(proc)
  <2>0. CallWork(proc) \in Nat /\ Distance(step) \in Nat
    BY WorkTyped
  <2>. USE <2>0, Distances, CallWorks
  <2>1. CASE Attempt
    BY <2>1 DEF Attempt, Launch
  <2>2. CASE MetadataOver
    BY <2>2 DEF MetadataOver, Goto
  <2>3. CASE RunFails
    BY <2>3 DEF RunFails, Goto
  <2>4. CASE WaitOver
    BY <2>4 DEF WaitOver, Goto
  <2>5. CASE Join
    BY <2>5 DEF Join, Goto
  <2>6. CASE Judge
    BY <2>6 DEF Judge, Goto
  <2>7. CASE FindOutput
    <3>1. step = "find" /\ step' \in {"returned", "failed"} /\ proc' = proc
      BY <2>7 DEF FindOutput, Return
    <3>. QED BY <3>1
  <2>8. CASE Image
    BY <2>8 DEF Image, Launch
  <2>9. CASE ThumbnailOver
    <3>1. step = "thumbnail" /\ step' \in {"returned", "link"} /\ proc' = "none"
      BY <2>9 DEF ThumbnailOver, Return
    <3>. QED BY <3>1
  <2>10. CASE Link
    BY <2>10 DEF Link, Launch
  <2>11. CASE UrlOver
    <3>1. step = "url" /\ step' \in {"returned", "failed"} /\ proc' = "none"
      BY <2>11 DEF UrlOver, Return
    <3>. QED BY <3>1
  <2>12. CASE GiveUp
    BY <2>12 DEF GiveUp, Return
  <2>13. ~Run /\ ~NextRung
    BY DEF Run, Launch, NextRung
  <2>. QED
    BY <2>1, <2>2, <2>3, <2>4, <2>5, <2>6, <2>7, <2>8, <2>9, <2>10, <2>11, <2>12,
       <2>13 DEF Code
<1>2. todo' = todo /\ reader' = reader /\ (pipe' = pipe \/ pipe' = [p \in Pipes |-> <<>>])
  <2>1. ~Run
    BY DEF Run, Launch
  <2>. QED
    BY <2>1 DEF Code, Attempt, MetadataOver, RunFails, WaitOver, Join, Judge, FindOutput,
                Image, ThumbnailOver, Link, UrlOver, NextRung, GiveUp, runVars
<1>3. ASSUME NEW p \in Pipes
      PROVE  PipeWork(p)' \in Nat /\ PipeWork(p)' <= PipeWork(p)
  <2>1. /\ todo[p] \in Nat /\ Len(pipe[p]) \in Nat /\ ReaderWork(reader[p]) \in Nat
    BY WorkTyped
  <2>2. Len(pipe'[p]) \in Nat /\ Len(pipe'[p]) <= Len(pipe[p])
    <3>1. CASE pipe' = pipe
      BY <2>1, <3>1
    <3>2. CASE pipe' = [q \in Pipes |-> <<>>]
      BY <2>1, <3>2
    <3>. QED BY <1>2, <3>1, <3>2
  <2>3. PipeWork(p)' = 3 * todo[p] + 2 * Len(pipe'[p]) + ReaderWork(reader[p])
    BY <1>2 DEF PipeWork
  <2>. QED BY <2>1, <2>2, <2>3 DEF PipeWork
<1>. QED BY <1>1, <1>3, LessToDo

\* A line read is worth two, one to be written three.
LEMMA Tally ==
    ASSUME NEW t \in Nat, NEW l \in Nat, NEW r \in Nat,
           NEW u \in Nat, NEW m \in Nat, NEW s \in Nat,
           \/ u = t /\ 2 * m + s < 2 * l + r
           \/ u = t - 1 /\ m = l + 1 /\ s = r
    PROVE  /\ 3 * u + 2 * m + s \in Nat
           /\ 3 * u + 2 * m + s < 3 * t + 2 * l + r
OBVIOUS

LEMMA ReaderWindsDown ==
    ASSUME TypeOK, NEW p \in Pipes, Reader(p)
    PROVE  WorkLeft' < WorkLeft
<1>0. /\ step' = step /\ proc' = proc /\ todo' = todo
      /\ todo[p] \in Nat /\ Len(pipe[p]) \in Nat /\ pipe[p] \in Seq(Lines)
      /\ pipe \in [Pipes -> Seq(Lines)]
      /\ reader \in [Pipes -> {"none", "reading", "reporting", "done"}]
  BY WorkTyped DEF Reader, ReadLine, Reported, ReadEnd, TypeOK
<1>1. /\ \A q \in Pipes \ {p} : pipe'[q] = pipe[q] /\ reader'[q] = reader[q]
  BY <1>0 DEF Reader, ReadLine, Reported, ReadEnd
<1>2. \A q \in Pipes \ {p} : PipeWork(q)' = PipeWork(q)
  BY <1>0, <1>1 DEF PipeWork
<1>3. /\ Len(pipe'[p]) \in Nat /\ ReaderWork(reader'[p]) \in Nat
      /\ 2 * Len(pipe'[p]) + ReaderWork(reader'[p])
            < 2 * Len(pipe[p]) + ReaderWork(reader[p])
  <2>1. CASE ReadLine(p)
    <3>1. /\ reader[p] = "reading" /\ reader'[p] \in {"reading", "reporting"}
          /\ pipe[p] # <<>> /\ pipe'[p] = Tail(pipe[p])
      BY <1>0, <2>1 DEF ReadLine
    <3>2. Len(pipe'[p]) \in Nat /\ Len(pipe'[p]) = Len(pipe[p]) - 1
      BY <1>0, <3>1
    <3>. QED BY <1>0, <3>1, <3>2, ReaderWorks
  <2>2. CASE Reported(p)
    <3>1. reader[p] = "reporting" /\ reader'[p] = "reading" /\ pipe' = pipe
      BY <1>0, <2>2 DEF Reported
    <3>. QED BY <1>0, <3>1, ReaderWorks
  <2>3. CASE ReadEnd(p)
    <3>1. reader[p] = "reading" /\ reader'[p] = "done" /\ pipe' = pipe
      BY <1>0, <2>3 DEF ReadEnd
    <3>. QED BY <1>0, <3>1, ReaderWorks
  <2>. QED BY <2>1, <2>2, <2>3 DEF Reader
<1>4. /\ PipeWork(p) = 3 * todo[p] + 2 * Len(pipe[p]) + ReaderWork(reader[p])
      /\ PipeWork(p)' = 3 * todo[p] + 2 * Len(pipe'[p]) + ReaderWork(reader'[p])
  BY <1>0 DEF PipeWork
<1>5. ReaderWork(reader[p]) \in Nat
  BY WorkTyped
<1>6. PipeWork(p)' \in Nat /\ PipeWork(p)' < PipeWork(p)
  <2>1. /\ 3 * todo[p] + 2 * Len(pipe'[p]) + ReaderWork(reader'[p]) \in Nat
        /\ 3 * todo[p] + 2 * Len(pipe'[p]) + ReaderWork(reader'[p])
              < 3 * todo[p] + 2 * Len(pipe[p]) + ReaderWork(reader[p])
    BY <1>0, <1>3, <1>5, Tally
  <2>. QED BY <1>4, <2>1
<1>. QED BY <1>0, <1>2, <1>6, LessInPipe

LEMMA WriteWindsDown ==
    ASSUME TypeOK, NEW p \in Pipes, NEW line \in Lines, Write(p, line)
    PROVE  WorkLeft' < WorkLeft
<1>0. /\ step' = step /\ proc' = proc /\ reader' = reader
      /\ todo \in [Pipes -> 0..MaxLines] /\ pipe \in [Pipes -> Seq(Lines)]
      /\ todo[p] > 0
      /\ todo' = [todo EXCEPT ![p] = todo[p] - 1]
      /\ pipe' = [pipe EXCEPT ![p] = Append(pipe[p], line)]
  BY DEF Write, TypeOK
<1>1. /\ todo[p] \in Nat /\ Len(pipe[p]) \in Nat /\ ReaderWork(reader[p]) \in Nat
  BY WorkTyped
<1>2. todo'[p] = todo[p] - 1 /\ todo'[p] \in Nat
  BY <1>0, <1>1
<1>3. Len(pipe'[p]) = Len(pipe[p]) + 1
  BY <1>0
<1>4. /\ PipeWork(p) = 3 * todo[p] + 2 * Len(pipe[p]) + ReaderWork(reader[p])
      /\ PipeWork(p)' = 3 * todo'[p] + 2 * Len(pipe'[p]) + ReaderWork(reader[p])
  BY <1>0 DEF PipeWork
<1>5. PipeWork(p)' \in Nat /\ PipeWork(p)' < PipeWork(p)
  <2>1. Len(pipe'[p]) \in Nat
    BY <1>1, <1>3
  <2>2. /\ 3 * todo'[p] + 2 * Len(pipe'[p]) + ReaderWork(reader[p]) \in Nat
        /\ 3 * todo'[p] + 2 * Len(pipe'[p]) + ReaderWork(reader[p])
              < 3 * todo[p] + 2 * Len(pipe[p]) + ReaderWork(reader[p])
    BY <1>1, <1>2, <1>3, <2>1, Tally
  <2>. QED BY <1>4, <2>2
<1>6. \A q \in Pipes \ {p} : PipeWork(q)' = PipeWork(q)
  BY <1>0 DEF PipeWork
<1>. QED BY <1>0, <1>5, <1>6, LessInPipe

LEMMA CallWindsDown ==
    ASSUME TypeOK, Exit(TRUE) \/ Exit(FALSE) \/ Hang \/ Kill
    PROVE  WorkLeft' < WorkLeft
<1>1. /\ step' = step /\ todo' = todo /\ pipe' = pipe /\ reader' = reader
      /\ \/ proc = "running" /\ proc' \in {"ok", "failed", "hung"}
         \/ proc = "hung" /\ proc' = "failed"
  BY DEF Exit, Hang, Kill, runVars
<1>2. /\ CallWork(proc') \in Nat /\ CallWork(proc') < CallWork(proc)
      /\ CallWork(proc) \in Nat /\ Distance(step') \in Nat
  BY <1>1, CallWorks, WorkTyped
<1>3. Distance(step') + CallWork(proc') < Distance(step) + CallWork(proc)
  BY <1>1, <1>2
<1>4. \A p \in Pipes : PipeWork(p)' = PipeWork(p) /\ PipeWork(p) \in Nat
  BY <1>1, WorkTyped DEF PipeWork
<1>5. \A p \in Pipes : PipeWork(p)' \in Nat /\ PipeWork(p)' <= PipeWork(p)
  BY <1>4
<1>. QED BY <1>2, <1>3, <1>5, LessToDo

\* From a cancellation on, every step of the worker, the readers, yt-dlp and the
\* kill uses up some of a finite amount of work.  So a canceled download returns
\* unless everybody stops moving, for pipes of every size and output of every
\* length; that they do not stop is what the fairness says and TLC checks.
THEOREM CancelsWindDown == Spec => CancelWindsDown
<1>1. TypeOK /\ [Next]_vars => [canceled => WorkLeft' < WorkLeft]_vars
  <2>. SUFFICES ASSUME TypeOK, Next, canceled, vars' # vars
               PROVE  WorkLeft' < WorkLeft
    OBVIOUS
  <2>1. ~Cancel /\ ~Rest
    BY DEF Cancel, Rest
  <2>. QED
    BY <2>1, CodeWindsDown, ReaderWindsDown, WriteWindsDown, CallWindsDown
       DEF Next, YtDlp
<1>. QED BY <1>1, TypeCorrect, PTL DEF Spec, CancelWindsDown
=============================================================================
