---------------------------- MODULE ChannelProofs ----------------------------
(***************************************************************************)
(* What the decode channels read, for every value of the constants.  The   *)
(* verdict of a replay is that of the texts it compared, whatever tones,   *)
(* channels, candidates and blocks there are.  And when everything is      *)
(* worked off the DeepCW window, whose decoder has a thread of its own,    *)
(* shows the transcript of the samples since the last clearing, tuning or  *)
(* adopted copy, and of nothing else.  The slices of the waterfall follow  *)
(* their signals and keep their copies.  The channel pool gives every      *)
(* station of a sparse band of an IQ stream to one channel, once, and      *)
(* takes no channel from its station.                                      *)
(***************************************************************************)
EXTENDS Decoders, SequenceTheorems, FiniteSetTheorems, WellFoundedInduction, TLAPS

-----------------------------------------------------------------------------
(* The replay of a capture.                                                *)

\* What is remembered of the texts that were compared is whether one matched,
\* and nothing is compared any more once there is a verdict.
VerdictInv ==
    /\ expected \in BOOLEAN
    /\ matched \in BOOLEAN
    /\ matched = (expected /\ "match" \in compared)
    /\ verdict \in {"pass", "fail"} => pc = "done"
    /\ VerdictOfTexts

-----------------------------------------------------------------------------
\* Nothing has a higher score than a match, and only a match has its score.
LEMMA MatchScores ==
  ASSUME NEW t
  PROVE  /\ score(t) \in 0 .. 2
         /\ score(t) = 2 <=> t = "match"
BY DEF score

\* Of the texts of a trial the best is compared with the expected one; when it
\* is no match, none of them is.
LEMMA TrialFindsMatch ==
  ASSUME VerdictInv, NEW S, NEW floor, NEW r \in Best(S, floor), Trial(S, r)
  PROVE  matched' \in BOOLEAN /\ matched' = (expected /\ "match" \in compared')
<1>1. offline[r] = "match" <=> \E v \in S : offline[v] = "match"
  <2>1. r \in S /\ \A v \in S : score(offline[v]) <= score(offline[r])
    BY DEF Best
  <2>2. ASSUME NEW v \in S, offline[v] = "match"
        PROVE  offline[r] = "match"
    <3>1. score(offline[v]) = 2 /\ score(offline[r]) \in 0 .. 2
      BY <2>2, MatchScores
    <3>2. score(offline[r]) = 2
      BY <2>1, <3>1
    <3> QED
      BY <3>2, MatchScores
  <2> QED
    BY <2>1, <2>2
<1>2. "match" \in compared' <=> "match" \in compared \/ offline[r] = "match"
  BY <1>1 DEF Trial
<1>3. matched' = (matched \/ (expected /\ offline[r] = "match"))
  BY DEF Trial, matches
<1> QED
  BY <1>2, <1>3 DEF VerdictInv

\* A text that is compared is remembered if it matches.
LEMMA CompareFindsMatch ==
  ASSUME VerdictInv, NEW t, Compare(t)
  PROVE  matched' \in BOOLEAN /\ matched' = (expected /\ "match" \in compared')
BY DEF VerdictInv, Compare, matches

-----------------------------------------------------------------------------
\* The steps of a replay that is still going on give no verdict.
LEMMA Unfinished ==
  ASSUME VerdictInv, pc # "done", UNCHANGED <<expected, verdict>>,
         matched' \in BOOLEAN, matched' = (expected /\ "match" \in compared')
  PROVE  VerdictInv'
BY DEF VerdictInv, VerdictOfTexts

\* "Returns 0 if expected_text appears in output": what the replay returns is
\* whether one of all the texts it compared matched, or, when none was
\* expected, whether a channel decoded something.
THEOREM VerdictTrue == Spec => []VerdictOfTexts
<1>1. Init => VerdictInv
  BY DEF Init, VerdictInv, VerdictOfTexts
<1>2. VerdictInv /\ [Next]_vars => VerdictInv'
  <2> SUFFICES ASSUME VerdictInv, [Next]_vars PROVE VerdictInv'
    OBVIOUS
  <2>1. CASE Fails
    BY <2>1 DEF Fails, Step, fileVars, VerdictInv, VerdictOfTexts
  <2>2. CASE \/ Loads \/ Prescan \/ Acquire \/ Acquired \/ Feed \/ Flush
                \/ Release \/ Released
    <3>1. pc # "done" /\ UNCHANGED <<expected, verdict, matched, compared>>
      BY <2>2 DEF Loads, Prescan, Acquire, Acquired, Feed, Flush, Release,
                      Released, fileVars
    <3> QED
      BY <3>1, Unfinished DEF VerdictInv
  <2>3. CASE Tune
    <3>1. pc # "done" /\ UNCHANGED <<expected, verdict>>
      BY <2>3 DEF Tune, fileVars
    <3>2. \/ UNCHANGED <<matched, compared>>
          \/ \E S : \E u \in Best(S, -1) : Trial(S, u)
      BY <2>3 DEF Tune
    <3>3. matched' \in BOOLEAN /\ matched' = (expected /\ "match" \in compared')
      BY <3>2, TrialFindsMatch DEF VerdictInv
    <3> QED
      BY <3>1, <3>3, Unfinished
  <2>4. CASE Collect
    <3>1. pc # "done" /\ UNCHANGED <<expected, verdict>>
      BY <2>4 DEF Collect, fileVars
    <3>2. UNCHANGED <<matched, compared>> \/ \E t : Compare(t)
      BY <2>4 DEF Collect
    <3>3. matched' \in BOOLEAN /\ matched' = (expected /\ "match" \in compared')
      BY <3>2, CompareFindsMatch DEF VerdictInv
    <3> QED
      BY <3>1, <3>3, Unfinished
  <2>5. CASE Mark
    <3>1. pc # "done" /\ UNCHANGED <<expected, verdict>>
      BY <2>5 DEF Mark, fileVars
    <3>2. UNCHANGED <<matched, compared>> \/ \E t : Compare(t)
      BY <2>5 DEF Mark
    <3>3. matched' \in BOOLEAN /\ matched' = (expected /\ "match" \in compared')
      BY <3>2, CompareFindsMatch DEF VerdictInv
    <3> QED
      BY <3>1, <3>3, Unfinished
  <2>6. CASE Sweep
    <3>1. pc # "done" /\ UNCHANGED <<expected, verdict>>
      BY <2>6 DEF Sweep, fileVars
    <3>2. \/ UNCHANGED <<matched, compared>>
          \/ \E S, floor : \E u \in Best(S, floor) : Trial(S, u)
      BY <2>6 DEF Sweep
    <3>3. matched' \in BOOLEAN /\ matched' = (expected /\ "match" \in compared')
      BY <3>2, TrialFindsMatch DEF VerdictInv
    <3> QED
      BY <3>1, <3>3, Unfinished
  <2>7. CASE Return
    BY <2>7 DEF Return, Step, fileVars, VerdictInv, VerdictOfTexts
  <2>8. CASE \E c \in Channels : Thread(c)
    <3>1. UNCHANGED <<expected, matched, compared, verdict, pc, decodes>>
      BY <2>8 DEF Thread, Take, Decode, Birdie, ReleaseBirdie, BirdieReleased, Exit,
                  Work, ThreadRest, fileVars
    <3> QED
      BY <3>1 DEF VerdictInv, VerdictOfTexts
  <2>9. CASE UNCHANGED vars
    BY <2>9 DEF vars, fileVars, VerdictInv, VerdictOfTexts
  <2> QED
    BY <2>1, <2>2, <2>3, <2>4, <2>5, <2>6, <2>7, <2>8, <2>9 DEF Next, Main
<1>3. VerdictInv => VerdictOfTexts
  BY DEF VerdictInv
<1> QED
  BY <1>1, <1>2, <1>3, PTL DEF Spec

-----------------------------------------------------------------------------
(* The DeepCW window.                                                      *)

Event == [epoch : Nat, text : Seq(Int)]

Types ==
    /\ gui \in {"idle", "bump", "joining", "closed"}
    /\ engine \in {"load", "wait", "taken", "work", "ended"}
    /\ reset \in BOOLEAN /\ stop \in BOOLEAN /\ cut \in BOOLEAN
    /\ flags \in [reset : BOOLEAN, stop : BOOLEAN]
    /\ epoch \in Nat /\ took \in 0 .. epoch /\ sampled \in Nat

Samples ==
    /\ front \in Seq(Int) /\ queue \in Seq(Int) /\ chunk \in Seq(Int)
    /\ audio \in Seq(Int) /\ since \in Seq(Int)

Screen == /\ prefix \in Seq(Int) /\ engineText \in Seq(Int)
          /\ shown = prefix \o engineText /\ Len(shown) <= MaxShown

Posts == /\ events \in Seq(Event)
         /\ \A i \in 1 .. Len(events) : events[i].epoch <= epoch

\* The transcript is read from the front of what the model heard.
Transcript == text \in Seq(Int) /\ Len(text) <= Len(audio)
              /\ text = SubSeq(audio, 1, Len(text))

\* The engine holds a chunk, or has to forget, only between two waits, and the
\* epoch it read is the present one unless it has to forget again.
Working ==
    /\ engine \in {"load", "wait"} => chunk = <<>> /\ ~flags.reset
    /\ engine = "work" /\ ~reset /\ gui = "idle" => took = epoch

\* The model hears what was queued since the last reset, all of it in order.
Heard == IF flags.reset THEN chunk ELSE audio \o chunk
HeardInv == since = IF reset THEN queue ELSE Heard \o queue

\* What was posted last is the transcript, in the present epoch; when nothing
\* is on its way any more it has been shown.
Fresh == gui = "idle" /\ ~reset /\ ~flags.reset
PostedInv ==
    Fresh => IF events = <<>> THEN cut \/ engineText = text
             ELSE events[Len(events)] = [epoch |-> epoch, text |-> text]

DeepcwInv == /\ Types /\ Samples /\ Screen /\ Posts /\ Transcript
             /\ Working /\ HeardInv /\ PostedInv

-----------------------------------------------------------------------------
\* publish: the text shown is the prefix and the engine's text, and is that of
\* the engine as long as nothing is shortened.
LEMMA Published ==
  ASSUME Deepcw!DeepcwAssumption, NEW p \in Seq(Int), NEW t \in Seq(Int),
        Deepcw!publish(p, t)
  PROVE  Screen' /\ (Deepcw!TooLong(p \o t) \/ engineText' = t)
<1> DEFINE w == p \o t
<1>1. w \in Seq(Int) /\ Len(w) \in Nat
  BY ConcatProperties, LenProperties
<1>2. MaxShown \in Nat /\ Kept \in Nat /\ Kept <= MaxShown
  BY DEF Deepcw!DeepcwAssumption
<1>3. CASE ~Deepcw!TooLong(w)
  BY <1>1, <1>2, <1>3 DEF Deepcw!publish, Deepcw!TooLong, Screen
<1>4. CASE Deepcw!TooLong(w)
  <2> DEFINE k == Deepcw!Right(w, Kept)
  <2>1. Len(w) > MaxShown
    BY <1>4 DEF Deepcw!TooLong
  <2>2. \A i \in Len(w) - Kept + 1 .. Len(w) : w[i] \in Int
    BY <1>1, <1>2, <2>1, ElementOfSeq
  <2>3. k \in Seq(Int) /\ Len(k) = Kept
    BY <1>1, <1>2, <2>1, <2>2, SubSeqProperties DEF Deepcw!Right
  <2>4. k \o <<>> = k
    BY <2>3, ConcatEmptySeq
  <2>5. prefix' = k /\ engineText' = <<>> /\ shown' = k
    BY <1>4 DEF Deepcw!publish
  <2> QED
    BY <1>2, <1>4, <2>3, <2>4, <2>5, EmptySeq DEF Screen
<1> QED
  BY <1>3, <1>4

\* The model's samples and transcript start empty, as does everything else.
LEMMA Initially == ASSUME Deepcw!DeepcwAssumption, Deepcw!Init PROVE DeepcwInv
<1>1. <<>> \in Seq(Int) /\ Len(<<>>) = 0 /\ <<>> \o <<>> = <<>>
  BY EmptySeq, ConcatEmptySeq
<1>2. SubSeq(<<>>, 1, 0) = <<>>
  BY SubSeqEmpty
<1>3. Types
  <2>1. flags \in [reset : BOOLEAN, stop : BOOLEAN]
    BY DEF Deepcw!Init
  <2>2. epoch \in Nat /\ took \in 0 .. epoch /\ sampled \in Nat
    BY DEF Deepcw!Init
  <2> QED
    BY <2>1, <2>2 DEF Deepcw!Init, Types
<1>8. Samples /\ Working
  BY <1>1 DEF Deepcw!Init, Samples, Working
<1>4. Screen
  BY <1>1 DEF Deepcw!Init, Screen, Deepcw!DeepcwAssumption
<1>5. Posts
  BY EmptySeq DEF Deepcw!Init, Posts
<1>6. Transcript
  BY <1>1, <1>2 DEF Deepcw!Init, Transcript
<1>7. HeardInv /\ PostedInv
  BY <1>1 DEF Deepcw!Init, HeardInv, Heard, PostedInv, Fresh
<1> QED
  BY <1>3, <1>4, <1>5, <1>6, <1>7, <1>8 DEF DeepcwInv

\* A new tuning changes only what the GUI thread has; until it has the lock
\* nothing is asked of the engine.
LEMMA StartAnewStep ==
  ASSUME Deepcw!DeepcwAssumption, DeepcwInv, NEW p \in Seq(Int), Deepcw!StartAnew(p)
  PROVE  DeepcwInv'
<1>1. Screen'
  BY Published, EmptySeq DEF Deepcw!StartAnew
<1>2. Types'
  BY DEF DeepcwInv, Types, Deepcw!StartAnew, Deepcw!shared, Deepcw!locals,
         Deepcw!history
<1>5. Samples'
  BY EmptySeq DEF DeepcwInv, Samples, Deepcw!StartAnew, Deepcw!FrontReset,
         Deepcw!shared, Deepcw!locals, Deepcw!model, Deepcw!history
<1>6. Working'
  BY DEF DeepcwInv, Working, Deepcw!StartAnew, Deepcw!locals
<1>3. Posts'
  <2>1. events' = events /\ epoch' = epoch + 1 /\ epoch \in Nat
    BY DEF Deepcw!StartAnew, DeepcwInv, Types
  <2>2. events \in Seq(Event)
        /\ \A i \in 1 .. Len(events) : events[i].epoch <= epoch
    BY DEF DeepcwInv, Posts
  <2>3. \A i \in 1 .. Len(events) : events[i].epoch \in Nat
    <3>1. \A i \in 1 .. Len(events) : events[i] \in Event
      BY <2>2, ElementOfSeq
    <3> QED
      BY <3>1 DEF Event
  <2>4. \A i \in 1 .. Len(events) : events[i].epoch <= epoch + 1
    BY <2>1, <2>2, <2>3
  <2> QED
    BY <2>1, <2>2, <2>4 DEF Posts
<1>4. Transcript' /\ HeardInv' /\ PostedInv'
  BY DEF DeepcwInv, Transcript, HeardInv, Heard, PostedInv, Fresh,
         Deepcw!StartAnew, Deepcw!shared, Deepcw!locals,
         Deepcw!model, Deepcw!history
<1> QED
  BY <1>1, <1>2, <1>3, <1>4, <1>5, <1>6 DEF DeepcwInv

\* Under the lock the queue is emptied and the engine is told to forget.
LEMMA BumpStep == ASSUME DeepcwInv, Deepcw!BumpEpoch PROVE DeepcwInv'
<1> USE DEF Deepcw!BumpEpoch, Deepcw!Forget, Deepcw!window, Deepcw!locals,
       Deepcw!model
<1>1. Types' /\ Samples' /\ Working'
  BY EmptySeq DEF DeepcwInv, Types, Samples, Working
<1>2. Screen' /\ Posts' /\ Transcript'
  BY DEF DeepcwInv, Screen, Posts, Transcript
<1>3. HeardInv' /\ PostedInv'
  BY DEF HeardInv, PostedInv, Fresh
<1> QED
  BY <1>1, <1>2, <1>3 DEF DeepcwInv

\* What the filter gives is queued, and counted as queued.
LEMMA FeedStep ==
  ASSUME DeepcwInv, NEW n \in 0 .. Len(Deepcw!Held), Deepcw!Feed(n)
  PROVE  DeepcwInv'
<1> DEFINE pcm == SubSeq(Deepcw!Held, 1, n)
<1>1. Deepcw!Held \in Seq(Int) /\ Len(Deepcw!Held) \in Nat
  BY AppendProperties, LenProperties DEF DeepcwInv, Samples, Types, Deepcw!Held
<1>2. pcm \in Seq(Int)
  BY <1>1, ElementOfSeq, SubSeqProperties
<1>3. SubSeq(Deepcw!Held, n + 1, Len(Deepcw!Held)) \in Seq(Int)
  BY <1>1, ElementOfSeq, SubSeqProperties
<1>4. /\ queue' = queue \o pcm /\ since' = since \o pcm
      /\ front' = SubSeq(Deepcw!Held, n + 1, Len(Deepcw!Held))
            /\ sampled' = sampled + 1
      /\ UNCHANGED <<gui, tuned, prefix, engineText, shown, reset, stop, epoch,
            events,
                     engine, chunk, flags, took, audio, text, cut>>
  BY DEF Deepcw!Feed, Deepcw!FrontProcess, Deepcw!locals, Deepcw!model
<1>5. queue' \in Seq(Int) /\ since' \in Seq(Int)
  BY <1>2, <1>4, ConcatProperties DEF DeepcwInv, Samples
<1>6. Types' /\ Samples' /\ Working'
  BY <1>3, <1>4, <1>5 DEF DeepcwInv, Types, Samples, Working
<1>7. Screen' /\ Posts' /\ Transcript' /\ PostedInv'
  BY <1>4 DEF DeepcwInv, Screen, Posts, Transcript, PostedInv, Fresh
<1>8. HeardInv'
  <2>1. Heard \in Seq(Int)
    BY ConcatProperties DEF DeepcwInv, Samples, Heard
  <2>2. (Heard \o queue) \o pcm = Heard \o (queue \o pcm)
    <3>1. queue \in Seq(Int)
      BY DEF DeepcwInv, Samples
    <3> HIDE DEF pcm
    <3> QED
      BY SMTT(30), <1>2, <2>1, <3>1, ConcatAssociative
  <2>3. Heard' = Heard /\ reset' = reset
    BY <1>4 DEF Heard
  <2>4. since = IF reset THEN queue ELSE Heard \o queue
    BY DEF DeepcwInv, HeardInv
  <2>5. since' = IF reset' THEN queue' ELSE Heard' \o queue'
    <3>1. queue' = queue \o pcm /\ since' = since \o pcm
      BY <1>4
    <3> HIDE DEF pcm
    <3>2. CASE reset
      BY <2>3, <2>4, <3>1, <3>2
    <3>3. CASE ~reset
      BY <2>2, <2>3, <2>4, <3>1, <3>3
    <3> QED
      BY <3>2, <3>3
  <2> QED
    BY <2>5 DEF HeardInv
<1> QED
  BY <1>6, <1>7, <1>8 DEF DeepcwInv

\* The oldest text on its way is shown when it is of the present epoch.
LEMMA DeliverStep == ASSUME Deepcw!DeepcwAssumption, DeepcwInv,
      Deepcw!Deliver PROVE DeepcwInv'
<1> DEFINE e == Head(events)
<1>1. /\ e \in Event /\ events' \in Seq(Event) /\ Len(events') = Len(events) - 1
      /\ \A i \in 1 .. Len(events') : events'[i] = events[i + 1]
      /\ Len(events) \in Nat \ {0} /\ e = events[1]
  BY HeadTailProperties, EmptySeq, LenProperties DEF DeepcwInv, Posts,
         Deepcw!Deliver
<1>2. UNCHANGED <<gui, front, queue, reset, stop, epoch, engine, chunk, flags, took,
                  audio, text, sampled, since>>
  BY DEF Deepcw!Deliver, Deepcw!shared, Deepcw!locals, Deepcw!model
<1>3. PICK t \in Seq(Int), n \in Nat : e = [epoch |-> n, text |-> t]
  BY <1>1 DEF Event
<1>4. Screen' /\ cut' \in BOOLEAN /\ (n = epoch => cut' \/ engineText' = t)
  <2>1. CASE n = epoch
    <3>1. Deepcw!publish(prefix, t) /\ cut' = (cut \/ Deepcw!TooLong(prefix \o t))
      BY <1>3, <2>1 DEF Deepcw!Deliver
    <3>2. Screen' /\ (Deepcw!TooLong(prefix \o t) \/ engineText' = t)
      BY <3>1, Published DEF DeepcwInv, Screen
    <3> QED
      BY <3>1, <3>2 DEF DeepcwInv, Types
  <2>2. CASE n # epoch
    <3>1. UNCHANGED <<prefix, engineText, shown, cut>>
      BY <1>3, <2>2 DEF Deepcw!Deliver
    <3> QED
      BY <2>2, <3>1 DEF DeepcwInv, Screen, Types
  <2> QED
    BY <2>1, <2>2
<1>5. Types' /\ Samples' /\ Working' /\ Transcript' /\ HeardInv'
  BY <1>2, <1>4 DEF DeepcwInv, Types, Samples, Working, Transcript, HeardInv, Heard
<1>6. Posts'
  BY SMTT(30), <1>1, <1>2 DEF DeepcwInv, Posts
<1>7. PostedInv'
  <2> SUFFICES ASSUME Fresh' PROVE PostedInv'
    BY DEF PostedInv
  <2>1. events[Len(events)] = [epoch |-> epoch, text |-> text]
    BY <1>1, <1>2, EmptySeq DEF DeepcwInv, PostedInv, Fresh
  <2>2. CASE Len(events) = 1
    <3>1. n = epoch /\ t = text
      BY <1>1, <1>3, <2>1, <2>2
    <3>2. events' = <<>>
      BY <1>1, <2>2, EmptySeq
    <3> QED
      BY <1>2, <1>4, <3>1, <3>2 DEF PostedInv
  <2>3. CASE Len(events) > 1
    <3>1. events'[Len(events')] = events[Len(events)] /\ Len(events') # 0
      <4>1. Len(events') = Len(events) - 1 /\ Len(events') \in 1 .. Len(events')
        BY <1>1, <2>3
      <4>2. events'[Len(events')] = events[Len(events') + 1]
        BY <1>1, <4>1
      <4>3. Len(events') + 1 = Len(events)
        BY <1>1, <4>1
      <4> QED
        BY <4>1, <4>2, <4>3
    <3>2. events' # <<>>
      BY <3>1, EmptySeq
    <3> QED
      BY <1>2, <2>1, <3>1, <3>2 DEF PostedInv
  <2> QED
    BY <1>1, <2>2, <2>3
<1> QED
  BY <1>4, <1>5, <1>6, <1>7 DEF DeepcwInv

\* The window closes: the engine is told to stop, and joined.
LEMMA CloseStep == ASSUME DeepcwInv, Deepcw!Close \/ Deepcw!Joined PROVE DeepcwInv'
<1>1. /\ gui' \in {"joining", "closed"} /\ stop' \in BOOLEAN
      /\ events' = events \/ events' = <<>>
      /\ UNCHANGED <<tuned, front, prefix, engineText, shown, queue, reset, epoch,
                     engine, chunk, flags, took, audio, text, sampled, since, cut>>
  BY DEF Deepcw!Close, Deepcw!Joined, Deepcw!window, Deepcw!shared, Deepcw!locals,
         Deepcw!model, Deepcw!history, DeepcwInv, Types
<1>2. Types' /\ Samples'
  BY <1>1 DEF DeepcwInv, Types, Samples
<1>3. Screen' /\ Transcript' /\ HeardInv'
  BY <1>1 DEF DeepcwInv, Screen, Transcript, HeardInv, Heard
<1>4. Working' /\ PostedInv'
  BY <1>1 DEF DeepcwInv, Working, PostedInv, Fresh
<1>5. Posts'
  <2>1. Len(<<>>) = 0 /\ <<>> \in Seq(Event)
    BY EmptySeq
  <2>2. CASE events' = events
    BY <1>1, <2>2 DEF DeepcwInv, Posts
  <2>3. CASE events' = <<>>
    BY <2>1, <2>3 DEF Posts
  <2> QED
    BY <1>1, <2>2, <2>3
<1> QED
  BY <1>2, <1>3, <1>4, <1>5 DEF DeepcwInv

\* The engine takes all that waits, and whether it has to forget.
LEMMA TakeStep == ASSUME DeepcwInv, Deepcw!Take PROVE DeepcwInv'
<1>1. /\ chunk' = queue /\ queue' = <<>> /\ reset' = FALSE
      /\ flags' = [reset |-> reset, stop |-> stop] /\ engine = "wait"
            /\ engine' = "taken"
      /\ UNCHANGED <<gui, tuned, front, prefix, engineText, shown, stop, epoch,
            events,
                     took, audio, text, sampled, since, cut>>
  BY DEF Deepcw!Take, Deepcw!window, Deepcw!model, Deepcw!history
<1>2. chunk = <<>> /\ ~flags.reset
  BY <1>1 DEF DeepcwInv, Working
<1>3. Types'
  BY <1>1 DEF DeepcwInv, Types
<1>4. Samples'
  BY <1>1, EmptySeq DEF DeepcwInv, Samples
<1>5. Screen' /\ Posts' /\ Transcript' /\ Working'
  BY <1>1 DEF DeepcwInv, Screen, Posts, Transcript, Working
<1>6. PostedInv'
  BY <1>1, <1>2 DEF DeepcwInv, PostedInv, Fresh
<1>7. HeardInv'
  <2>1. queue \in Seq(Int) /\ audio \in Seq(Int) /\ audio \o queue \in Seq(Int)
    BY ConcatProperties DEF DeepcwInv, Samples
  <2>2. queue \o <<>> = queue /\ (audio \o queue) \o <<>> = audio \o queue
        /\ audio \o <<>> = audio
    BY <2>1, ConcatEmptySeq
  <2>3. since = IF reset THEN queue ELSE audio \o queue
    BY <1>2, <2>2 DEF DeepcwInv, HeardInv, Heard
  <2>4. reset \in BOOLEAN /\ flags'.reset = reset
    BY <1>1 DEF DeepcwInv, Types
  <2> QED
    BY <1>1, <2>2, <2>3, <2>4 DEF HeardInv, Heard
<1> QED
  BY <1>3, <1>4, <1>5, <1>6, <1>7 DEF DeepcwInv

\* The model is loaded, or the thread ends; the epoch is read.
LEMMA LoadStep == ASSUME DeepcwInv, Deepcw!Load \/ Deepcw!ReadEpoch PROVE DeepcwInv'
<1>1. UNCHANGED <<gui, tuned, front, prefix, engineText, shown, queue, reset, stop,
      epoch,
                  events, chunk, flags, audio, text, sampled, since, cut>>
  BY DEF Deepcw!Load, Deepcw!ReadEpoch, Deepcw!window, Deepcw!shared,
         Deepcw!locals, Deepcw!model, Deepcw!history
<1>2. \/ engine = "load" /\ engine' \in {"wait", "ended"} /\ took' = took
      \/ engine = "taken" /\ engine' \in {"work", "ended"} /\ took' = epoch
  BY DEF Deepcw!Load, Deepcw!ReadEpoch, Deepcw!locals
<1>3. Types'
  <2>1. took' \in 0 .. epoch /\ engine' \in {"load", "wait", "taken", "work",
        "ended"}
    BY <1>2 DEF DeepcwInv, Types
  <2> QED
    BY <1>1, <2>1 DEF DeepcwInv, Types
<1>4. Working'
  BY <1>1, <1>2 DEF DeepcwInv, Working
<1>5. Samples' /\ Screen' /\ Posts' /\ Transcript'
  BY <1>1 DEF DeepcwInv, Samples, Screen, Posts, Transcript
<1>6. HeardInv' /\ PostedInv'
  BY <1>1 DEF DeepcwInv, HeardInv, Heard, PostedInv, Fresh
<1> QED
  BY <1>3, <1>4, <1>5, <1>6 DEF DeepcwInv

\* A text that the engine posts is the last one on its way, in the epoch it
\* read.
LEMMA Emitted ==
  ASSUME DeepcwInv, NEW t \in Seq(Int), Deepcw!Emit(t), epoch' = epoch
  PROVE  /\ Posts' /\ events' # <<>>
         /\ events'[Len(events')] = [epoch |-> took, text |-> t]
<1> DEFINE e == [epoch |-> took, text |-> t]
<1>1. e \in Event /\ e.epoch <= epoch /\ took \in Nat
  BY DEF DeepcwInv, Types, Event
<1>2. events' = Append(events, e) /\ events \in Seq(Event) /\ Len(events) \in Nat
  BY LenProperties DEF Deepcw!Emit, DeepcwInv, Posts
<1> HIDE DEF e
<1>3. /\ events' \in Seq(Event) /\ events' # <<>> /\ Len(events') = Len(events) + 1
      /\ \A i \in 1 .. Len(events) : events'[i] = events[i]
      /\ events'[Len(events) + 1] = e
  BY <1>1, <1>2, AppendProperties
<1>4. \A i \in 1 .. Len(events') : events'[i].epoch <= epoch
  BY <1>1, <1>2, <1>3 DEF DeepcwInv, Posts
<1> QED
  BY <1>3, <1>4 DEF Posts, e

\* The model forgets, and an empty text says so.
LEMMA ResetStep == ASSUME DeepcwInv, Deepcw!Reset PROVE DeepcwInv'
<1>1. /\ audio' = <<>> /\ text' = <<>> /\ engine = "work" /\ flags.reset
      /\ flags' = [flags EXCEPT !.reset = FALSE] /\ Deepcw!Emit(<<>>)
      /\ UNCHANGED <<gui, tuned, front, prefix, engineText, shown, queue, reset,
            stop,
                     epoch, engine, chunk, took, sampled, since, cut>>
  BY DEF Deepcw!Reset, Deepcw!window, Deepcw!shared, Deepcw!history
<1>2. <<>> \in Seq(Int) /\ Len(<<>>) = 0 /\ SubSeq(<<>>, 1, 0) = <<>>
  BY EmptySeq, SubSeqEmpty
<1>3. flags' \in [reset : BOOLEAN, stop : BOOLEAN] /\ ~flags'.reset
  BY <1>1 DEF DeepcwInv, Types
<1>4. Types' /\ Samples'
  BY <1>1, <1>2, <1>3 DEF DeepcwInv, Types, Samples
<1>5. Screen' /\ Transcript' /\ Working'
  BY <1>1, <1>2, <1>3 DEF DeepcwInv, Screen, Transcript, Working
<1>6. /\ Posts' /\ events' # <<>>
      /\ events'[Len(events')] = [epoch |-> took, text |-> <<>>]
  BY <1>1, <1>2, Emitted
<1>7. PostedInv'
  BY <1>1, <1>6 DEF DeepcwInv, Working, PostedInv, Fresh
<1>8. HeardInv'
  <2>1. <<>> \o chunk = chunk
    BY ConcatEmptySeq DEF DeepcwInv, Samples
  <2> QED
    BY <1>1, <1>3, <2>1 DEF DeepcwInv, HeardInv, Heard
<1> QED
  BY <1>4, <1>5, <1>6, <1>7, <1>8 DEF DeepcwInv

\* The model hears the chunk; a longer transcript is posted, and one that is
\* not longer is the same.
LEMMA ProcessStep == ASSUME DeepcwInv, Deepcw!Process PROVE DeepcwInv'
<1> DEFINE a == audio \o chunk
<1>1. /\ audio' = a /\ chunk' = <<>> /\ engine = "work" /\ engine' = "wait"
      /\ ~flags.reset
      /\ UNCHANGED <<gui, tuned, front, prefix, engineText, shown, queue, reset,
            stop,
                     epoch, flags, took, sampled, since, cut>>
  BY DEF Deepcw!Process, Deepcw!window, Deepcw!shared, Deepcw!history
<1>2. PICK n \in Len(text) .. Len(a) :
         /\ text' = SubSeq(a, 1, n)
         /\ IF n > Len(text) THEN Deepcw!Emit(text') ELSE UNCHANGED events
  BY <1>1 DEF Deepcw!Process
<1>3. /\ audio \in Seq(Int) /\ chunk \in Seq(Int) /\ a \in Seq(Int)
      /\ Len(a) = Len(audio) + Len(chunk) /\ Len(a) \in Nat /\ Len(audio) \in Nat
      /\ text \in Seq(Int) /\ Len(text) \in Nat /\ Len(text) <= Len(audio)
  BY ConcatProperties, LenProperties DEF DeepcwInv, Samples, Transcript
<1> HIDE DEF a
<1>4. n \in 0 .. Len(a)
  BY <1>2, <1>3
<1>5. text' \in Seq(Int) /\ Len(text') = n
  <2>1. \A i \in 1 .. n : a[i] \in Int
    BY <1>3, <1>4, ElementOfSeq
  <2> QED
    BY <1>2, <1>4, <2>1, SubSeqProperties
<1>6. n = Len(text) => text' = text
  <2> SUFFICES ASSUME n = Len(text) PROVE text' = text
    OBVIOUS
  <2>1. CASE n = 0
    <3>1. SubSeq(a, 1, 0) = <<>> /\ SubSeq(audio, 1, 0) = <<>>
      BY SubSeqEmpty
    <3> QED
      BY <1>2, <2>1, <3>1 DEF DeepcwInv, Transcript
  <2>2. CASE n # 0
    <3>1. SubSeq(a, 1, n) = SubSeq(audio, 1, n)
      BY <1>3, <1>4, <2>2, SubSeqOfConcat1 DEF a
    <3> QED
      BY <1>2, <3>1 DEF DeepcwInv, Transcript
  <2> QED
    BY <2>1, <2>2
<1>7. Types' /\ Samples' /\ Screen'
  BY <1>1, <1>3, EmptySeq DEF DeepcwInv, Types, Samples, Screen
<1>8. Transcript' /\ Working'
  BY <1>1, <1>2, <1>4, <1>5 DEF Transcript, Working
<1>9. Posts' /\ PostedInv'
  <2>1. CASE n > Len(text)
    <3>1. /\ Posts' /\ events' # <<>>
          /\ events'[Len(events')] = [epoch |-> took, text |-> text']
      BY <1>1, <1>2, <1>5, <2>1, Emitted
    <3> QED
      BY <1>1, <3>1 DEF DeepcwInv, Working, PostedInv, Fresh
  <2>2. CASE n = Len(text)
    BY <1>1, <1>2, <1>6, <2>2 DEF DeepcwInv, Posts, PostedInv, Fresh
  <2> QED
    BY <1>2, <1>3, <2>1, <2>2
<1>10. HeardInv'
  <2>1. a \o <<>> = a
    BY <1>3, ConcatEmptySeq
  <2>2. Heard = a /\ Heard' = a
    BY <1>1, <2>1 DEF Heard, a
  <2> QED
    BY <1>1, <2>2 DEF DeepcwInv, HeardInv
<1> QED
  BY <1>7, <1>8, <1>9, <1>10 DEF DeepcwInv

-----------------------------------------------------------------------------
\* What the window shows when everything has been worked off is the transcript,
\* and what the model has heard is all that the filter gave since the last
\* clearing, tuning or adopted copy, whatever the two threads did meanwhile.
THEOREM WindowCatchesUp ==
  ASSUME Deepcw!DeepcwAssumption
  PROVE  Deepcw!Spec => [](Deepcw!TypeOK /\ Deepcw!CaughtUp)
<1>1. Deepcw!Init => DeepcwInv
  BY Initially
<1>2. DeepcwInv /\ [Deepcw!Next]_(Deepcw!vars) => DeepcwInv'
  <2> SUFFICES ASSUME DeepcwInv, [Deepcw!Next]_(Deepcw!vars) PROVE DeepcwInv'
    OBVIOUS
  <2>1. ASSUME Deepcw!clearDecode \/ Deepcw!resetTiming \/ Deepcw!setTune
        \/ \E c \in Copies : Deepcw!adoptText(c)
        PROVE  DeepcwInv'
    <3>1. <<>> \in Seq(Int) /\ shown \in Seq(Int) /\ Copies \subseteq Seq(Int)
      BY EmptySeq, ConcatProperties DEF DeepcwInv, Screen, Deepcw!DeepcwAssumption
    <3> QED
      BY <2>1, <3>1, StartAnewStep DEF Deepcw!clearDecode, Deepcw!resetTiming,
             Deepcw!setTune, Deepcw!adoptText
  <2>2. CASE \E n \in 0 .. Len(Deepcw!Held) : Deepcw!Feed(n)
    BY <2>2, FeedStep
  <2>3. CASE Deepcw!BumpEpoch
    BY <2>3, BumpStep
  <2>4. CASE Deepcw!Deliver
    BY <2>4, DeliverStep
  <2>5. CASE Deepcw!Close \/ Deepcw!Joined
    BY <2>5, CloseStep
  <2>6. CASE Deepcw!Engine
    BY <2>6, LoadStep, TakeStep, ResetStep, ProcessStep DEF Deepcw!Engine
  <2>7. CASE UNCHANGED Deepcw!vars
    BY <2>7 DEF Deepcw!vars, Deepcw!window, Deepcw!shared, Deepcw!locals,
           Deepcw!model, Deepcw!history, DeepcwInv, Types, Samples,
                Screen, Posts, Transcript, Working, HeardInv, Heard, PostedInv,
                      Fresh
  <2> QED
    BY <2>1, <2>2, <2>3, <2>4, <2>5, <2>6, <2>7 DEF Deepcw!Next
<1>3. DeepcwInv => Deepcw!TypeOK /\ Deepcw!CaughtUp
  <2> SUFFICES ASSUME DeepcwInv PROVE Deepcw!TypeOK /\ Deepcw!CaughtUp
    OBVIOUS
  <2>1. Deepcw!TypeOK
    BY LenProperties DEF DeepcwInv, Types, Screen, Posts, Deepcw!TypeOK
  <2>2. audio \o <<>> = audio
    BY ConcatEmptySeq DEF DeepcwInv, Samples
  <2>3. Deepcw!CaughtUp
    BY <2>2 DEF DeepcwInv, Working, HeardInv, Heard, PostedInv, Fresh,
           Deepcw!CaughtUp, Deepcw!Quiet
  <2> QED
    BY <2>1, <2>3
<1> QED
  BY <1>1, <1>2, <1>3, PTL DEF Deepcw!Spec

-----------------------------------------------------------------------------
(* The slices of the waterfall.                                            *)

Slice == [active : BOOLEAN, at : Int, switchAt : Int, hits : {0, 1}, text : Seq(Int)]

\* A slice that counts a rival counts what was the strongest peak of its last
\* column, and that is another signal than the one it follows.
SliceInv(i, c, was) ==
    /\ c \in Slice
    /\ c.active => c.at \in i * kSlotHz .. (i + 1) * kSlotHz - 1
    /\ ~c.active => c = Multi!resetChannelState
    /\ c.hits = 1 => /\ was = c.switchAt /\ was # Multi!None
                     /\ ~Multi!SameSignal(was, c.at)

\* What a slice may do while the span stays; now is the strongest peak of the
\* column that comes.
SliceStep(c, was, t, now) ==
    /\ c.active /\ t.active /\ ~Multi!SameSignal(c.at, t.at) =>
          /\ was # Multi!None /\ Multi!SameSignal(was, t.at)
          /\ ~Multi!SameSignal(was, c.at) /\ now = t.at
    /\ t.text = c.text \/ t.text = Append(c.text, t.at)

MultiInv ==
    /\ span \in {0} \cup {Multi!Width(s) : s \in Columns} /\ maxActive \in 1 .. kMaxChannels
    /\ slices \in [Multi!Slots -> Slice] /\ seen \in [Multi!Slots -> Int]
    /\ \A i \in Multi!Slots : SliceInv(i, slices[i], seen[i])
    /\ span = 0 => \A i \in Multi!Slots : slices[i] = Multi!resetChannelState

LEMMA MultiConstants ==
  /\ {kMaxChannels, kSlotHz, kMinSnrDb} \subseteq Nat \ {0}
  /\ {kFollowHz, kSwitchMarginDb, MaxLetters} \subseteq Nat
  /\ \A s \in Columns : \E n \in 1 .. kMaxChannels :
         DOMAIN s = 0 .. n * kSlotHz - 1 /\ \A b \in DOMAIN s : s[b] \in Nat
BY DecodersAssumption DEF Multi!MultiAssumption

\* A set of numbers that is not empty has a least one.
LEMMA LeastNat ==
  ASSUME NEW T \in SUBSET Nat, T # {}
  PROVE  \E m \in T : \A n \in T : m <= n
<1> DEFINE R == OpToRel(<, Nat)
<1>1. IsWellFoundedOn(R, Nat)
  BY NatLessThanWellFounded
<1>2. \A x, y \in Nat : <<x, y>> \in R <=> x < y
  BY DEF OpToRel
<1> HIDE DEF R
<1>3. PICK x \in T : \A y \in T : ~ (<<y, x>> \in R)
  BY <1>1, WFMin
<1>4. \A y \in T : ~ (y < x) /\ y \in Nat
  BY <1>2, <1>3
<1> QED
  BY <1>4

\* The levels of the bins up to n have a bound.
LEMMA LevelsBounded ==
  ASSUME NEW n \in Nat, NEW s, NEW P \in SUBSET (0 .. n), \A b \in P : s[b] \in Nat
  PROVE  \E m \in Nat : \A b \in P : s[b] <= m
<1> DEFINE Bounded(k) == \E m \in Nat : \A b \in P : b <= k => s[b] <= m
           U == {k \in 0 .. n : ~Bounded(k)}
<1>1. SUFFICES ASSUME U # {} PROVE FALSE
  <2>1. n \in 0 .. n
    OBVIOUS
  <2>2. U = {} => Bounded(n)
    <3> HIDE DEF Bounded
    <3> QED
      BY <2>1
  <2>3. Bounded(n) => \E m \in Nat : \A b \in P : s[b] <= m
    OBVIOUS
  <2> HIDE DEF U, Bounded
  <2> QED
    BY <2>2, <2>3
<1>2. PICK k \in U : \A j \in U : k <= j
  <2>1. U \in SUBSET Nat
    OBVIOUS
  <2> HIDE DEF U
  <2> QED
    BY <1>1, <2>1, LeastNat
<1>3. k \in 0 .. n /\ ~Bounded(k)
  OBVIOUS
<1>4. CASE k = 0
  <2> DEFINE m == IF 0 \in P THEN s[0] ELSE 0
  <2>1. m \in Nat
    OBVIOUS
  <2>2. \A b \in P : b <= k => s[b] <= m
    BY <1>4
  <2> HIDE DEF m
  <2> QED
    BY <1>3, <2>1, <2>2
<1>5. CASE k # 0
  <2>1. k - 1 \in 0 .. n /\ k - 1 \notin U
    <3> HIDE DEF U, Bounded
    <3>1. k \in Nat /\ k - 1 \in 0 .. n
      BY <1>3, <1>5
    <3>2. ~ (k <= k - 1)
      BY <3>1
    <3> QED
      BY <1>2, <3>1, <3>2
  <2>2. Bounded(k - 1)
    <3> HIDE DEF Bounded
    <3> QED
      BY <2>1
  <2>3. PICK m \in Nat : \A b \in P : b <= k - 1 => s[b] <= m
    BY <2>2
  <2> DEFINE l == IF k \in P THEN s[k] ELSE 0
             o == IF l <= m THEN m ELSE l
  <2>4. l \in Nat /\ (k \in P => s[k] = l)
    OBVIOUS
  <2> HIDE DEF l
  <2>5. o \in Nat /\ m <= o /\ l <= o
    BY <2>4
  <2> HIDE DEF o
  <2>6. ASSUME NEW b \in P, b <= k
        PROVE  s[b] <= o
    <3>1. b \in 0 .. n /\ s[b] \in Nat
      OBVIOUS
    <3>2. CASE b = k
      BY <2>4, <2>5, <3>2
    <3>3. CASE b # k
      <4>1. b <= k - 1
        BY <1>3, <2>6, <3>1, <3>3
      <4> QED
        BY <2>3, <2>5, <3>1, <4>1
    <3> QED
      BY <3>2, <3>3
  <2> QED
    BY <1>3, <2>5, <2>6
<1> QED
  BY <1>4, <1>5

\* Of some bins one is the loudest, and the lowest of those as loud.
LEMMA LoudestExists ==
  ASSUME NEW n \in Nat, NEW s, NEW P \in SUBSET (0 .. n), \A b \in P : s[b] \in Nat, P # {}
  PROVE  \E b \in P : \A c \in P : s[c] < s[b] \/ (s[c] = s[b] /\ b <= c)
<1> DEFINE U == {m \in Nat : \A b \in P : s[b] <= m}
<1>1. PICK m \in U : \A k \in U : m <= k
  <2>1. U \in SUBSET Nat /\ U # {}
    BY LevelsBounded
  <2> HIDE DEF U
  <2> QED
    BY <2>1, LeastNat
<1>2. m \in Nat /\ \A b \in P : s[b] <= m
  OBVIOUS
<1> DEFINE T == {b \in P : s[b] = m}
<1>3. T # {}
  <2> SUFFICES ASSUME T = {} PROVE FALSE
    OBVIOUS
  <2>1. \A b \in P : s[b] <= m - 1
    BY <1>2
  <2>2. m - 1 \in Nat
    <3>1. PICK b \in P : s[b] \in Nat
      OBVIOUS
    <3> DEFINE l == s[b]
    <3>2. l \in Nat /\ l <= m - 1
      BY <2>1, <3>1
    <3> HIDE DEF l
    <3> QED
      BY <1>2, <3>2
  <2>3. m - 1 \in U
    BY <2>1, <2>2
  <2> QED
    BY <1>1, <1>2, <2>3
<1>4. PICK b \in T : \A c \in T : b <= c
  <2>1. T \in SUBSET Nat
    <3>1. \A b \in 0 .. n : b \in Nat
      OBVIOUS
    <3> QED
      BY <3>1
  <2> HIDE DEF T
  <2> QED
    BY <1>3, <2>1, LeastNat
<1>5. b \in P /\ \A c \in P : s[c] < s[b] \/ (s[c] = s[b] /\ b <= c)
  BY <1>2, <1>4
<1> QED
  BY <1>5

\* The loudest of some peaks is one of them; with no peak there is none.
LEMMA LoudestIs ==
  ASSUME NEW n \in Nat, NEW s, NEW P \in SUBSET (0 .. n), \A b \in P : s[b] \in Nat
  PROVE  IF P = {} THEN Multi!Loudest(s, P) = Multi!None ELSE Multi!Loudest(s, P) \in P
<1>1. CASE P = {}
  BY <1>1 DEF Multi!Loudest
<1>2. CASE P # {}
  <2>1. \E b \in P : \A c \in P : s[c] < s[b] \/ (s[c] = s[b] /\ b <= c)
    BY <1>2, LoudestExists
  <2> QED
    BY <1>2, <2>1 DEF Multi!Loudest
<1> QED
  BY <1>1, <1>2

\* What a slice finds in a column: peaks of its own, of which the nearby ones
\* are some.
OwnPeaks(s, i) == Multi!Peaks(s, i * kSlotHz, (i + 1) * kSlotHz)

FoundIn(i, mid, peaks, best, near) ==
    /\ peaks \subseteq Nat
    /\ IF peaks = {} THEN best = Multi!None ELSE best \in peaks
    /\ near = Multi!None \/ (near \in peaks /\ Multi!SameSignal(near, mid))
    /\ \A b \in peaks : i * kSlotHz <= b /\ b < (i + 1) * kSlotHz

LEMMA PeaksOfSlice ==
  ASSUME NEW s \in Columns, NEW i \in Int, NEW mid
  PROVE  /\ FoundIn(i, mid, OwnPeaks(s, i), Multi!StrongestIn(s, i), Multi!NearIn(s, i, mid))
         /\ Multi!Width(s) # 0
<1>1. PICK n \in 1 .. kMaxChannels :
           DOMAIN s = 0 .. n * kSlotHz - 1 /\ \A b \in DOMAIN s : s[b] \in Nat
  BY MultiConstants
<1> DEFINE w == n * kSlotHz
<1>2. w \in Nat /\ w >= 1
  <2>1. n \in Nat \ {0} /\ kSlotHz \in Nat \ {0}
    BY MultiConstants
  <2> QED
    BY <2>1
<1>3. DOMAIN s = 0 .. w - 1 /\ \A b \in 0 .. w - 1 : s[b] \in Nat
  BY <1>1
<1> HIDE DEF w
<1>4. Multi!Width(s) = w
  <2> DEFINE lo == 0
             hi == w - 1
  <2>1. lo \in Int /\ hi \in Int
    BY <1>2
  <2> HIDE DEF lo, hi
  <2>2. Cardinality(lo .. hi) = IF lo > hi THEN 0 ELSE hi - lo + 1
    BY <2>1, FS_Interval
  <2>3. Cardinality(DOMAIN s) = IF lo > hi THEN 0 ELSE hi - lo + 1
    BY <1>3, <2>2 DEF lo, hi
  <2> DEFINE card == Cardinality(DOMAIN s)
  <2>4. card = IF lo > hi THEN 0 ELSE hi - lo + 1
    BY <2>3
  <2>5. Multi!Width(s) = card
    BY DEF Multi!Width, Cardinality, Multi!Cardinality
  <2> HIDE DEF card
  <2>6. lo = 0 /\ hi = w - 1
    BY DEF lo, hi
  <2>7. card = w
    BY <1>2, <2>4, <2>6
  <2> QED
    BY <2>5, <2>7
<1> DEFINE low  == i * kSlotHz
           high == (i + 1) * kSlotHz
           P    == Multi!Peaks(s, low, high)
           Q    == {b \in P : Multi!SameSignal(b, mid)}
           best == Multi!StrongestIn(s, i)
           near == Multi!NearIn(s, i, mid)
<1>5. best = Multi!Loudest(s, P) /\ near = Multi!Loudest(s, Q)
  BY DEF Multi!StrongestIn, Multi!strongestPeak, Multi!NearIn
<1> HIDE DEF low, high
<1>6. /\ P \in SUBSET (0 .. w) /\ \A b \in P : s[b] \in Nat
      /\ \A b \in P : low <= b /\ b < high
  <2>1. \A b \in P : b \in 2 .. w - 3 /\ low <= b /\ b < high
    BY <1>4 DEF Multi!Peaks
  <2> HIDE DEF P
  <2> QED
    BY <1>2, <1>3, <2>1
<1> HIDE DEF P
<1>7. Q \in SUBSET (0 .. w) /\ \A b \in Q : s[b] \in Nat
  BY <1>6
<1>8. IF P = {} THEN best = Multi!None ELSE best \in P
  <2> HIDE DEF best
  <2> QED
    BY <1>2, <1>5, <1>6, LoudestIs
<1>9. near = Multi!None \/ near \in Q
  <2> HIDE DEF near, Q
  <2> QED
    BY <1>2, <1>5, <1>7, LoudestIs
<1> QED
  BY <1>2, <1>4, <1>6, <1>8, <1>9 DEF P, low, high, FoundIn, OwnPeaks

-----------------------------------------------------------------------------
LEMMA OwnSignal ==
  ASSUME NEW a \in Int
  PROVE  Multi!SameSignal(a, a)
<1>1. kFollowHz \in Nat
  BY MultiConstants
<1> QED
  BY <1>1 DEF Multi!SameSignal

LEMMA SameEitherWay ==
  ASSUME NEW a \in Int, NEW b \in Int
  PROVE  Multi!SameSignal(a, b) <=> Multi!SameSignal(b, a)
<1>1. kFollowHz \in Nat
  BY MultiConstants
<1> QED
  BY <1>1 DEF Multi!SameSignal

\* Reading a letter changes the text alone.
ReadsOnly(i, c, was, t) ==
    /\ SliceInv(i, t, was)
    /\ t.active = c.active /\ t.at = c.at
    /\ t.text = c.text \/ t.text = Append(c.text, c.at)

LEMMA FedStep ==
  ASSUME NEW i \in Int, NEW c \in Slice, NEW r, NEW was, NEW t,
         SliceInv(i, c, was), t = Multi!Fed(c, r)
  PROVE  ReadsOnly(i, c, was, t)
<1>1. CASE t = c
  BY <1>1 DEF ReadsOnly
<1>2. CASE c.active /\ t = [c EXCEPT !.text = Append(c.text, c.at)]
  <2>1. Append(c.text, c.at) \in Seq(Int)
    BY AppendProperties DEF Slice
  <2> DEFINE more == Append(c.text, c.at)
  <2> HIDE DEF more
  <2>2. /\ t \in Slice /\ t.active = c.active /\ t.at = c.at /\ t.hits = c.hits
        /\ t.switchAt = c.switchAt /\ t.text = more
    BY <1>2, <2>1 DEF Slice, more
  <2> QED
    BY <1>2, <2>2 DEF SliceInv, ReadsOnly, more
<1> QED
  BY <1>1, <1>2 DEF Multi!Fed

LEMMA Moved ==
  ASSUME NEW c \in Slice, NEW best \in Int
  PROVE  /\ [c EXCEPT !.at = best, !.hits = 0] \in Slice
         /\ [c EXCEPT !.at = best, !.switchAt = best, !.hits = 0] \in Slice
         /\ [c EXCEPT !.hits = 1, !.switchAt = best] \in Slice
BY DEF Slice

\* What a column does to a slice before its decoder reads.
LEMMA TrackedStep ==
  ASSUME NEW s \in Columns, NEW i \in Int, NEW c, NEW was, NEW t, NEW best, NEW near,
         SliceInv(i, c, was), best = Multi!StrongestIn(s, i),
         near = Multi!NearIn(s, i, c.at), t = Multi!Track(c, s, best, near)
  PROVE  SliceInv(i, t, best) /\ SliceStep(c, was, t, best) /\ t.text = c.text
<1> DEFINE P == OwnPeaks(s, i)
           low == i * kSlotHz
           high == (i + 1) * kSlotHz
<1>1. /\ P \subseteq Nat
      /\ IF P = {} THEN best = Multi!None ELSE best \in P
      /\ near = Multi!None \/ (near \in P /\ Multi!SameSignal(near, c.at))
      /\ \A b \in P : low <= b /\ b < high
  <2> DEFINE mid == c.at
  <2>1. FoundIn(i, mid, P, Multi!StrongestIn(s, i), Multi!NearIn(s, i, mid))
    BY PeaksOfSlice
  <2> HIDE DEF P, mid
  <2>2. FoundIn(i, mid, P, best, near)
    BY <2>1 DEF mid
  <2> QED
    BY <2>2 DEF FoundIn, mid
<1> HIDE DEF P
<1>2. low \in Int /\ high \in Int
  BY MultiConstants
<1> HIDE DEF low, high
<1>3. \A b \in P : b \in Nat /\ b \in low .. high - 1 /\ b # Multi!None
  BY <1>1, <1>2 DEF Multi!None
<1>4. c \in Slice /\ (c.active => c.at \in low .. high - 1)
  BY DEF SliceInv, low, high
<1>5. Multi!None \in Int /\ Multi!None = -1
  BY DEF Multi!None
<1>6. ASSUME t \in Slice, t.text = c.text, t.active => t.at \in low .. high - 1,
             ~t.active => t = Multi!resetChannelState,
             t.hits = 1 => /\ best = t.switchAt /\ best # Multi!None
                           /\ ~Multi!SameSignal(best, t.at),
             (c.active /\ t.active /\ ~Multi!SameSignal(c.at, t.at)) =>
                  /\ was # Multi!None /\ Multi!SameSignal(was, t.at)
                  /\ ~Multi!SameSignal(was, c.at) /\ best = t.at
      PROVE  SliceInv(i, t, best) /\ SliceStep(c, was, t, best) /\ t.text = c.text
  BY <1>6 DEF SliceInv, SliceStep, low, high
<1>7. CASE ~c.active /\ best = Multi!None
  <2>1. t = c
    BY <1>7 DEF Multi!Track
  <2>2. c.hits # 1
    BY <1>7 DEF SliceInv, Multi!resetChannelState
  <2> QED
    BY <1>4, <1>6, <1>7, <2>1, <2>2 DEF SliceInv
<1>8. CASE ~c.active /\ best # Multi!None
  <2>1. t = [active |-> TRUE, at |-> best, switchAt |-> best, hits |-> 0, text |-> <<>>]
    BY <1>8 DEF Multi!Track, Multi!armSlot
  <2>2. best \in Nat /\ best \in low .. high - 1
    BY <1>1, <1>3, <1>8
  <2>3. <<>> \in Seq(Int)
    BY EmptySeq
  <2>4. t \in Slice /\ t.active /\ t.at = best /\ t.hits = 0 /\ t.text = <<>>
    BY <2>1, <2>2, <2>3 DEF Slice
  <2>5. c.text = <<>>
    BY <1>8 DEF SliceInv, Multi!resetChannelState
  <2> QED
    BY <1>6, <1>8, <2>2, <2>4, <2>5
<1>9. CASE c.active /\ Multi!Holds(c, s, best, near)
  <2>1. t = [c EXCEPT !.at = near, !.hits = 0]
    BY <1>9 DEF Multi!Track, Multi!Followed, Multi!Holds
  <2>2. near \in Nat /\ near \in low .. high - 1 /\ Multi!SameSignal(near, c.at)
    BY <1>1, <1>3, <1>9 DEF Multi!Holds
  <2>3. t \in Slice /\ t.active /\ t.at = near /\ t.hits = 0 /\ t.text = c.text
    <3>1. near \in Int
      BY <2>2
    <3>2. t \in Slice
      BY <1>4, <2>1, <3>1, Moved
    <3> QED
      BY <1>4, <1>9, <2>1, <3>2 DEF Slice
  <2>4. Multi!SameSignal(c.at, near)
    <3>1. c.at \in Int /\ near \in Int
      BY <1>4, <2>2 DEF Slice
    <3> QED
      BY <2>2, <3>1, SameEitherWay
  <2> QED
    BY <1>6, <2>2, <2>3, <2>4
<1>10. ASSUME c.active, ~Multi!Holds(c, s, best, near), near = Multi!None,
              best = Multi!None \/ Multi!SameSignal(best, c.at)
       PROVE  SliceInv(i, t, best) /\ SliceStep(c, was, t, best) /\ t.text = c.text
  <2>1. t = [c EXCEPT !.hits = 0]
    BY <1>10 DEF Multi!Track
  <2>2. t \in Slice /\ t.active /\ t.at = c.at /\ t.hits = 0 /\ t.text = c.text
    BY <1>4, <1>10, <2>1 DEF Slice
  <2>3. Multi!SameSignal(c.at, c.at)
    BY <1>4, OwnSignal DEF Slice
  <2> QED
    BY <1>4, <1>6, <1>10, <2>2, <2>3
<1>11. ASSUME c.active, ~Multi!Holds(c, s, best, near),
              ~ (near = Multi!None /\ (best = Multi!None \/ Multi!SameSignal(best, c.at)))
       PROVE  SliceInv(i, t, best) /\ SliceStep(c, was, t, best) /\ t.text = c.text
  <2>1. t = Multi!Rival(c, best)
    BY <1>11 DEF Multi!Track
  <2>2. /\ best \in Nat /\ best \in low .. high - 1 /\ best # Multi!None
        /\ ~Multi!SameSignal(best, c.at)
    <3>1. CASE near = Multi!None
      BY <1>1, <1>3, <1>11, <3>1
    <3>2. CASE near # Multi!None
      BY <1>1, <1>3, <1>11, <3>2 DEF Multi!Holds
    <3> QED
      BY <3>1, <3>2
  <2>3. CASE Multi!Again(c, best)
    <3>1. c.hits = 1 /\ Multi!SameSignal(best, c.switchAt)
      BY <1>4, <2>3 DEF Multi!Again, Slice
    <3>2. t = [c EXCEPT !.at = best, !.switchAt = best, !.hits = 0]
      BY <2>1, <2>3, <3>1 DEF Multi!Rival, Multi!retargetSlot, Multi!kSwitchColumns
    <3>3. t \in Slice /\ t.active /\ t.at = best /\ t.hits = 0 /\ t.text = c.text
      <4>1. best \in Int
        BY <2>2
      <4>2. t \in Slice
        <5>1. c \in Slice
          BY <1>4
        <5>2. [c EXCEPT !.at = best, !.switchAt = best, !.hits = 0] \in Slice
          BY <4>1, <5>1, Moved
        <5> QED
          BY <3>2, <5>2
      <4> QED
        BY <1>4, <1>11, <3>2, <4>2 DEF Slice
    <3>4. was = c.switchAt /\ was # Multi!None /\ ~Multi!SameSignal(was, c.at)
      BY <3>1 DEF SliceInv
    <3>5. Multi!SameSignal(was, best)
      <4>1. c.switchAt \in Int /\ best \in Int
        BY <1>4, <2>2 DEF Slice
      <4> QED
        BY <3>1, <3>4, <4>1, SameEitherWay
    <3> QED
      BY <1>6, <2>2, <3>3, <3>4, <3>5
  <2>4. CASE ~Multi!Again(c, best)
    <3>1. t = [c EXCEPT !.hits = 1, !.switchAt = best]
      BY <2>1, <2>4 DEF Multi!Rival
    <3>2. /\ t \in Slice /\ t.active /\ t.at = c.at /\ t.switchAt = best
          /\ t.hits = 1 /\ t.text = c.text
      <4>1. best \in Int
        BY <2>2
      <4>2. t \in Slice
        <5>1. c \in Slice
          BY <1>4
        <5>2. [c EXCEPT !.hits = 1, !.switchAt = best] \in Slice
          BY <4>1, <5>1, Moved
        <5> QED
          BY <3>1, <5>2
      <4> QED
        BY <1>4, <1>11, <3>1, <4>2 DEF Slice
    <3>3. Multi!SameSignal(c.at, c.at)
      BY <1>4, OwnSignal DEF Slice
    <3> QED
      BY <1>4, <1>6, <1>11, <2>2, <3>2, <3>3
  <2> QED
    BY <2>3, <2>4
<1> QED
  BY <1>7, <1>8, <1>9, <1>10, <1>11

LEMMA ResetSlice ==
  ASSUME NEW i, NEW was
  PROVE  SliceInv(i, Multi!resetChannelState, was)
<1> DEFINE c == Multi!resetChannelState
<1>1. <<>> \in Seq(Int)
  BY EmptySeq
<1>2. c \in Slice /\ ~c.active /\ c.hits = 0
  BY <1>1 DEF Slice, Multi!resetChannelState, Multi!None
<1> QED
  BY <1>2 DEF SliceInv

\* What a column does to a slice in use, its decoder's reading included.
LEMMA UsedSlice ==
  ASSUME NEW s \in Columns, NEW i \in Int, NEW r, NEW c, NEW was, NEW t, NEW best,
         SliceInv(i, c, was), best = Multi!StrongestIn(s, i),
         t = Multi!Fed(Multi!Track(c, s, best, Multi!NearIn(s, i, c.at)), r)
  PROVE  SliceInv(i, t, best) /\ SliceStep(c, was, t, best) /\ best \in Int
<1> DEFINE near == Multi!NearIn(s, i, c.at)
           mid  == Multi!Track(c, s, best, near)
<1>1. SliceInv(i, mid, best) /\ SliceStep(c, was, mid, best) /\ mid.text = c.text
  <2> HIDE DEF mid, near
  <2>1. near = Multi!NearIn(s, i, c.at) /\ mid = Multi!Track(c, s, best, near)
    BY DEF mid, near
  <2> QED
    BY <2>1, TrackedStep
<1>2. t = Multi!Fed(mid, r)
  OBVIOUS
<1> HIDE DEF mid, near
<1>3. mid \in Slice
  BY <1>1 DEF SliceInv
<1>4. SliceInv(i, mid, best)
  BY <1>1
<1>5. ReadsOnly(i, mid, best, t)
  BY <1>2, <1>3, <1>4, FedStep
<1>7. SliceStep(c, was, t, best)
  BY <1>1, <1>5 DEF SliceStep, ReadsOnly
<1>6. best \in Int
  <2> DEFINE P == OwnPeaks(s, i)
             k == c.at
             found == Multi!NearIn(s, i, k)
  <2>1. FoundIn(i, k, P, Multi!StrongestIn(s, i), found)
    BY PeaksOfSlice
  <2> HIDE DEF P, k, found
  <2>2. FoundIn(i, k, P, best, found)
    BY <2>1
  <2>3. P \subseteq Nat /\ IF P = {} THEN best = -1 ELSE best \in P
    BY <2>2 DEF FoundIn, Multi!None
  <2> HIDE DEF P
  <2>4. CASE P = {}
    BY <2>3, <2>4
  <2>5. CASE P # {}
    <3>1. best \in P
      BY <2>3, <2>5
    <3> QED
      BY <2>3, <3>1
  <2> QED
    BY <2>4, <2>5
<1> QED
  BY <1>5, <1>6, <1>7 DEF ReadsOnly

SliceKept(i) ==
    span \in {0, span'} => SliceStep(slices[i], seen[i], slices'[i], seen'[i])

LEMMA SlotsAreNumbers == Multi!Slots \subseteq Int
BY MultiConstants DEF Multi!Slots

\* A slice that does not change does what it may.
LEMMA SameSlice ==
  ASSUME NEW i, NEW c, NEW was, NEW now, SliceInv(i, c, was)
  PROVE  SliceStep(c, was, c, now)
<1>1. c.at \in Int
  BY DEF SliceInv, Slice
<1>2. Multi!SameSignal(c.at, c.at)
  BY <1>1, OwnSignal
<1> QED
  BY <1>2 DEF SliceStep

LEMMA ColumnStep ==
  ASSUME MultiInv, NEW s \in Columns, NEW readers \in SUBSET Multi!Slots,
         Multi!ProcessColumn(s, readers)
  PROVE  MultiInv' /\ \A i \in Multi!Slots : SliceKept(i)
<1> DEFINE n    == Multi!Width(s)
           used == Multi!slotEnabled(n)
           kept(i) == IF span \notin {0, n} THEN Multi!resetChannelState ELSE slices[i]
           grown(i) == Multi!Fed(Multi!Track(kept(i), s, Multi!StrongestIn(s, i),
                                             Multi!NearIn(s, i, kept(i).at)), i \in readers)
<1>1. /\ span' = n /\ maxActive' = maxActive
      /\ slices' = [i \in Multi!Slots |-> IF i \in used THEN grown(i) ELSE kept(i)]
      /\ seen' = [i \in Multi!Slots |-> IF i \in used THEN Multi!StrongestIn(s, i) ELSE seen[i]]
  BY DEF Multi!ProcessColumn
<1>2. n # 0
  <2>1. 0 \in Int
    OBVIOUS
  <2> DEFINE i == 0
  <2> HIDE DEF i
  <2> QED
    BY <2>1, PeaksOfSlice DEF i
<1> HIDE DEF n, used
<1>3. ASSUME NEW i \in Multi!Slots
      PROVE  SliceInv(i, slices'[i], seen'[i]) /\ SliceKept(i) /\ seen'[i] \in Int
  <2> DEFINE c == kept(i)
  <2>1. SliceInv(i, c, seen[i]) /\ (span \in {0, span'} => c = slices[i])
    BY <1>1, ResetSlice DEF MultiInv
  <2>2. i \in Int /\ seen[i] \in Int
    BY SlotsAreNumbers DEF MultiInv
  <2>3. CASE i \in used
    <3> DEFINE r    == i \in readers
               best == Multi!StrongestIn(s, i)
               t    == Multi!Fed(Multi!Track(c, s, best, Multi!NearIn(s, i, c.at)), r)
    <3>1. slices'[i] = t /\ seen'[i] = best
      BY <1>1, <2>3
    <3> HIDE DEF r, c, best
    <3>2. best = Multi!StrongestIn(s, i)
      BY DEF best
    <3>3. t = Multi!Fed(Multi!Track(c, s, best, Multi!NearIn(s, i, c.at)), r)
      OBVIOUS
    <3>4. SliceInv(i, t, best) /\ SliceStep(c, seen[i], t, best) /\ best \in Int
      <4> HIDE DEF t
      <4> QED
        BY <2>1, <2>2, <3>2, <3>3, UsedSlice
    <3> HIDE DEF t
    <3> QED
      BY <2>1, <3>1, <3>4 DEF SliceKept
  <2>4. CASE i \notin used
    <3>1. slices'[i] = c /\ seen'[i] = seen[i]
      BY <1>1, <2>4
    <3> HIDE DEF c
    <3>2. SliceStep(c, seen[i], c, seen'[i])
      BY <2>1, SameSlice
    <3> QED
      BY <2>1, <2>2, <3>1, <3>2 DEF SliceKept
  <2> QED
    BY <2>3, <2>4
<1>4. slices' \in [Multi!Slots -> Slice] /\ seen' \in [Multi!Slots -> Int]
  <2>1. \A i \in Multi!Slots : slices'[i] \in Slice /\ seen'[i] \in Int
    BY <1>3 DEF SliceInv
  <2>2. /\ slices' = [i \in Multi!Slots |-> slices'[i]]
        /\ seen' = [i \in Multi!Slots |-> seen'[i]]
    <3> HIDE DEF kept, grown
    <3> QED
      BY <1>1
  <2> QED
    BY <2>1, <2>2
<1>5. span' \in {Multi!Width(k) : k \in Columns} /\ maxActive' \in 1 .. kMaxChannels
  BY <1>1 DEF MultiInv, n
<1> QED
  BY <1>1, <1>2, <1>3, <1>4, <1>5 DEF MultiInv

LEMMA MultiInitially == Multi!Init => MultiInv
<1> SUFFICES ASSUME Multi!Init PROVE MultiInv
  OBVIOUS
<1>1. <<>> \in Seq(Int)
  BY EmptySeq
<1>2. Multi!resetChannelState \in Slice
  BY <1>1 DEF Slice, Multi!resetChannelState, Multi!None
<1>3. maxActive \in 1 .. kMaxChannels
  BY MultiConstants DEF Multi!Init
<1>4. /\ \A i \in Multi!Slots : SliceInv(i, slices[i], seen[i])
      /\ \A i \in Multi!Slots : slices[i] = Multi!resetChannelState
  BY ResetSlice DEF Multi!Init
<1>5. slices \in [Multi!Slots -> Slice] /\ seen \in [Multi!Slots -> Int]
  BY <1>2 DEF Multi!Init, Multi!None
<1> QED
  BY <1>3, <1>4, <1>5 DEF MultiInv, Multi!Init

LEMMA MultiStep ==
  ASSUME MultiInv, [Multi!Next]_(Multi!vars)
  PROVE  MultiInv' /\ \A i \in Multi!Slots : SliceKept(i)
<1>1. ASSUME NEW s \in Columns, NEW readers \in SUBSET Multi!Slots,
             Multi!ProcessColumn(s, readers)
      PROVE  MultiInv' /\ \A i \in Multi!Slots : SliceKept(i)
  BY <1>1, ColumnStep
<1>2. CASE Multi!Clear
  <2>1. <<>> \in Seq(Int)
    BY EmptySeq
  <2>2. Multi!resetChannelState \in Slice /\ ~Multi!resetChannelState.active
    BY <2>1 DEF Slice, Multi!resetChannelState, Multi!None
  <2>3. /\ span' = 0 /\ maxActive' = maxActive /\ seen' = seen
        /\ slices' = [i \in Multi!Slots |-> Multi!resetChannelState]
    BY <1>2 DEF Multi!Clear
  <2>4. \A i \in Multi!Slots : SliceInv(i, slices'[i], seen'[i])
    BY <2>3, ResetSlice
  <2>5. slices' \in [Multi!Slots -> Slice]
    BY <2>2, <2>3
  <2>6. MultiInv'
    BY <2>3, <2>4, <2>5 DEF MultiInv
  <2>7. ASSUME NEW i \in Multi!Slots PROVE SliceKept(i)
    <3>1. CASE span = 0
      <4>1. slices[i] = Multi!resetChannelState
        BY <3>1 DEF MultiInv
      <4>2. slices'[i] = slices[i]
        BY <2>3, <4>1
      <4> QED
        BY <4>2, SameSlice DEF MultiInv, SliceKept
    <3>2. CASE span # 0
      BY <2>3, <3>2 DEF SliceKept
    <3> QED
      BY <3>1, <3>2
  <2> QED
    BY <2>6, <2>7
<1>3. ASSUME span' = span, slices' = slices, seen' = seen,
             maxActive' \in 1 .. kMaxChannels
      PROVE  MultiInv' /\ \A i \in Multi!Slots : SliceKept(i)
  <2>1. MultiInv'
    BY <1>3 DEF MultiInv
  <2>2. ASSUME NEW i \in Multi!Slots PROVE SliceKept(i)
    BY <1>3, SameSlice DEF MultiInv, SliceKept
  <2> QED
    BY <2>1, <2>2
<1>4. CASE \E n \in 1 .. kMaxChannels : Multi!setMaxActiveChannels(n)
  BY <1>3, <1>4 DEF Multi!setMaxActiveChannels
<1>5. CASE UNCHANGED Multi!vars
  BY <1>3, <1>5 DEF Multi!vars, MultiInv
<1> QED
  BY <1>1, <1>2, <1>4, <1>5 DEF Multi!Next

SliceTakeover(i) ==
    (/\ slices[i].active /\ slices'[i].active /\ span' = span
     /\ ~Multi!SameSignal(slices[i].at, slices'[i].at)) =>
        /\ seen[i] # Multi!None /\ Multi!SameSignal(seen[i], slices'[i].at)
        /\ ~Multi!SameSignal(seen[i], slices[i].at)
        /\ seen'[i] = slices'[i].at

SliceCopy(i) ==
    \/ slices'[i].text = slices[i].text
    \/ slices'[i].text = Append(slices[i].text, slices'[i].at)
    \/ span' # span /\ span # 0

-----------------------------------------------------------------------------
\* A slice of the waterfall leaves the signal it follows only for one that was
\* the strongest of the slice in two of its columns, one after the other, keeps
\* within its kilohertz, and appends to its copy and never rewrites it while the
\* span stays, whatever the columns are and whenever the copies are cleared or
\* the number of slices is changed.
THEOREM SlicesFollowTheirs == ChannelsSpec => SlicesFollow
<1>1. ChannelsInit => MultiInv
  BY MultiInitially DEF ChannelsInit
<1>2. [ChannelsNext]_all => [Multi!Next]_(Multi!vars)
  BY DEF ChannelsNext, all, multi, Multi!vars
<1>3. MultiInv /\ [Multi!Next]_(Multi!vars) => MultiInv'
  BY MultiStep
<1>4. MultiInv => Multi!TypeOK
  <2> SUFFICES ASSUME MultiInv, NEW i \in Multi!Slots
      PROVE  /\ slices[i].active =>
                   /\ slices[i].at \in i * kSlotHz .. (i + 1) * kSlotHz - 1
                   /\ slices[i].hits \in 0 .. Multi!kSwitchColumns - 1
             /\ ~slices[i].active => slices[i] = Multi!resetChannelState
    BY DEF Multi!TypeOK, MultiInv
  <2>1. SliceInv(i, slices[i], seen[i])
    BY DEF MultiInv
  <2>2. slices[i].hits \in 0 .. Multi!kSwitchColumns - 1
    BY <2>1 DEF SliceInv, Slice, Multi!kSwitchColumns
  <2> QED
    BY <2>1, <2>2 DEF SliceInv
<1>5. MultiInv /\ [Multi!Next]_(Multi!vars) =>
          \A i \in Multi!Slots : SliceTakeover(i) /\ SliceCopy(i)
  <2> SUFFICES ASSUME MultiInv, [Multi!Next]_(Multi!vars), NEW i \in Multi!Slots
      PROVE  SliceTakeover(i) /\ SliceCopy(i)
    OBVIOUS
  <2>1. SliceKept(i)
    BY MultiStep
  <2>2. SliceTakeover(i)
    BY <2>1 DEF SliceKept, SliceStep, SliceTakeover
  <2>3. CASE span \in {0, span'}
    <3>1. \/ slices'[i].text = slices[i].text
          \/ slices'[i].text = Append(slices[i].text, slices'[i].at)
      BY <2>1, <2>3 DEF SliceKept, SliceStep
    <3> QED
      BY <2>2, <3>1 DEF SliceCopy
  <2>4. CASE span \notin {0, span'}
    BY <2>2, <2>4 DEF SliceCopy
  <2> QED
    BY <2>3, <2>4
<1>6. ChannelsSpec => ChannelsInit /\ [][ChannelsNext]_all
  BY PTL DEF ChannelsSpec
<1>7. ChannelsInit /\ [][ChannelsNext]_all => []MultiInv /\ [][Multi!Next]_(Multi!vars)
  BY <1>1, <1>2, <1>3, PTL
<1>8. []MultiInv /\ [][Multi!Next]_(Multi!vars) => Multi!TakeoverEarned
  <2>1. MultiInv /\ [Multi!Next]_(Multi!vars) =>
            [\A i \in Multi!Slots :
              (/\ slices[i].active /\ slices'[i].active /\ span' = span
               /\ ~Multi!SameSignal(slices[i].at, slices'[i].at)) =>
                  /\ seen[i] # Multi!None /\ Multi!SameSignal(seen[i], slices'[i].at)
                  /\ ~Multi!SameSignal(seen[i], slices[i].at)
                  /\ seen'[i] = slices'[i].at]_(Multi!vars)
    BY <1>5 DEF SliceTakeover
  <2> QED
    BY <2>1, PTL DEF Multi!TakeoverEarned
<1>9. []MultiInv /\ [][Multi!Next]_(Multi!vars) => Multi!CopyKept
  <2>1. MultiInv /\ [Multi!Next]_(Multi!vars) =>
            [\A i \in Multi!Slots :
              \/ slices'[i].text = slices[i].text
              \/ slices'[i].text = Append(slices[i].text, slices'[i].at)
              \/ span' # span /\ span # 0]_(Multi!vars)
    BY <1>5 DEF SliceCopy
  <2> QED
    BY <2>1, PTL DEF Multi!CopyKept
<1>10. []MultiInv => []Multi!TypeOK
  BY <1>4, PTL
<1> QED
  BY <1>6, <1>7, <1>8, <1>9, <1>10 DEF SlicesFollow, Multi!SlicesFollow

-----------------------------------------------------------------------------
(* The channel pool: numbers.                                              *)
\* The constants of the pool.
LEMMA PoolConstants ==
  /\ MAX_DECODE_CHANNELS \in Nat \ {0} /\ MAX_SIGNALS \in Nat \ {0}
  /\ NumBins \in Nat /\ 6 <= NumBins /\ {SearchRange, SearchMin, TIMEOUT} \subseteq Nat
  /\ NoiseBins \in Nat \ {0} /\ {DcGuard, LowGuard} \subseteq Nat
  /\ RateRatio \in Nat \ {0} /\ {MinSnr, WorstSnr, NoPeakSnr} \subseteq Nat
  /\ Buckets \subseteq Nat /\ Modes \subseteq Pool!EveryMode
  /\ Spectra \subseteq [Pool!Bins -> Nat]
  /\ RateRatio = 1 => 2 * Pool!Max({SearchMin, SearchRange}) + 1 < NumBins
  /\ Candidates = Pool!Candidates
<1>1. Pool!SearchAssumption /\ TIMEOUT \in Nat /\ Candidates = Pool!Candidates
  BY DecodersAssumption DEF Pool!PoolAssumption
<1>2. NumBins \in Nat /\ 6 <= NumBins
  <2>1. NumBins \in Nat \ 0 .. 5
    BY <1>1 DEF Pool!SearchAssumption
  <2> QED
    BY <2>1
<1> QED
  BY <1>1, <1>2 DEF Pool!SearchAssumption

\* The greater of two numbers.
LEMMA GreaterOf ==
  ASSUME NEW a \in Int, NEW b \in Int
  PROVE  Pool!Max({a, b}) = (IF a >= b THEN a ELSE b)
<1> DEFINE m == IF a >= b THEN a ELSE b
<1>1. m \in {a, b} /\ \A y \in {a, b} : m >= y
  OBVIOUS
<1>2. ASSUME NEW x \in {a, b}, \A y \in {a, b} : x >= y PROVE x = m
  BY <1>2
<1> HIDE DEF m
<1>3. (CHOOSE x \in {a, b} : \A y \in {a, b} : x >= y) = m
  BY <1>1, <1>2
<1> QED
  BY <1>3 DEF Pool!Max, m

\* The lesser of two numbers.
LEMMA LesserOf ==
  ASSUME NEW a \in Int, NEW b \in Int
  PROVE  Pool!Min({a, b}) = (IF a <= b THEN a ELSE b)
<1> DEFINE m == IF a <= b THEN a ELSE b
<1>1. m \in {a, b} /\ \A y \in {a, b} : m =< y
  OBVIOUS
<1>2. ASSUME NEW x \in {a, b}, \A y \in {a, b} : x =< y PROVE x = m
  BY <1>2
<1> HIDE DEF m
<1>3. (CHOOSE x \in {a, b} : \A y \in {a, b} : x =< y) = m
  BY <1>1, <1>2
<1> QED
  BY <1>3 DEF Pool!Min, m

\* A set of numbers has a least one.
LEMMA LeastOf ==
  ASSUME NEW T \in SUBSET Nat, T # {}
  PROVE  Pool!Min(T) \in T
<1>1. \E m \in T : \A n \in T : m =< n
  BY LeastNat
<1> QED
  BY <1>1 DEF Pool!Min

\* What holds at 0 and, with a number, at the next one holds up to n.
LEMMA UpTo ==
  ASSUME NEW n \in Nat, NEW S, 0 \in S,
         \A i \in 1 .. n : i - 1 \in S => i \in S
  PROVE  0 .. n \subseteq S
<1> SUFFICES ASSUME 0 .. n \ S # {} PROVE FALSE
  OBVIOUS
<1>1. PICK m \in 0 .. n \ S : \A i \in 0 .. n \ S : m <= i
  <2> DEFINE T == 0 .. n \ S
  <2>1. T \in SUBSET Nat /\ T # {}
    OBVIOUS
  <2> HIDE DEF T
  <2>2. \E m \in T : \A i \in T : m <= i
    BY <2>1, LeastNat
  <2> QED
    BY <2>2 DEF T
<1>2. m \in 1 .. n /\ m - 1 \in 0 .. n
  BY <1>1
<1> QED
  BY <1>1, <1>2

\* g begins with first and goes on with what G says.
Iterated(n, first, G, g) ==
    g[0] = first /\ \A k \in 1 .. n : g[k] = G[k][g[k - 1]]

\* A step that stays within S can be repeated.
LEMMA Iterates ==
  ASSUME NEW S, NEW n \in Nat, NEW first \in S, NEW G \in [1 .. n -> [S -> S]]
  PROVE  \E g \in [0 .. n -> S] : Iterated(n, first, G, g)
<1> DEFINE T == {m \in 0 .. n : \E g \in [0 .. m -> S] : Iterated(m, first, G, g)}
<1>1. 0 \in T
  <2> DEFINE g == [k \in 0 .. 0 |-> first]
  <2>1. g \in [0 .. 0 -> S] /\ Iterated(0, first, G, g) /\ 0 \in 0 .. n
    BY DEF Iterated
  <2> HIDE DEF g
  <2> QED
    BY <2>1
<1>2. \A m \in 1 .. n : m - 1 \in T => m \in T
  <2> SUFFICES ASSUME NEW m \in 1 .. n, NEW g \in [0 .. m - 1 -> S],
                      Iterated(m - 1, first, G, g)
               PROVE  \E h \in [0 .. m -> S] : Iterated(m, first, G, h)
    <3>1. \A m \in 1 .. n : m \in 0 .. n
      OBVIOUS
    <3> QED
      BY <3>1
  <2> DEFINE l == G[m][g[m - 1]]
             h == [k \in 0 .. m |-> IF k = m THEN l ELSE g[k]]
  <2>1. m \in Nat /\ m - 1 \in 0 .. m - 1 /\ \A k \in 0 .. m : k # m => k \in 0 .. m - 1
    OBVIOUS
  <2>2. l \in S
    <3>1. g[m - 1] \in S /\ G[m] \in [S -> S]
      BY <2>1
    <3> QED
      BY <3>1
  <2> HIDE DEF l
  <2>3. h \in [0 .. m -> S]
    BY <2>1, <2>2
  <2>4. h[0] = first
    <3>1. 0 \in 0 .. m /\ 0 # m /\ 0 \in 0 .. m - 1
      BY <2>1
    <3> QED
      BY <3>1 DEF Iterated
  <2>5. ASSUME NEW k \in 1 .. m PROVE h[k] = G[k][h[k - 1]]
    <3>1. k \in 0 .. m /\ k - 1 \in 0 .. m /\ k - 1 # m /\ (k # m => k \in 1 .. m - 1)
      BY <2>1
    <3>2. h[k - 1] = g[k - 1] /\ h[k] = IF k = m THEN l ELSE g[k]
      BY <3>1
    <3> HIDE DEF h
    <3>3. CASE k = m
      BY <3>2, <3>3 DEF l
    <3>4. CASE k # m
      BY <3>1, <3>2, <3>4 DEF Iterated
    <3> QED
      BY <3>3, <3>4
  <2> HIDE DEF h
  <2> QED
    BY <2>3, <2>4, <2>5 DEF Iterated
<1>3. n \in T
  <2> HIDE DEF T
  <2>1. 0 .. n \subseteq T
    BY <1>1, <1>2, UpTo
  <2> QED
    BY <2>1
<1> QED
  BY <1>3

\* Two that go on alike are alike.
LEMMA SameIterates ==
  ASSUME NEW n \in Nat, NEW f, NEW g, f[0] = g[0],
         \A k \in 1 .. n : f[k - 1] = g[k - 1] => f[k] = g[k]
  PROVE  f[n] = g[n]
<1> DEFINE T == {k \in 0 .. n : f[k] = g[k]}
<1>1. 0 \in T /\ \A k \in 1 .. n : k - 1 \in T => k \in T
  <2>1. \A k \in 1 .. n : k \in 0 .. n
    OBVIOUS
  <2> QED
    BY <2>1
<1>2. n \in T
  <2> HIDE DEF T
  <2>1. 0 .. n \subseteq T
    BY <1>1, UpTo
  <2> QED
    BY <2>1
<1> QED
  BY <1>2

-----------------------------------------------------------------------------
(* The channel pool: the search for peaks.                                 *)
IsPeak(s, single, real, floor, t) ==
    /\ t \notin Pool!Guarded(single, real)
    /\ Pool!LocalPeak(s, Pool!Width(single), t) /\ s[t] >= floor

WithPeak(s, single, real, floor, max, l, t) ==
    IF IsPeak(s, single, real, floor, t) /\ Len(l) < max THEN Append(l, t) ELSE l

\* u is what is found up to a bin.
Search(s, single, real, floor, max, u) ==
    /\ u[0] = << >>
    /\ \A t \in 1 .. NumBins - 1 : u[t] = WithPeak(s, single, real, floor, max, u[t - 1], t)

\* The search goes through the bins and adds the peaks among them.
LEMMA FindPeaksSearches ==
  ASSUME NEW s, NEW single, NEW real, NEW floor, NEW max
  PROVE  \E u \in [0 .. NumBins - 1 -> Seq(Pool!Bins)] :
             Search(s, single, real, floor, max, u) /\ Pool!FindPeaks(s, single, real, floor, max) = u[NumBins - 1]
<1> DEFINE n == NumBins - 1
           S == Seq(Pool!Bins)
           F(f, t) == IF t = 0 THEN << >>
                      ELSE IF (/\ t \notin Pool!Guarded(single, real)
                          /\ Pool!LocalPeak(s, Pool!Width(single), t) /\ s[t] >= floor)
                              /\ Len(f[t - 1]) < max THEN Append(f[t - 1], t)
                      ELSE f[t - 1]
           G == [t \in 1 .. n |-> [l \in S |-> WithPeak(s, single, real, floor, max, l, t)]]
           D(h) == h = [t \in 0 .. n |-> F(h, t)]
           K == CHOOSE h : D(h)
<1>1. n \in Nat /\ Pool!Bins = 0 .. n
  BY PoolConstants DEF Pool!Bins
<1>2. Pool!FindPeaks(s, single, real, floor, max) = K[n]
  BY DEF Pool!FindPeaks
<1>3. \A f : \A t \in 1 .. n : F(f, t) = WithPeak(s, single, real, floor, max, f[t - 1], t)
  BY <1>1 DEF WithPeak, IsPeak
<1>4. \A f : F(f, 0) = << >>
  OBVIOUS
<1> HIDE DEF n, F
<1>5. G \in [1 .. n -> [S -> S]]
  <2> SUFFICES ASSUME NEW t \in 1 .. n, NEW l \in S PROVE WithPeak(s, single, real, floor, max, l, t) \in S
    OBVIOUS
  <2>1. t \in Pool!Bins
    BY <1>1
  <2>2. Append(l, t) \in S
    BY <2>1, AppendProperties
  <2> HIDE DEF S
  <2> QED
    BY <2>2 DEF WithPeak
<1>6. << >> \in S
  OBVIOUS
<1>7. PICK g \in [0 .. n -> S] : Iterated(n, << >>, G, g)
  <2> HIDE DEF S, G
  <2> QED
    BY <1>1, <1>5, <1>6, Iterates
<1>8. g[0] = << >> /\ \A t \in 1 .. n : g[t] = WithPeak(s, single, real, floor, max, g[t - 1], t)
  <2>1. \A t \in 1 .. n : t - 1 \in 0 .. n /\ g[t - 1] \in S
    BY <1>1, <1>7
  <2> HIDE DEF S
  <2>2. \A t \in 1 .. n : G[t][g[t - 1]] = WithPeak(s, single, real, floor, max, g[t - 1], t)
    BY <2>1
  <2> HIDE DEF G
  <2> QED
    BY <1>7, <2>2 DEF Iterated
<1>9. g = [t \in 0 .. n |-> F(g, t)]
  <2>1. g = [t \in 0 .. n |-> g[t]]
    BY <1>7
  <2>2. \A t \in 0 .. n : t = 0 \/ t \in 1 .. n
    BY <1>1
  <2>3. \A t \in 0 .. n : g[t] = F(g, t)
    BY <1>3, <1>4, <1>8, <2>2
  <2> HIDE DEF S, G
  <2> QED
    BY <2>1, <2>3
<1>10. D(K)
  <2>1. D(g)
    BY <1>9
  <2> HIDE DEF D, S, G
  <2> QED
    BY <2>1
<1> HIDE DEF K, S, G
<1>11. \A t \in 0 .. n : K[t] = F(K, t)
  BY <1>10
<1>12. K[n] = g[n]
  <2>1. 0 \in 0 .. n /\ \A t \in 1 .. n : t \in 0 .. n
    BY <1>1
  <2>2. K[0] = g[0]
    BY <1>4, <1>8, <1>11, <2>1
  <2>3. \A t \in 1 .. n : K[t] = WithPeak(s, single, real, floor, max, K[t - 1], t)
    BY <1>3, <1>11, <2>1
  <2> HIDE DEF D
  <2>4. \A t \in 1 .. n : K[t - 1] = g[t - 1] => K[t] = g[t]
    BY <1>8, <2>3
  <2> QED
    BY <1>1, <2>2, <2>4, SameIterates
<1>13. Search(s, single, real, floor, max, g)
  BY <1>8 DEF Search, n
<1> QED
  BY <1>2, <1>7, <1>12, <1>13 DEF n, S

\* q lists the peaks of s: each once.
ListsPeaks(q, s) ==
    /\ q \in Seq(Pool!Bins)
    /\ \A i \in 1 .. Len(q) : q[i] \in Pool!Peaks(s)
    /\ \A p \in Pool!Peaks(s) : \E i \in 1 .. Len(q) : q[i] = p
    /\ \A i, j \in 1 .. Len(q) : q[i] = q[j] => i = j

\* What the search has found behind bin t when it found all.
FoundUpTo(q, s, t) ==
    /\ q \in Seq(Pool!Bins)
    /\ \A i \in 1 .. Len(q) : q[i] \in Pool!Peaks(s) /\ q[i] <= t
    /\ \A p \in Pool!Peaks(s) : p <= t => \E i \in 1 .. Len(q) : q[i] = p
    /\ \A i, j \in 1 .. Len(q) : q[i] = q[j] => i = j
    /\ Len(q) = Cardinality({p \in Pool!Peaks(s) : p <= t})

\* There are finitely many peaks, none of them at the edge.
LEMMA PeaksFinite ==
  ASSUME NEW s
  PROVE  /\ IsFiniteSet(Pool!Peaks(s)) /\ Cardinality(Pool!Peaks(s)) \in Nat
         /\ Pool!Peaks(s) \subseteq Pool!Bins /\ 0 \notin Pool!Peaks(s)
<1>1. IsFiniteSet(Pool!Bins)
  BY PoolConstants, FS_Interval DEF Pool!Bins
<1>2. Pool!Peaks(s) \subseteq Pool!Bins /\ 0 \notin Pool!Peaks(s)
  <2>1. \A p \in Pool!Peaks(s) : p \in Pool!Bins /\ p > 0
    BY Zenon DEF Pool!Peaks, Pool!LocalPeak
  <2> QED
    BY <2>1
<1>3. IsFiniteSet(Pool!Peaks(s))
  BY <1>1, <1>2, FS_Subset
<1> QED
  BY <1>2, <1>3, FS_CardinalityType

\* A search that has found all peaks up to a bin finds that of the next one too,
\* if there is room for it.
LEMMA FoundNext ==
  ASSUME NEW s, NEW max \in Nat, Cardinality(Pool!Peaks(s)) <= max,
         NEW t \in 1 .. NumBins - 1, NEW q, FoundUpTo(q, s, t - 1)
  PROVE  FoundUpTo(WithPeak(s, FALSE, FALSE, MinSnr, max, q, t), s, t)
<1> DEFINE P == Pool!Peaks(s)
           A == {p \in P : p <= t - 1}
           B == {p \in P : p <= t}
<1>1. NumBins \in Nat /\ Pool!Bins = 0 .. NumBins - 1 /\ t \in Pool!Bins /\ t \in Nat
  BY PoolConstants DEF Pool!Bins
<1>2. IsFiniteSet(P) /\ P \subseteq Pool!Bins /\ Cardinality(P) \in Nat
  BY PeaksFinite
<1>3. t \in P <=> IsPeak(s, FALSE, FALSE, MinSnr, t)
  BY <1>1 DEF IsPeak, Pool!Peaks, Pool!Width
<1>4. \A p \in P : p \in Nat /\ (p <= t <=> p <= t - 1 \/ p = t)
  BY <1>1, <1>2
<1>5. /\ q \in Seq(Pool!Bins) /\ Len(q) \in Nat /\ Len(q) = Cardinality(A)
      /\ \A i \in 1 .. Len(q) : q[i] \in P /\ q[i] <= t - 1
      /\ \A p \in P : p <= t - 1 => \E i \in 1 .. Len(q) : q[i] = p
      /\ \A i, j \in 1 .. Len(q) : q[i] = q[j] => i = j
  BY DEF FoundUpTo
<1> DEFINE r == WithPeak(s, FALSE, FALSE, MinSnr, max, q, t)
<1>6. CASE t \in P
  <2>1. B = A \cup {t} /\ t \notin A
    <3>1. ~(t <= t - 1) /\ t <= t
      BY <1>1
    <3> HIDE DEF P
    <3>2. t \notin A
      BY <3>1
    <3>3. \A p : p \in B <=> p \in A \cup {t}
      BY <1>4, <1>6, <3>1
    <3> QED
      BY <3>2, <3>3
  <2>2. IsFiniteSet(A) /\ A \subseteq P /\ B \subseteq P
    <3>1. A \subseteq P /\ B \subseteq P
      OBVIOUS
    <3> QED
      BY <1>2, <3>1, FS_Subset
  <2> HIDE DEF A, B
  <2>3. Cardinality(B) = Len(q) + 1
    BY <1>5, <2>1, <2>2, FS_AddElement
  <2>4. Cardinality(B) <= Cardinality(P)
    BY <1>2, <2>2, FS_Subset
  <2>5. Len(q) < max
    BY <1>2, <1>5, <2>3, <2>4 DEF P
  <2>6. r = Append(q, t)
    BY <1>3, <1>6, <2>5 DEF WithPeak, P
  <2> HIDE DEF r, P
  <2>7. /\ r \in Seq(Pool!Bins) /\ Len(r) = Len(q) + 1 /\ r[Len(q) + 1] = t
        /\ \A i \in 1 .. Len(q) : r[i] = q[i]
    BY <1>1, <1>5, <2>6, AppendProperties
  <2> DEFINE n == Len(q)
  <2>8. n \in Nat /\ Len(r) = n + 1 /\ r[n + 1] = t /\ \A i \in 1 .. n : r[i] = q[i]
    BY <1>5, <2>7
  <2>9. /\ \A i \in 1 .. n : q[i] \in P /\ q[i] <= t - 1
        /\ \A p \in P : p <= t - 1 => \E i \in 1 .. n : q[i] = p
        /\ \A i, j \in 1 .. n : q[i] = q[j] => i = j
    BY <1>5
  <2> HIDE DEF n
  <2>10. \A i \in 1 .. n + 1 : i \in 1 .. n \/ i = n + 1
    BY <2>8
  <2>11. \A i \in 1 .. n : i \in 1 .. n + 1 /\ q[i] # t /\ q[i] <= t
    BY <1>1, <1>4, <2>8, <2>9
  <2>12. \A i \in 1 .. n + 1 : r[i] \in P /\ r[i] <= t
    BY <1>1, <1>6, <2>8, <2>9, <2>10, <2>11
  <2>13. \A p \in P : p <= t => \E i \in 1 .. n + 1 : r[i] = p
    <3> SUFFICES ASSUME NEW p \in P, p <= t PROVE \E i \in 1 .. n + 1 : r[i] = p
      OBVIOUS
    <3>1. CASE p = t
      <4>1. n + 1 \in 1 .. n + 1
        BY <2>8
      <4> QED
        BY <2>8, <3>1, <4>1
    <3>2. CASE p <= t - 1
      BY <2>8, <2>9, <2>11, <3>2
    <3> QED
      BY <1>4, <3>1, <3>2
  <2>14. \A i, j \in 1 .. n + 1 : r[i] = r[j] => i = j
    BY <2>8, <2>9, <2>10, <2>11
  <2>15. Len(r) = Cardinality(B)
    BY <2>3, <2>8 DEF n
  <2> QED
    BY <2>7, <2>8, <2>12, <2>13, <2>14, <2>15 DEF FoundUpTo, P, B, r
<1>7. CASE t \notin P
  <2>1. r = q
    BY <1>3, <1>7 DEF WithPeak, P
  <2>2. B = A
    BY <1>4, <1>7
  <2>3. \A i \in 1 .. Len(q) : q[i] <= t
    BY <1>4, <1>5
  <2>4. \A p \in P : p <= t => p <= t - 1
    BY <1>4, <1>7
  <2> HIDE DEF r, A, B, P
  <2>5. /\ \A i \in 1 .. Len(q) : q[i] \in P /\ q[i] <= t
        /\ \A p \in P : p <= t => \E i \in 1 .. Len(q) : q[i] = p
        /\ Len(q) = Cardinality(B)
    BY <1>5, <2>2, <2>3, <2>4
  <2> QED
    BY <1>5, <2>1, <2>5 DEF FoundUpTo, P, B, r
<1> QED
  BY <1>6, <1>7

\* With no more peaks than the search returns, it finds each once.
LEMMA AllPeaks ==
  ASSUME NEW s, NEW max \in Nat, Cardinality(Pool!Peaks(s)) <= max
  PROVE  /\ ListsPeaks(Pool!FindPeaks(s, FALSE, FALSE, MinSnr, max), s)
         /\ Len(Pool!FindPeaks(s, FALSE, FALSE, MinSnr, max)) = Cardinality(Pool!Peaks(s))
<1> DEFINE n == NumBins - 1
           P == Pool!Peaks(s)
<1>1. n \in Nat /\ Pool!Bins = 0 .. n
  BY PoolConstants DEF Pool!Bins
<1>2. PICK u \in [0 .. n -> Seq(Pool!Bins)] :
          Search(s, FALSE, FALSE, MinSnr, max, u) /\ Pool!FindPeaks(s, FALSE, FALSE, MinSnr, max) = u[n]
  BY FindPeaksSearches
<1>3. P \subseteq 0 .. n /\ 0 \notin P
  BY <1>1, PeaksFinite
<1> DEFINE T == {t \in 0 .. n : FoundUpTo(u[t], s, t)}
<1>4. 0 \in T
  <2>1. \A p \in P : ~(p <= 0)
    BY <1>1, <1>3
  <2>2. {p \in P : p <= 0} = {}
    BY <2>1
  <2>3. u[0] = << >>
    BY <1>2 DEF Search
  <2>4. Cardinality({}) = 0
    BY FS_EmptySet
  <2>5. << >> \in Seq(Pool!Bins) /\ Len(<< >>) = 0
    OBVIOUS
  <2>6. FoundUpTo(<< >>, s, 0)
    <3> DEFINE e == << >>
    <3>1. e \in Seq(Pool!Bins) /\ Len(e) = 0 /\ Len(e) = Cardinality({p \in P : p <= 0})
      BY <2>2, <2>4, <2>5
    <3>2. \A i \in 1 .. Len(e) : FALSE
      BY <3>1
    <3> HIDE DEF e
    <3>3. FoundUpTo(e, s, 0)
      BY <2>1, <3>1, <3>2 DEF FoundUpTo
    <3> QED
      BY <3>3 DEF e
  <2> QED
    BY <1>1, <2>3, <2>6
<1>5. \A t \in 1 .. n : t - 1 \in T => t \in T
  <2> SUFFICES ASSUME NEW t \in 1 .. n, FoundUpTo(u[t - 1], s, t - 1)
               PROVE  FoundUpTo(u[t], s, t)
    <3>1. \A t \in 1 .. n : t \in 0 .. n
      BY <1>1
    <3> QED
      BY <3>1
  <2>1. u[t] = WithPeak(s, FALSE, FALSE, MinSnr, max, u[t - 1], t)
    BY <1>2 DEF Search
  <2> QED
    BY <2>1, FoundNext
<1>6. n \in T
  <2> HIDE DEF T, n
  <2>1. 0 .. n \subseteq T
    BY <1>1, <1>4, <1>5, UpTo
  <2> QED
    BY <1>1, <2>1
<1>7. FoundUpTo(u[n], s, n)
  BY <1>6
<1>8. \A p \in P : p <= n
  BY <1>1, <1>3
<1>9. {p \in P : p <= n} = P
  BY <1>8
<1> HIDE DEF n
<1> QED
  BY <1>2, <1>7, <1>8, <1>9 DEF FoundUpTo, ListsPeaks

-----------------------------------------------------------------------------
(* The channel pool: the refinement of a tone.                             *)
Radius == Pool!Max({SearchMin, SearchRange})

\* The bins a tone is refined in to each side.
LEMMA RadiusIs ==
  /\ Radius \in Nat /\ SearchMin <= Radius /\ SearchRange <= Radius
  /\ Radius = SearchMin \/ Radius = SearchRange
  /\ RateRatio = 1 => 2 * Radius + 1 < NumBins
<1>1. /\ SearchMin \in Nat /\ SearchRange \in Nat
      /\ RateRatio = 1 => 2 * Radius + 1 < NumBins
  BY PoolConstants DEF Radius
<1>2. Radius = IF SearchMin >= SearchRange THEN SearchMin ELSE SearchRange
  BY <1>1, GreaterOf DEF Radius
<1> QED
  BY <1>1, <1>2

\* The pool counts with the definition the library has theorems about.
LEMMA PoolCounts == \A S : Pool!Cardinality(S) = Cardinality(S)
BY DEF Pool!Cardinality, Cardinality

\* DC has a bin, and a spectrum has bins enough.
LEMMA DcIs ==
  /\ Pool!Dc \in Nat /\ Pool!Dc = NumBins \div 2
  /\ \A single : Pool!Width(single) \in 3 .. NumBins
BY PoolConstants DEF Pool!Dc, Pool!Width

\* A quotient that is rounded is a number, and a whole one is kept.
LEMMA RoundedIs ==
  ASSUME NEW d \in Int
  PROVE  /\ \A r \in Nat \ {0} : Pool!Rounded(d, r) \in Int
         /\ Pool!Rounded(d, 1) = d
<1>1. ASSUME NEW r \in Nat \ {0} PROVE Pool!Rounded(d, r) \in Int
  <2>1. r \div 2 \in Int
    OBVIOUS
  <2> DEFINE h == r \div 2
  <2> HIDE DEF h
  <2>2. h \in Int
    BY <2>1 DEF h
  <2>3. (h - d) \div r \in Int /\ (d + h) \div r \in Int
    BY <2>2
  <2> QED
    BY <2>3 DEF Pool!Rounded, h
<1>2. 1 \div 2 = 0 /\ (0 - d) \div 1 = -d /\ (d + 0) \div 1 = d
  OBVIOUS
<1> QED
  BY <1>1, <1>2 DEF Pool!Rounded

\* The power of a bin, also of one beyond the edge.
Power(s, n, b) == IF b \in 0 .. n - 1 THEN s[b] ELSE 0

\* The bins that are averaged.
Outside(n, lo, hi) ==
    {b \in 0 .. n - 1 : \/ b \in lo - NoiseBins .. lo - 1
                        \/ b \in hi + 1 .. hi + NoiseBins}

\* The mean of the bins that are averaged, whose sum is x.
MeanOf(s, n, lo, hi, x) ==
    IF Outside(n, lo, hi) = {} THEN s[Pool!Max({n \div 2 - 1, 0})]
    ELSE x \div Cardinality(Outside(n, lo, hi))

\* Their powers, and all sums of powers, are in S.
SumsIn(S, s, n, lo, hi) ==
    /\ 0 \in S /\ \A x, y \in S : x + y \in S
    /\ \A k \in 1 .. NoiseBins : Power(s, n, lo - k) \in S /\ Power(s, n, hi + k) \in S

\* The noise is the mean of such a sum.
LEMMA NoiseSums ==
  ASSUME NEW S, NEW s, NEW n, NEW lo, NEW hi, SumsIn(S, s, n, lo, hi)
  PROVE  \E x \in S : Pool!Noise(s, n, lo, hi) = MeanOf(s, n, lo, hi, x)
<1> USE DEF SumsIn
<1> DEFINE N == NoiseBins
           Both(k) == Power(s, n, lo - k) + Power(s, n, hi + k)
           F(f, k) == IF k = 0 THEN 0
                      ELSE f[k - 1] + ((IF lo - k \in 0 .. n - 1 THEN s[lo - k] ELSE 0)
                                       + (IF hi + k \in 0 .. n - 1 THEN s[hi + k] ELSE 0))
           G == [k \in 1 .. N |-> [x \in S |-> x + Both(k)]]
           D(h) == h = [k \in 0 .. N |-> F(h, k)]
           K == CHOOSE h : D(h)
<1>1. N \in Nat
  BY PoolConstants
<1>2. Pool!Noise(s, n, lo, hi) =
        MeanOf(s, n, lo, hi, K[N])
  BY PoolCounts DEF Pool!Noise, Outside, MeanOf
<1>3. \A f : \A k \in 1 .. N : F(f, k) = f[k - 1] + Both(k)
  BY <1>1 DEF Power
<1>4. \A f : F(f, 0) = 0
  OBVIOUS
<1>5. \A k \in 1 .. N : Both(k) \in S
  OBVIOUS
<1> HIDE DEF N, F, Both
<1>6. G \in [1 .. N -> [S -> S]]
  BY <1>5
<1>7. PICK g \in [0 .. N -> S] : Iterated(N, 0, G, g)
  <2> HIDE DEF G
  <2> QED
    BY <1>1, <1>6, Iterates
<1>8. g[0] = 0 /\ \A k \in 1 .. N : g[k] = g[k - 1] + Both(k)
  <2>1. \A k \in 1 .. N : k - 1 \in 0 .. N /\ g[k - 1] \in S
    BY <1>1, <1>7
  <2>2. \A k \in 1 .. N : G[k][g[k - 1]] = g[k - 1] + Both(k)
    BY <2>1
  <2> HIDE DEF G
  <2> QED
    BY <1>7, <2>2 DEF Iterated
<1>9. g = [k \in 0 .. N |-> F(g, k)]
  <2>1. g = [k \in 0 .. N |-> g[k]]
    BY <1>7
  <2>2. \A k \in 0 .. N : k = 0 \/ k \in 1 .. N
    BY <1>1
  <2>3. \A k \in 0 .. N : g[k] = F(g, k)
    BY <1>3, <1>4, <1>8, <2>2
  <2> HIDE DEF G
  <2> QED
    BY <2>1, <2>3
<1>10. D(K)
  <2>1. D(g)
    BY <1>9
  <2> HIDE DEF D, G
  <2> QED
    BY <2>1
<1> HIDE DEF K, G
<1>11. \A k \in 0 .. N : K[k] = F(K, k)
  BY <1>10
<1>12. K[N] = g[N]
  <2>1. 0 \in 0 .. N /\ \A k \in 1 .. N : k \in 0 .. N
    BY <1>1
  <2>2. K[0] = g[0]
    BY <1>4, <1>8, <1>11, <2>1
  <2>3. \A k \in 1 .. N : K[k] = K[k - 1] + Both(k)
    BY <1>3, <1>11, <2>1
  <2> HIDE DEF D
  <2>4. \A k \in 1 .. N : K[k - 1] = g[k - 1] => K[k] = g[k]
    BY <1>8, <2>3
  <2> QED
    BY <1>1, <2>2, <2>4, SameIterates
<1>13. g[N] \in S
  <2>1. N \in 0 .. N
    BY <1>1
  <2> QED
    BY <1>7, <2>1
<1> QED
  BY <1>2, <1>12, <1>13

\* The bins that are averaged can be counted.
LEMMA OutsideCounted ==
  ASSUME NEW n \in Nat, NEW lo, NEW hi, Outside(n, lo, hi) # {}
  PROVE  Cardinality(Outside(n, lo, hi)) \in Nat \ {0}
<1>1. IsFiniteSet(0 .. n - 1) /\ Outside(n, lo, hi) \subseteq 0 .. n - 1
  BY FS_Interval DEF Outside
<1>2. IsFiniteSet(Outside(n, lo, hi))
  BY <1>1, FS_Subset
<1> QED
  BY <1>2, FS_CardinalityType, FS_EmptySet

\* The noise is a power.
LEMMA NoiseTyped ==
  ASSUME NEW s \in [Pool!Bins -> Nat], NEW n \in 3 .. NumBins, NEW lo \in Int, NEW hi \in Int
  PROVE  Pool!Noise(s, n, lo, hi) \in Nat
<1>1. NumBins \in Nat /\ Pool!Bins = 0 .. NumBins - 1 /\ n \in Nat
  BY PoolConstants DEF Pool!Bins
<1>2. \A b : Power(s, n, b) \in Nat
  BY <1>1 DEF Power
<1>3. \A x, y \in Nat : x + y \in Nat
  OBVIOUS
<1>4. PICK x \in Nat : Pool!Noise(s, n, lo, hi) = MeanOf(s, n, lo, hi, x)
  <2>1. SumsIn(Nat, s, n, lo, hi)
    BY <1>2, <1>3 DEF SumsIn
  <2> QED
    BY <2>1, NoiseSums
<1>5. s[Pool!Max({n \div 2 - 1, 0})] \in Nat
  <2>1. n \div 2 - 1 \in Int /\ n \div 2 - 1 <= NumBins - 1 /\ n \div 2 - 1 >= 0
    BY <1>1
  <2> DEFINE h == n \div 2 - 1
  <2> HIDE DEF h
  <2>2. h \in Int /\ h <= NumBins - 1 /\ h >= 0
    BY <2>1 DEF h
  <2>3. Pool!Max({h, 0}) = h
    BY <2>2, GreaterOf
  <2>4. h \in Pool!Bins
    BY <1>1, <2>2
  <2> QED
    BY <2>3, <2>4 DEF h
<1>6. ASSUME Outside(n, lo, hi) # {} PROVE x \div Cardinality(Outside(n, lo, hi)) \in Nat
  <2> DEFINE c == Cardinality(Outside(n, lo, hi))
  <2>1. c \in Nat \ {0}
    BY <1>1, <1>6, OutsideCounted
  <2> HIDE DEF c
  <2>2. x \div c \in Nat
    BY <2>1
  <2> QED
    BY <2>2 DEF c
<1> QED
  BY <1>4, <1>5, <1>6 DEF MeanOf

\* What Refine looks at: the peaks in range of a bin.
InRange(s, n, bin, range) ==
    {b \in Pool!Bins : Pool!Distance(b, bin) <= range /\ Pool!LocalPeak(s, n, b)}

Strongest(s, P) ==
    CHOOSE b \in P : \A o \in P \ {b} : s[b] > s[o] \/ (s[b] = s[o] /\ b < o)

\* There is a strongest peak in range, and the refinement takes it.
LEMMA StrongestIs ==
  ASSUME NEW s \in [Pool!Bins -> Nat], NEW P \in SUBSET Pool!Bins, P # {}
  PROVE  Strongest(s, P) \in P
<1> DEFINE n == NumBins - 1
<1>1. n \in Nat /\ Pool!Bins = 0 .. n
  BY PoolConstants DEF Pool!Bins
<1>2. \A b \in P : s[b] \in Nat /\ b \in Nat
  BY <1>1
<1>3. PICK b \in P : \A c \in P : s[c] < s[b] \/ (s[c] = s[b] /\ b <= c)
  <2> HIDE DEF n
  <2>1. P \in SUBSET (0 .. n)
    BY <1>1
  <2> QED
    BY <1>1, <1>2, <2>1, LoudestExists
<1>4. \A o \in P \ {b} : s[b] > s[o] \/ (s[b] = s[o] /\ b < o)
  BY <1>2, <1>3
<1> QED
  BY <1>4 DEF Strongest

\* A refined tone is a tone with a strength, whatever was refined.
LEMMA RefineTyped ==
  ASSUME NEW s \in [Pool!Bins -> Nat], NEW single, NEW t \in Int, NEW ratio \in Nat \ {0}
  PROVE  Pool!Refine(s, single, t, ratio) \in Pool!Candidate
<1> DEFINE n     == Pool!Width(single)
           mid   == n \div 2
           r     == IF single THEN 2 * ratio ELSE ratio
           bin   == mid + Pool!Rounded(t - Pool!Dc, r)
           range == Pool!Max({SearchMin, Pool!Rounded(SearchRange, r)})
           P     == InRange(s, n, bin, range)
           best  == Strongest(s, P)
           noise == Pool!Noise(s, n, bin - range, bin + range)
           over  == s[best] - noise
<1>1. /\ WorstSnr \in Nat /\ NoPeakSnr \in Nat /\ SearchMin \in Nat /\ SearchRange \in Nat
      /\ Pool!Dc \in Nat /\ Pool!Bins \subseteq Nat /\ n \in 3 .. NumBins /\ NumBins \in Nat
  BY PoolConstants, DcIs DEF Pool!Bins
<1>2. r \in Nat \ {0} /\ mid \in Int
  BY <1>1
<1>3. Pool!Refine(s, single, t, ratio) =
        IF P = {} THEN [tone |-> t, snr |-> NoPeakSnr]
        ELSE [tone |-> Pool!Dc + (best - mid) * r, snr |-> Pool!Max({WorstSnr, over})]
  BY DEF Pool!Refine, InRange, Strongest
<1> HIDE DEF r, mid, n
<1>4. bin \in Int /\ range \in Nat
  <2>1. Pool!Rounded(t - Pool!Dc, r) \in Int /\ Pool!Rounded(SearchRange, r) \in Int
    <3>1. t - Pool!Dc \in Int /\ SearchRange \in Int
      BY <1>1
    <3> QED
      BY <1>2, <3>1, RoundedIs
  <2> DEFINE q == Pool!Rounded(SearchRange, r)
  <2> HIDE DEF q
  <2>2. q \in Int
    BY <2>1 DEF q
  <2>3. Pool!Max({SearchMin, q}) = IF SearchMin >= q THEN SearchMin ELSE q
    BY <1>1, <2>2, GreaterOf
  <2> QED
    BY <1>1, <1>2, <2>1, <2>2, <2>3 DEF q
<1>5. noise \in Nat
  <2> HIDE DEF bin, range
  <2>1. bin - range \in Int /\ bin + range \in Int
    BY <1>4
  <2> QED
    BY <1>1, <2>1, NoiseTyped
<1>6. P \in SUBSET Pool!Bins
  BY DEF InRange
<1> HIDE DEF P, noise
<1>7. CASE P = {}
  BY <1>1, <1>3, <1>7 DEF Pool!Candidate
<1>8. CASE P # {}
  <2>1. best \in Pool!Bins
    BY <1>6, <1>8, StrongestIs
  <2> HIDE DEF best
  <2>2. s[best] \in Nat /\ best \in Nat
    BY <1>1, <2>1
  <2>3. over \in Int
    BY <1>5, <2>2
  <2> HIDE DEF over
  <2>4. Pool!Max({WorstSnr, over}) \in Nat
    BY <1>1, <2>3, GreaterOf
  <2>5. Pool!Dc + (best - mid) * r \in Int
    <3> DEFINE d == best - mid
    <3>1. d \in Int
      BY <1>2, <2>2
    <3> HIDE DEF d
    <3>2. d * r \in Int
      BY <1>2, <3>1
    <3> QED
      BY <1>1, <3>2 DEF d
  <2> QED
    BY <1>3, <1>8, <2>4, <2>5 DEF Pool!Candidate
<1> QED
  BY <1>7, <1>8

\* On a sparse band what is within the range of a peak, or among the bins that
\* are averaged, is silent.
LEMMA Apart ==
  ASSUME NEW s \in Spectra, Pool!Sparse(s), NEW p \in Pool!Peaks(s)
  PROVE  /\ p \in Pool!Bins /\ p \in Nat /\ s[p] \in Nat \ {0} /\ s[p] >= MinSnr
         /\ Pool!LocalPeak(s, NumBins, p)
         /\ \A q \in Pool!Bins :
                q # p /\ Pool!Distance(q, p) <= Radius + NoiseBins => s[q] = 0
<1>1. s \in [Pool!Bins -> Nat] /\ Pool!Bins = 0 .. NumBins - 1 /\ NumBins \in Nat
  BY PoolConstants DEF Pool!Bins
<1>2. p \in Pool!Bins /\ Pool!LocalPeak(s, NumBins, p) /\ s[p] >= MinSnr /\ p \in Nat
  BY <1>1 DEF Pool!Peaks
<1>3. s[p] > s[p - 1] /\ p - 1 \in Pool!Bins
  BY <1>1, <1>2 DEF Pool!LocalPeak
<1>4. s[p] \in Nat /\ s[p - 1] \in Nat
  BY <1>1, <1>2, <1>3
<1>5. s[p] > 0
  BY <1>3, <1>4
<1>6. ASSUME NEW q \in Pool!Bins, q # p, Pool!Distance(q, p) <= Radius + NoiseBins, s[q] # 0
      PROVE  FALSE
  <2>1. s[q] > 0
    <3>1. s[q] \in Nat
      BY <1>1
    <3> QED
      BY <1>6, <3>1
  <2>2. \A w \in Buckets \cup {SearchRange + NoiseBins, SearchMin + NoiseBins} :
            Pool!Distance(q, p) > w
    BY <1>2, <1>5, <1>6, <2>1 DEF Pool!Sparse
  <2>3. /\ Pool!Distance(q, p) > SearchRange + NoiseBins
        /\ Pool!Distance(q, p) > SearchMin + NoiseBins
    BY <2>2
  <2>4. Pool!Distance(q, p) \in Int
    BY <1>1, <1>2 DEF Pool!Distance
  <2>5. SearchRange \in Nat /\ SearchMin \in Nat /\ NoiseBins \in Nat
    BY PoolConstants
  <2> QED
    BY <1>6, <2>3, <2>4, <2>5, RadiusIs
<1> QED
  BY <1>2, <1>4, <1>5, <1>6

\* On a sparse band there is no noise around a peak.
LEMMA SilentEdge ==
  ASSUME RateRatio = 1, NEW s \in Spectra, Pool!Sparse(s), NEW p \in Pool!Peaks(s)
  PROVE  Pool!Noise(s, NumBins, p - Radius, p + Radius) = 0
<1> DEFINE a == p - Radius
           b == p + Radius
           O == Outside(NumBins, a, b)
<1>1. /\ s \in [Pool!Bins -> Nat] /\ Pool!Bins = 0 .. NumBins - 1 /\ NumBins \in Nat
      /\ NoiseBins \in Nat \ {0}
  BY PoolConstants DEF Pool!Bins
<1>2. p \in Pool!Bins /\ p \in Nat
  BY Apart
<1>3. Radius \in Nat /\ 2 * Radius + 1 < NumBins
  BY RadiusIs
<1>4. O # {}
  <2>1. a - 1 \in O \/ b + 1 \in O
    <3> DEFINE n == NumBins
               r == Radius
    <3>1. n \in Nat /\ r \in Nat /\ p \in 0 .. n - 1 /\ 2 * r + 1 < n
      BY <1>1, <1>2, <1>3
    <3> HIDE DEF n, r
    <3>2. p - r - 1 \in 0 .. n - 1 \/ p + r + 1 \in 0 .. n - 1
      BY <3>1
    <3>3. p - r - 1 \in p - r - NoiseBins .. p - r - 1 /\ p + r + 1 \in p + r + 1 .. p + r + NoiseBins
      BY <1>1, <3>1
    <3> QED
      BY <3>2, <3>3 DEF n, r, Outside
  <2> QED
    BY <2>1
<1>5. ASSUME NEW k \in 1 .. NoiseBins
      PROVE  Power(s, NumBins, a - k) \in {0} /\ Power(s, NumBins, b + k) \in {0}
  <2>1. ASSUME NEW q \in Pool!Bins, q = a - k \/ q = b + k PROVE s[q] = 0
    <3>1. q # p /\ Pool!Distance(q, p) <= Radius + NoiseBins
      BY <1>1, <1>2, <1>3, <2>1 DEF Pool!Distance
    <3> QED
      BY <3>1, Apart
  <2> HIDE DEF a, b
  <2> QED
    BY <1>1, <2>1 DEF Power
<1>6. PICK x \in {0} : Pool!Noise(s, NumBins, a, b) = MeanOf(s, NumBins, a, b, x)
  <2>1. SumsIn({0}, s, NumBins, a, b)
    <3>1. 0 \in {0} /\ \A x, y \in {0} : x + y \in {0}
      OBVIOUS
    <3> HIDE DEF a, b
    <3> QED
      BY <1>5, <3>1 DEF SumsIn
  <2> HIDE DEF a, b
  <2> QED
    BY <2>1, NoiseSums
<1>7. Cardinality(O) \in Nat \ {0}
  <2> HIDE DEF a, b
  <2> QED
    BY <1>1, <1>4, OutsideCounted
<1>8. 0 \div Cardinality(O) = 0
  <2> DEFINE c == Cardinality(O)
  <2>1. c \in Nat \ {0}
    BY <1>7
  <2> HIDE DEF c
  <2>2. 0 \div c = 0
    BY <2>1
  <2> QED
    BY <2>2 DEF c
<1>9. MeanOf(s, NumBins, a, b, x) = x \div Cardinality(O)
  BY <1>4 DEF MeanOf
<1> HIDE DEF O
<1> QED
  BY <1>6, <1>8, <1>9

\* A peak of a sparse band is refined to itself, and is strong enough.
LEMMA RefineOwn ==
  ASSUME RateRatio = 1, NEW s \in Spectra, Pool!Sparse(s), NEW p \in Pool!Peaks(s)
  PROVE  /\ Pool!Refine(s, FALSE, p, 1).tone = p
         /\ Pool!Refine(s, FALSE, p, 1).snr >= MinSnr
<1> DEFINE bin   == Pool!Dc + Pool!Rounded(p - Pool!Dc, 1)
           range == Pool!Max({SearchMin, Pool!Rounded(SearchRange, 1)})
<1>1. s \in [Pool!Bins -> Nat] /\ WorstSnr \in Nat /\ MinSnr \in Nat /\ SearchRange \in Nat
  BY PoolConstants
<1>2. /\ p \in Pool!Bins /\ p \in Nat /\ s[p] \in Nat /\ s[p] >= MinSnr
      /\ Pool!LocalPeak(s, NumBins, p)
  BY Apart
<1>3. bin = p
  <2>1. Pool!Dc \in Nat /\ p - Pool!Dc \in Int
    BY <1>2, DcIs
  <2>2. Pool!Rounded(p - Pool!Dc, 1) = p - Pool!Dc
    BY <2>1, RoundedIs
  <2> QED
    BY <1>2, <2>1, <2>2
<1>4. range = Radius
  <2>1. Pool!Rounded(SearchRange, 1) = SearchRange
    BY <1>1, RoundedIs
  <2> QED
    BY <2>1 DEF Radius
<1> DEFINE P    == InRange(s, NumBins, p, Radius)
           best == Strongest(s, P)
           over == s[best] - Pool!Noise(s, NumBins, p - Radius, p + Radius)
<1>5. Pool!Refine(s, FALSE, p, 1) =
        IF P = {} THEN [tone |-> p, snr |-> NoPeakSnr]
        ELSE [tone |-> Pool!Dc + (best - Pool!Dc) * 1, snr |-> Pool!Max({WorstSnr, over})]
  <2> DEFINE n    == Pool!Width(FALSE)
             mid  == n \div 2
             bin2 == mid + Pool!Rounded(p - Pool!Dc, 1)
             best2 == Strongest(s, InRange(s, n, bin2, range))
  <2>1. Pool!Refine(s, FALSE, p, 1) =
          IF InRange(s, n, bin2, range) = {} THEN [tone |-> p, snr |-> NoPeakSnr]
          ELSE [tone |-> Pool!Dc + (best2 - mid) * 1,
                snr |-> Pool!Max({WorstSnr, s[best2]
                                            - Pool!Noise(s, n, bin2 - range, bin2 + range)})]
    BY DEF Pool!Refine, InRange, Strongest
  <2>2. n = NumBins /\ mid = Pool!Dc
    BY DEF Pool!Width, Pool!Dc
  <2>3. bin2 = p
    BY <1>3, <2>2
  <2> HIDE DEF bin2, range, mid, n
  <2> QED
    BY <1>4, <2>1, <2>2, <2>3
<1>6. P = {p}
  <2>1. p \in P
    <3>1. Pool!Distance(p, p) <= Radius
      BY <1>2, RadiusIs DEF Pool!Distance
    <3> QED
      BY <1>2, <3>1 DEF InRange
  <2>2. ASSUME NEW q \in P, q # p PROVE FALSE
    <3>1. q \in Pool!Bins /\ Pool!Distance(q, p) <= Radius /\ Pool!LocalPeak(s, NumBins, q)
      BY DEF InRange
    <3>2. Pool!Distance(q, p) \in Int /\ q \in Nat /\ NoiseBins \in Nat
      BY <1>2, <3>1, PoolConstants DEF Pool!Distance, Pool!Bins
    <3>3. s[q] = 0
      BY <2>2, <3>1, <3>2, Apart, RadiusIs
    <3>4. q - 1 \in Pool!Bins /\ s[q] > s[q - 1]
      BY <3>1, <3>2, PoolConstants DEF Pool!LocalPeak, Pool!Bins
    <3>5. s[q - 1] \in Nat
      BY <1>1, <3>4
    <3> QED
      BY <3>3, <3>4, <3>5
  <2> QED
    BY <2>1, <2>2
<1>7. best = p
  <2>1. Strongest(s, {p}) \in {p}
    BY <1>1, <1>2, StrongestIs
  <2> HIDE DEF P
  <2> QED
    BY <1>6, <2>1
<1>8. over = s[p]
  <2>1. Pool!Noise(s, NumBins, p - Radius, p + Radius) = 0
    BY SilentEdge
  <2> HIDE DEF best
  <2> QED
    BY <1>2, <1>7, <2>1
<1>9. Pool!Max({WorstSnr, s[p]}) >= MinSnr
  <2> DEFINE l == s[p]
  <2>1. l \in Nat /\ l >= MinSnr
    BY <1>2
  <2> HIDE DEF l
  <2>2. Pool!Max({WorstSnr, l}) = IF WorstSnr >= l THEN WorstSnr ELSE l
    BY <1>1, <2>1, GreaterOf
  <2>3. Pool!Max({WorstSnr, l}) >= MinSnr
    BY <1>1, <2>1, <2>2
  <2> QED
    BY <2>3 DEF l
<1> HIDE DEF best, over, P
<1>10. Pool!Dc + (p - Pool!Dc) * 1 = p
  BY <1>2, DcIs
<1> DEFINE found == Pool!Refine(s, FALSE, p, 1)
<1>11. found = [tone |-> p, snr |-> Pool!Max({WorstSnr, s[p]})]
  <2>1. P # {}
    BY <1>6
  <2> QED
    BY <1>5, <1>7, <1>8, <1>10, <2>1
<1> HIDE DEF found
<1>12. found.tone = p /\ found.snr >= MinSnr
  BY <1>9, <1>11
<1> QED
  BY <1>12 DEF found

-----------------------------------------------------------------------------
(* The channel pool: candidates.                                           *)
Cands == Seq(Pool!Candidate)

\* ListsPeaks of candidates of one length, whose strength only may differ.
SameTones(l, r) ==
    /\ l \in Cands /\ r \in Cands /\ Len(l) = Len(r)
    /\ \A i \in 1 .. Len(r) : l[i].tone = r[i].tone

\* A candidate becomes no weaker than snr.
LEMMA Strengthened ==
  ASSUME NEW l \in Cands, NEW i \in 1 .. Len(l), NEW snr \in Nat
  PROVE  SameTones([l EXCEPT ![i].snr = Pool!Max({@, snr})], l)
<1> DEFINE m == Pool!Max({l[i].snr, snr})
           c == [l[i] EXCEPT !.snr = m]
           r == [l EXCEPT ![i] = c]
<1>1. l[i] \in Pool!Candidate
  BY ElementOfSeq DEF Cands
<1>2. m \in Nat
  <2>1. l[i].snr \in Nat
    BY <1>1 DEF Pool!Candidate
  <2> DEFINE a == l[i].snr
  <2> HIDE DEF a
  <2>2. a \in Nat
    BY <2>1 DEF a
  <2>3. Pool!Max({a, snr}) \in Nat
    BY <2>2, GreaterOf
  <2> QED
    BY <2>3 DEF a
<1>3. [l EXCEPT ![i].snr = Pool!Max({@, snr})] = r
  OBVIOUS
<1> HIDE DEF m
<1>4. c \in Pool!Candidate /\ c.tone = l[i].tone
  BY <1>1, <1>2 DEF Pool!Candidate
<1> HIDE DEF c
<1>5. r \in Cands /\ Len(r) = Len(l) /\ \A j \in 1 .. Len(l) : r[j] = IF j = i THEN c ELSE l[j]
  BY <1>4, ExceptSeq DEF Cands
<1> HIDE DEF r
<1> QED
  BY <1>3, <1>4, <1>5 DEF SameTones

\* A candidate behind the others.
LEMMA Appended ==
  ASSUME NEW l \in Cands, NEW r \in Pool!Candidate
  PROVE  /\ Append(l, r) \in Cands /\ Len(Append(l, r)) = Len(l) + 1
         /\ \A i \in 1 .. Len(l) : Append(l, r)[i] = l[i]
         /\ Append(l, r)[Len(l) + 1] = r
BY AppendProperties DEF Cands

\* A signal is added at the end, or strengthens one that is listed.
LEMMA AddSignalTyped ==
  ASSUME NEW l \in Cands, NEW r \in Pool!Candidate
  PROVE  /\ Pool!AddSignal(l, r) \in Cands
         /\ (\A k \in 1 .. Len(l) : l[k].tone # r.tone) => Pool!AddSignal(l, r) = Append(l, r)
<1> DEFINE same == {k \in 1 .. Len(l) : l[k].tone = r.tone}
<1>1. Pool!AddSignal(l, r) =
        IF same = {} THEN Append(l, r)
        ELSE [l EXCEPT ![Pool!Min(same)].snr = Pool!Max({@, r.snr})]
  <2>1. DOMAIN l = 1 .. Len(l)
    BY DEF Cands
  <2> QED
    BY <2>1 DEF Pool!AddSignal
<1>2. r.snr \in Nat
  BY DEF Pool!Candidate
<1>3. CASE same = {}
  BY <1>1, <1>3, Appended
<1>4. CASE same # {}
  <2>1. same \in SUBSET Nat
    OBVIOUS
  <2>2. Pool!Min(same) \in same
    <3> HIDE DEF same
    <3> QED
      BY <1>4, <2>1, LeastOf
  <2>3. Pool!Min(same) \in 1 .. Len(l) /\ ~(\A k \in 1 .. Len(l) : l[k].tone # r.tone)
    BY <2>2
  <2> HIDE DEF same
  <2> DEFINE i == Pool!Min(same)
  <2>4. SameTones([l EXCEPT ![i].snr = Pool!Max({@, r.snr})], l)
    <3> HIDE DEF i
    <3> QED
      BY <1>2, <2>3, Strengthened DEF i
  <2> QED
    BY <1>1, <1>4, <2>3, <2>4 DEF SameTones
<1> QED
  BY <1>3, <1>4

\* A candidate is added at the end, or strengthens one of its bucket, or there is
\* no room for it.
LEMMA AddCandidateTyped ==
  ASSUME NEW l \in Cands, Len(l) <= MAX_DECODE_CHANNELS, NEW width \in Nat,
         NEW tone \in Int, NEW snr \in Nat
  PROVE  LET r == Pool!AddCandidate(l, width, tone, snr)
             c == [tone |-> tone, snr |-> snr]
         IN  /\ r \in Cands /\ Len(r) <= MAX_DECODE_CHANNELS
             /\ (/\ Len(l) < MAX_DECODE_CHANNELS
                 /\ \A k \in 1 .. Len(l) : ~Pool!SameBucket(l[k].tone, tone, width))
                  => r = Append(l, c)
             /\ (\E k \in 1 .. Len(l) : Pool!SameBucket(l[k].tone, tone, width))
                  => SameTones(r, l)
<1> DEFINE same == {k \in 1 .. Len(l) : Pool!SameBucket(l[k].tone, tone, width)}
           r == Pool!AddCandidate(l, width, tone, snr)
           c == [tone |-> tone, snr |-> snr]
<1>1. r = IF Len(l) >= MAX_DECODE_CHANNELS THEN l
          ELSE IF same = {} THEN Append(l, c)
          ELSE [l EXCEPT ![Pool!Min(same)].snr = Pool!Max({@, snr})]
  <2>1. DOMAIN l = 1 .. Len(l)
    BY DEF Cands
  <2> QED
    BY <2>1 DEF Pool!AddCandidate
<1>2. c \in Pool!Candidate
  BY DEF Pool!Candidate
<1>3. MAX_DECODE_CHANNELS \in Nat /\ Len(l) \in Nat
  BY PoolConstants DEF Cands
<1> HIDE DEF c
<1>4. CASE Len(l) >= MAX_DECODE_CHANNELS
  <2>1. r = l /\ SameTones(l, l) /\ ~(Len(l) < MAX_DECODE_CHANNELS)
    BY <1>1, <1>3, <1>4 DEF SameTones
  <2> HIDE DEF r
  <2> QED
    BY <2>1 DEF r, c
<1>5. CASE ~(Len(l) >= MAX_DECODE_CHANNELS) /\ same = {}
  <2>1. r = Append(l, c)
    BY <1>1, <1>5
  <2>2. r \in Cands /\ Len(r) <= MAX_DECODE_CHANNELS
    <3>1. Append(l, c) \in Cands /\ Len(Append(l, c)) = Len(l) + 1
      BY <1>2, Appended
    <3> HIDE DEF r
    <3> QED
      BY <1>3, <1>5, <2>1, <3>1
  <2>3. ~(\E k \in 1 .. Len(l) : Pool!SameBucket(l[k].tone, tone, width))
    BY <1>5
  <2> HIDE DEF r, same
  <2> QED
    BY <2>1, <2>2, <2>3 DEF r, c
<1>6. CASE ~(Len(l) >= MAX_DECODE_CHANNELS) /\ same # {}
  <2>1. same \in SUBSET Nat
    OBVIOUS
  <2>2. Pool!Min(same) \in same
    <3> HIDE DEF same
    <3> QED
      BY <1>6, <2>1, LeastOf
  <2>3. /\ Pool!Min(same) \in 1 .. Len(l)
        /\ ~(\A k \in 1 .. Len(l) : ~Pool!SameBucket(l[k].tone, tone, width))
    BY <2>2
  <2> HIDE DEF same
  <2> DEFINE i == Pool!Min(same)
  <2>4. SameTones([l EXCEPT ![i].snr = Pool!Max({@, snr})], l)
    <3> HIDE DEF i
    <3> QED
      BY <2>3, Strengthened DEF i
  <2>5. SameTones(r, l)
    BY <1>1, <1>6, <2>4
  <2>6. r \in Cands /\ Len(r) <= MAX_DECODE_CHANNELS
    BY <2>5 DEF SameTones
  <2> HIDE DEF r
  <2> QED
    BY <2>3, <2>5, <2>6 DEF r, c
<1> QED
  BY <1>4, <1>5, <1>6

-----------------------------------------------------------------------------
\* The peaks the detection loop looks for, and those the pool looks for itself.
SignalPeaks(s, md) == Pool!FindPeaks(s, md.single, md.signals, MinSnr, MAX_SIGNALS)
FirstPeaks(s, md)  == Pool!FindPeaks(s, md.single, md.more, MinSnr, MAX_DECODE_CHANNELS)

\* The tone of a bin is a number, and in an IQ stream that of the bin.
LEMMA ToneIs ==
  ASSUME NEW b \in Int
  PROVE  /\ \A single, real : Pool!ToneOf(single, real, b) \in Int
         /\ Pool!ToneOf(FALSE, FALSE, b) = b
<1>1. ASSUME NEW single, NEW real PROVE Pool!ToneOf(single, real, b) \in Int
  <2>1. Pool!Zero(single, real) \in Int
    BY DcIs, PoolConstants DEF Pool!Zero
  <2> QED
    BY <2>1, DcIs DEF Pool!ToneOf
<1>2. Pool!Zero(FALSE, FALSE) = Pool!Dc
  BY DEF Pool!Zero, Pool!Width, Pool!Dc
<1>3. Pool!ToneOf(FALSE, FALSE, b) = b
  <2> DEFINE z == Pool!Zero(FALSE, FALSE)
  <2>1. Pool!ToneOf(FALSE, FALSE, b) = Pool!Dc + (b - z)
    BY DEF Pool!ToneOf
  <2>2. z = Pool!Dc
    BY <1>2
  <2> HIDE DEF z
  <2>3. Pool!Dc + (b - z) = b
    BY <2>2, DcIs
  <2> QED
    BY <2>1, <2>3
<1> QED
  BY <1>1, <1>3

\* The mode of an IQ stream.
LEMMA IqIs ==
  /\ Pool!Iq \in Pool!EveryMode
  /\ Pool!Iq.single = FALSE /\ Pool!Iq.signals = FALSE /\ Pool!Iq.more = FALSE
BY DEF Pool!Iq, Pool!EveryMode

\* u is the list of signals after each peak of q.
Listed(s, md, q, u) ==
    /\ u[0] = << >>
    /\ \A k \in 1 .. Len(q) :
           u[k] = Pool!AddSignal(u[k - 1], Pool!Refine(s, md.single,
                                               Pool!ToneOf(md.single, md.signals, q[k]), 1))

\* The signals are added one after the other, in the order of the peaks.
LEMMA SignalsList ==
  ASSUME NEW s \in [Pool!Bins -> Nat], NEW md
  PROVE  LET q == SignalPeaks(s, md)
         IN  /\ q \in Seq(Pool!Bins)
             /\ \E u \in [0 .. Len(q) -> Cands] :
                    Listed(s, md, q, u) /\ Pool!Signals(s, md) = u[Len(q)]
<1> DEFINE q == SignalPeaks(s, md)
           n == Len(q)
           T(k) == Pool!ToneOf(md.single, md.signals, q[k])
           F(f, k) == IF k = 0 THEN << >>
                      ELSE Pool!AddSignal(f[k - 1], Pool!Refine(s, md.single, T(k), 1))
           H(l, k) == Pool!AddSignal(l, Pool!Refine(s, md.single, T(k), 1))
           G == [k \in 1 .. n |-> [l \in Cands |-> H(l, k)]]
           D(h) == h = [k \in 0 .. n |-> F(h, k)]
           K == CHOOSE h : D(h)
<1>1. q \in Seq(Pool!Bins)
  <2>1. PICK u \in [0 .. NumBins - 1 -> Seq(Pool!Bins)] : q = u[NumBins - 1]
    BY FindPeaksSearches DEF SignalPeaks
  <2>2. NumBins - 1 \in 0 .. NumBins - 1
    BY PoolConstants
  <2> HIDE DEF q
  <2> QED
    BY <2>1, <2>2
<1>2. Pool!Signals(s, md) = K[n]
  BY DEF Pool!Signals, SignalPeaks
<1> HIDE DEF q
<1>3. n \in Nat /\ \A k \in 1 .. n : T(k) \in Int
  <2>1. n \in Nat /\ \A k \in 1 .. n : q[k] \in Pool!Bins
    BY <1>1, ElementOfSeq
  <2>2. Pool!Bins \subseteq Int
    BY PoolConstants DEF Pool!Bins
  <2> QED
    BY <2>1, <2>2, ToneIs
<1>4. \A f : F(f, 0) = << >> /\ \A k \in 1 .. n : F(f, k) = H(f[k - 1], k)
  <2>1. \A k \in 1 .. n : k # 0
    BY <1>3
  <2> QED
    BY <2>1
<1>5. \A k \in 1 .. n : \A l \in Cands : H(l, k) \in Cands
  <2> SUFFICES ASSUME NEW k \in 1 .. n, NEW l \in Cands PROVE H(l, k) \in Cands
    OBVIOUS
  <2>1. Pool!Refine(s, md.single, T(k), 1) \in Pool!Candidate
    BY <1>3, RefineTyped
  <2> QED
    BY <2>1, AddSignalTyped
<1> HIDE DEF n, F, H, T
<1>6. G \in [1 .. n -> [Cands -> Cands]]
  BY <1>5
<1>7. << >> \in Cands
  BY DEF Cands
<1>8. PICK g \in [0 .. n -> Cands] : Iterated(n, << >>, G, g)
  <2> HIDE DEF G
  <2> QED
    BY <1>3, <1>6, <1>7, Iterates
<1>9. g[0] = << >> /\ \A k \in 1 .. n : g[k] = H(g[k - 1], k)
  <2>1. \A k \in 1 .. n : k - 1 \in 0 .. n /\ g[k - 1] \in Cands
    BY <1>3, <1>8
  <2>2. \A k \in 1 .. n : G[k][g[k - 1]] = H(g[k - 1], k)
    BY <2>1
  <2> HIDE DEF G
  <2> QED
    BY <1>8, <2>2 DEF Iterated
<1>10. D(g)
  <2>1. g = [k \in 0 .. n |-> g[k]]
    BY <1>8
  <2>2. \A k \in 0 .. n : k = 0 \/ k \in 1 .. n
    BY <1>3
  <2>3. \A k \in 0 .. n : g[k] = F(g, k)
    BY <1>4, <1>9, <2>2
  <2> HIDE DEF G
  <2> QED
    BY <2>1, <2>3
<1>11. D(K)
  <2> HIDE DEF D, G
  <2> QED
    BY <1>10
<1> HIDE DEF K, G
<1>12. \A k \in 0 .. n : K[k] = F(K, k)
  BY <1>11
<1>13. K[n] = g[n]
  <2>1. 0 \in 0 .. n /\ \A k \in 1 .. n : k \in 0 .. n
    BY <1>3
  <2>2. K[0] = g[0]
    BY <1>4, <1>9, <1>12, <2>1
  <2>3. \A k \in 1 .. n : K[k] = H(K[k - 1], k)
    BY <1>4, <1>12, <2>1
  <2> HIDE DEF D
  <2>4. \A k \in 1 .. n : K[k - 1] = g[k - 1] => K[k] = g[k]
    BY <1>9, <2>3
  <2> QED
    BY <1>3, <2>2, <2>4, SameIterates
<1>14. Listed(s, md, q, g)
  BY <1>9 DEF Listed, n, H, T
<1>15. Pool!Signals(s, md) = g[n]
  BY <1>2, <1>13
<1> QED
  BY <1>1, <1>8, <1>14, <1>15 DEF q, n

\* The candidates are the first k bins of q.
Tuned(l, q, k) ==
    l \in Cands /\ Len(l) = k /\ \A i \in 1 .. k : l[i].tone = q[i]

\* On a sparse band the signals are the peaks, in the order they were found.
LEMMA SignalsAre ==
  ASSUME RateRatio = 1, NEW s \in Spectra, Pool!Sparse(s)
  PROVE  LET q == SignalPeaks(s, Pool!Iq)
         IN  /\ ListsPeaks(q, s) /\ Len(q) <= MAX_DECODE_CHANNELS
             /\ Tuned(Pool!Signals(s, Pool!Iq), q, Len(q))
<1> DEFINE q == SignalPeaks(s, Pool!Iq)
           n == Len(q)
<1>1. s \in [Pool!Bins -> Nat] /\ MAX_SIGNALS \in Nat /\ MAX_DECODE_CHANNELS \in Nat
  BY PoolConstants
<1>2. Cardinality(Pool!Peaks(s)) \in Nat
  BY PeaksFinite
<1>3. /\ Cardinality(Pool!Peaks(s)) <= MAX_SIGNALS
      /\ Cardinality(Pool!Peaks(s)) <= MAX_DECODE_CHANNELS
  <2>1. Cardinality(Pool!Peaks(s)) <= Pool!Min({MAX_SIGNALS, MAX_DECODE_CHANNELS})
    BY PoolCounts DEF Pool!Sparse
  <2> QED
    BY <1>1, <1>2, <2>1, LesserOf
<1>4. ListsPeaks(q, s) /\ n = Cardinality(Pool!Peaks(s))
  BY <1>1, <1>3, IqIs, AllPeaks DEF SignalPeaks
<1>5. PICK u \in [0 .. n -> Cands] : Listed(s, Pool!Iq, q, u) /\ Pool!Signals(s, Pool!Iq) = u[n]
  BY <1>1, SignalsList
<1> HIDE DEF q
<1>6. n \in Nat
  BY <1>2, <1>4
<1> DEFINE T == {k \in 0 .. n : Tuned(u[k], q, k)}
<1>7. 0 \in T
  <2>1. u[0] = << >> /\ 0 \in 0 .. n
    BY <1>5, <1>6 DEF Listed
  <2> DEFINE e == << >>
  <2>2. e \in Cands /\ Len(e) = 0
    BY DEF Cands
  <2> HIDE DEF e
  <2>3. Tuned(e, q, 0)
    BY <2>2 DEF Tuned
  <2> QED
    BY <2>1, <2>3 DEF e
<1>8. \A k \in 1 .. n : k - 1 \in T => k \in T
  <2> SUFFICES ASSUME NEW k \in 1 .. n, Tuned(u[k - 1], q, k - 1)
               PROVE  Tuned(u[k], q, k)
    <3>1. \A k \in 1 .. n : k \in 0 .. n
      BY <1>6
    <3> QED
      BY <3>1
  <2> DEFINE l == u[k - 1]
             r == Pool!Refine(s, FALSE, q[k], 1)
  <2>1. q[k] \in Pool!Peaks(s) /\ q[k] \in Int /\ \A i \in 1 .. k - 1 : q[i] # q[k]
    <3>1. q[k] \in Pool!Peaks(s) /\ q[k] \in Pool!Bins
      BY <1>4, PeaksFinite DEF ListsPeaks
    <3>2. \A i \in 1 .. k - 1 : i \in 1 .. n /\ i # k
      BY <1>6
    <3>3. \A i \in 1 .. k - 1 : q[i] # q[k]
      BY <1>4, <3>2 DEF ListsPeaks
    <3>4. Pool!Bins \subseteq Int
      BY PoolConstants DEF Pool!Bins
    <3> QED
      BY <3>1, <3>3, <3>4
  <2>2. r \in Pool!Candidate /\ r.tone = q[k]
    <3>1. 1 \in Nat \ {0}
      OBVIOUS
    <3>2. r \in Pool!Candidate
      BY <1>1, <2>1, <3>1, RefineTyped, Zenon
    <3>3. r.tone = q[k]
      BY <2>1, RefineOwn, Zenon
    <3> QED
      BY <3>2, <3>3
  <2>3. l \in Cands /\ Len(l) = k - 1 /\ \A i \in 1 .. k - 1 : l[i].tone = q[i]
    BY DEF Tuned
  <2>4. u[k] = Pool!AddSignal(l, r)
    <3>1. Pool!ToneOf(FALSE, FALSE, q[k]) = q[k]
      BY <2>1, ToneIs
    <3> QED
      BY <1>5, <3>1, IqIs DEF Listed
  <2> HIDE DEF l, r
  <2>5. \A i \in 1 .. Len(l) : l[i].tone # r.tone
    BY <2>1, <2>2, <2>3
  <2>6. u[k] = Append(l, r)
    BY <2>2, <2>3, <2>4, <2>5, AddSignalTyped
  <2> DEFINE v == Append(l, r)
  <2>7. v \in Cands /\ Len(v) = k /\ (\A i \in 1 .. k - 1 : v[i] = l[i]) /\ v[k] = r
    <3>1. (k - 1) + 1 = k
      BY <1>6
    <3> QED
      BY <2>2, <2>3, <3>1, Appended
  <2> HIDE DEF v
  <2>8. \A i \in 1 .. k : i \in 1 .. k - 1 \/ i = k
    BY <1>6
  <2>9. \A i \in 1 .. k : v[i].tone = q[i]
    BY <2>2, <2>3, <2>7, <2>8
  <2> QED
    BY <2>6, <2>7, <2>9 DEF Tuned, v
<1>9. n \in T
  <2> HIDE DEF T, n
  <2>1. 0 .. n \subseteq T
    BY <1>6, <1>7, <1>8, UpTo
  <2> QED
    BY <1>6, <2>1
<1> QED
  BY <1>3, <1>4, <1>5, <1>9 DEF q

-----------------------------------------------------------------------------
(* The channel pool: merging.                                              *)
MorePeaks(s, md) ==
    LET peaks == FirstPeaks(s, md)
    IN  [k \in DOMAIN peaks |-> [tone |-> Pool!ToneOf(md.single, md.more, peaks[k]),
                               snr  |-> s[peaks[k]]]]

Offered(s, md) == Pool!Signals(s, md) \o MorePeaks(s, md)

\* The peaks the pool looks for itself, as candidates.
LEMMA MorePeaksTyped ==
  ASSUME NEW s \in [Pool!Bins -> Nat], NEW md
  PROVE  LET q == FirstPeaks(s, md)
         IN  /\ MorePeaks(s, md) \in Cands /\ Len(MorePeaks(s, md)) = Len(q) /\ Len(q) \in Nat
             /\ \A k \in 1 .. Len(q) : MorePeaks(s, md)[k].tone = Pool!ToneOf(md.single, md.more, q[k])
<1> DEFINE q == FirstPeaks(s, md)
           T(k) == Pool!ToneOf(md.single, md.more, q[k])
           E(k) == [tone |-> T(k), snr |-> s[q[k]]]
           l == [k \in 1 .. Len(q) |-> E(k)]
<1>1. q \in Seq(Pool!Bins)
  <2>1. PICK u \in [0 .. NumBins - 1 -> Seq(Pool!Bins)] : q = u[NumBins - 1]
    BY FindPeaksSearches DEF FirstPeaks
  <2>2. NumBins - 1 \in 0 .. NumBins - 1
    BY PoolConstants
  <2> HIDE DEF q
  <2> QED
    BY <2>1, <2>2
<1>2. MorePeaks(s, md) = [k \in DOMAIN q |-> E(k)]
  BY DEF MorePeaks, FirstPeaks
<1> HIDE DEF q
<1>3. DOMAIN q = 1 .. Len(q) /\ Len(q) \in Nat
  BY <1>1
<1>4. \A k \in 1 .. Len(q) : E(k) \in Pool!Candidate /\ E(k).tone = T(k)
  <2> SUFFICES ASSUME NEW k \in 1 .. Len(q) PROVE E(k) \in Pool!Candidate /\ E(k).tone = T(k)
    OBVIOUS
  <2>1. q[k] \in Pool!Bins
    BY <1>1, ElementOfSeq
  <2>2. q[k] \in Int /\ s[q[k]] \in Nat
    BY <2>1, PoolConstants DEF Pool!Bins
  <2>3. T(k) \in Int
    BY <2>2, ToneIs
  <2> HIDE DEF T
  <2> QED
    BY <2>2, <2>3 DEF Pool!Candidate
<1> HIDE DEF E, T
<1>5. l \in Cands /\ Len(l) = Len(q) /\ \A k \in 1 .. Len(q) : l[k] = E(k)
  BY <1>3, <1>4 DEF Cands
<1>6. MorePeaks(s, md) = l
  BY <1>2, <1>3
<1> HIDE DEF l
<1> QED
  BY <1>3, <1>4, <1>5, <1>6 DEF q, T

\* What is offered for merging are candidates.
LEMMA OfferedTyped ==
  ASSUME NEW s \in [Pool!Bins -> Nat], NEW md
  PROVE  /\ Offered(s, md) \in Cands /\ Pool!Signals(s, md) \in Cands
         /\ Len(Offered(s, md)) = Len(Pool!Signals(s, md)) + Len(MorePeaks(s, md))
         /\ \A k \in 1 .. Len(Offered(s, md)) :
               Offered(s, md)[k] = IF k <= Len(Pool!Signals(s, md)) THEN Pool!Signals(s, md)[k]
                               ELSE MorePeaks(s, md)[k - Len(Pool!Signals(s, md))]
<1>1. Pool!Signals(s, md) \in Cands
  <2> DEFINE q == SignalPeaks(s, md)
  <2>1. q \in Seq(Pool!Bins) /\ \E u \in [0 .. Len(q) -> Cands] : Pool!Signals(s, md) = u[Len(q)]
    BY SignalsList
  <2> HIDE DEF q
  <2>2. Len(q) \in 0 .. Len(q)
    BY <2>1
  <2> QED
    BY <2>1, <2>2
<1>2. MorePeaks(s, md) \in Cands
  BY MorePeaksTyped
<1> QED
  BY <1>1, <1>2, ConcatProperties DEF Offered, Cands

ShortLists == {l \in Cands : Len(l) <= MAX_DECODE_CHANNELS}

\* u is the list of candidates after each signal and peak.
MergedBy(s, width, md, u) ==
    /\ u[0] = << >>
    /\ \A k \in 1 .. Len(Offered(s, md)) :
           u[k] = Pool!AddCandidate(u[k - 1], width, Offered(s, md)[k].tone, Offered(s, md)[k].snr)

\* Signals and peaks are merged one after the other.
LEMMA MergedList ==
  ASSUME NEW s \in [Pool!Bins -> Nat], NEW width \in Nat, NEW md
  PROVE  \E u \in [0 .. Len(Offered(s, md)) -> ShortLists] :
             MergedBy(s, width, md, u) /\ Pool!Merged(s, width, md) = u[Len(Offered(s, md))]
<1> DEFINE a == Offered(s, md)
           n == Len(a)
           F(f, k) == IF k = 0 THEN << >>
                      ELSE Pool!AddCandidate(f[k - 1], width, a[k].tone, a[k].snr)
           H(l, k) == Pool!AddCandidate(l, width, a[k].tone, a[k].snr)
           G == [k \in 1 .. n |-> [l \in ShortLists |-> H(l, k)]]
           D(h) == h = [k \in 0 .. n |-> F(h, k)]
           K == CHOOSE h : D(h)
<1>1. a \in Cands
  BY OfferedTyped
<1>2. Pool!Merged(s, width, md) = K[n]
  BY DEF Pool!Merged, Offered, MorePeaks, FirstPeaks
<1> HIDE DEF a
<1>3. n \in Nat /\ \A k \in 1 .. n : a[k].tone \in Int /\ a[k].snr \in Nat
  <2>1. n \in Nat /\ \A k \in 1 .. n : a[k] \in Pool!Candidate
    BY <1>1, ElementOfSeq DEF Cands
  <2> HIDE DEF n
  <2> QED
    BY <2>1 DEF Pool!Candidate
<1>4. \A f : F(f, 0) = << >> /\ \A k \in 1 .. n : F(f, k) = H(f[k - 1], k)
  <2>1. \A k \in 1 .. n : k # 0
    BY <1>3
  <2> QED
    BY <2>1
<1>5. \A k \in 1 .. n : \A l \in ShortLists : H(l, k) \in ShortLists
  <2> SUFFICES ASSUME NEW k \in 1 .. n, NEW l \in ShortLists PROVE H(l, k) \in ShortLists
    OBVIOUS
  <2> DEFINE tone == a[k].tone
             snr == a[k].snr
  <2>1. tone \in Int /\ snr \in Nat
    BY <1>3
  <2> HIDE DEF tone, snr
  <2>2. l \in Cands /\ Len(l) <= MAX_DECODE_CHANNELS
    BY DEF ShortLists
  <2>3. Pool!AddCandidate(l, width, tone, snr) \in ShortLists
    BY <2>1, <2>2, AddCandidateTyped DEF ShortLists
  <2> QED
    BY <2>3 DEF tone, snr
<1> HIDE DEF n, F, H
<1>6. G \in [1 .. n -> [ShortLists -> ShortLists]]
  BY <1>5
<1>7. << >> \in ShortLists
  <2>1. MAX_DECODE_CHANNELS \in Nat
    BY PoolConstants
  <2> DEFINE e == << >>
  <2>2. e \in Cands /\ Len(e) = 0
    BY DEF Cands
  <2> HIDE DEF e
  <2>3. e \in ShortLists
    BY <2>1, <2>2 DEF ShortLists
  <2> QED
    BY <2>3 DEF e
<1>8. PICK g \in [0 .. n -> ShortLists] : Iterated(n, << >>, G, g)
  <2> HIDE DEF G
  <2> QED
    BY <1>3, <1>6, <1>7, Iterates
<1>9. g[0] = << >> /\ \A k \in 1 .. n : g[k] = H(g[k - 1], k)
  <2>1. \A k \in 1 .. n : k - 1 \in 0 .. n /\ g[k - 1] \in ShortLists
    BY <1>3, <1>8
  <2>2. \A k \in 1 .. n : G[k][g[k - 1]] = H(g[k - 1], k)
    BY <2>1
  <2> HIDE DEF G
  <2> QED
    BY <1>8, <2>2 DEF Iterated
<1>10. D(g)
  <2>1. g = [k \in 0 .. n |-> g[k]]
    BY <1>8
  <2>2. \A k \in 0 .. n : k = 0 \/ k \in 1 .. n
    BY <1>3
  <2>3. \A k \in 0 .. n : g[k] = F(g, k)
    BY <1>4, <1>9, <2>2
  <2> HIDE DEF G
  <2> QED
    BY <2>1, <2>3
<1>11. D(K)
  <2> HIDE DEF D, G
  <2> QED
    BY <1>10
<1> HIDE DEF K, G
<1>12. \A k \in 0 .. n : K[k] = F(K, k)
  BY <1>11
<1>13. K[n] = g[n]
  <2>1. 0 \in 0 .. n /\ \A k \in 1 .. n : k \in 0 .. n
    BY <1>3
  <2>2. K[0] = g[0]
    BY <1>4, <1>9, <1>12, <2>1
  <2>3. \A k \in 1 .. n : K[k] = H(K[k - 1], k)
    BY <1>4, <1>12, <2>1
  <2> HIDE DEF D
  <2>4. \A k \in 1 .. n : K[k - 1] = g[k - 1] => K[k] = g[k]
    BY <1>9, <2>3
  <2> QED
    BY <1>3, <2>2, <2>4, SameIterates
<1>14. MergedBy(s, width, md, g)
  BY <1>9 DEF MergedBy, n, H, a
<1>15. Pool!Merged(s, width, md) = g[n]
  BY <1>2, <1>13
<1> QED
  BY <1>8, <1>14, <1>15 DEF a, n

\* On a sparse band no two peaks share a bucket.
LEMMA OwnBucket ==
  ASSUME NEW s \in Spectra, Pool!Sparse(s), NEW p \in Pool!Peaks(s), NEW o \in Pool!Peaks(s),
         NEW width \in Buckets
  PROVE  Pool!SameBucket(p, o, width) <=> p = o
<1>1. p \in Nat /\ o \in Nat /\ width \in Nat /\ p \in Pool!Bins /\ o \in Pool!Bins
  BY Apart, PoolConstants
<1>2. s[p] > 0 /\ s[o] > 0
  <2>1. s[p] \in Nat \ {0} /\ s[o] \in Nat \ {0}
    BY Apart
  <2> QED
    BY <2>1
<1>3. p # o => Pool!Distance(p, o) > width
  BY <1>1, <1>2 DEF Pool!Sparse
<1>4. Pool!Distance(p, o) \in Int /\ (p = o => Pool!Distance(p, o) = 0)
  BY <1>1 DEF Pool!Distance
<1> QED
  BY <1>1, <1>3, <1>4 DEF Pool!SameBucket

\* On a sparse band merging keeps the signals: the peaks find their own buckets.
LEMMA MergedAre ==
  ASSUME RateRatio = 1, NEW s \in Spectra, Pool!Sparse(s), NEW width \in Buckets
  PROVE  LET q == SignalPeaks(s, Pool!Iq)
         IN  ListsPeaks(q, s) /\ Tuned(Pool!Merged(s, width, Pool!Iq), q, Len(q))
<1> DEFINE q == SignalPeaks(s, Pool!Iq)
           r == FirstPeaks(s, Pool!Iq)
           n == Len(q)
           a == Offered(s, Pool!Iq)
           m == Len(a)
<1>1. /\ s \in [Pool!Bins -> Nat] /\ width \in Nat /\ MAX_DECODE_CHANNELS \in Nat
      /\ MAX_SIGNALS \in Nat
  BY PoolConstants
<1>2. ListsPeaks(q, s) /\ n <= MAX_DECODE_CHANNELS /\ Tuned(Pool!Signals(s, Pool!Iq), q, n)
  BY SignalsAre
<1>3. ListsPeaks(r, s)
  <2>1. Cardinality(Pool!Peaks(s)) \in Nat
    BY PeaksFinite
  <2>2. Cardinality(Pool!Peaks(s)) <= Pool!Min({MAX_SIGNALS, MAX_DECODE_CHANNELS})
    BY PoolCounts DEF Pool!Sparse
  <2>3. Cardinality(Pool!Peaks(s)) <= MAX_DECODE_CHANNELS
    BY <1>1, <2>1, <2>2, LesserOf
  <2> QED
    BY <1>1, <2>3, IqIs, AllPeaks DEF FirstPeaks
<1>4. /\ MorePeaks(s, Pool!Iq) \in Cands /\ Len(MorePeaks(s, Pool!Iq)) = Len(r) /\ Len(r) \in Nat
      /\ \A k \in 1 .. Len(r) : MorePeaks(s, Pool!Iq)[k].tone = r[k]
  <2>1. /\ MorePeaks(s, Pool!Iq) \in Cands
        /\ Len(MorePeaks(s, Pool!Iq)) = Len(r) /\ Len(r) \in Nat
        /\ \A k \in 1 .. Len(r) : MorePeaks(s, Pool!Iq)[k].tone = Pool!ToneOf(FALSE, FALSE, r[k])
    BY <1>1, IqIs, MorePeaksTyped
  <2>2. \A k \in 1 .. Len(r) : r[k] \in Int
    <3>1. Pool!Bins \subseteq Int
      BY PoolConstants DEF Pool!Bins
    <3> QED
      BY <1>3, <3>1, PeaksFinite DEF ListsPeaks
  <2> HIDE DEF r
  <2> QED
    BY <2>1, <2>2, ToneIs
<1>5. /\ a \in Cands /\ Pool!Signals(s, Pool!Iq) \in Cands
      /\ m = Len(Pool!Signals(s, Pool!Iq)) + Len(MorePeaks(s, Pool!Iq))
      /\ \A k \in 1 .. m : a[k] = IF k <= Len(Pool!Signals(s, Pool!Iq)) THEN Pool!Signals(s, Pool!Iq)[k]
                                  ELSE MorePeaks(s, Pool!Iq)[k - Len(Pool!Signals(s, Pool!Iq))]
  BY <1>1, OfferedTyped
<1>6. PICK u \in [0 .. m -> ShortLists] :
          MergedBy(s, width, Pool!Iq, u) /\ Pool!Merged(s, width, Pool!Iq) = u[m]
  BY <1>1, MergedList
<1>7. n \in Nat /\ Len(Pool!Signals(s, Pool!Iq)) = n
  BY <1>2 DEF ListsPeaks, Tuned
<1>8. m = n + Len(r)
  BY <1>4, <1>5, <1>7
<1>9. \A k \in 1 .. m : /\ a[k].tone \in Pool!Peaks(s) /\ a[k].tone \in Int /\ a[k].snr \in Nat
                        /\ k <= n => a[k].tone = q[k]
  <2> SUFFICES ASSUME NEW k \in 1 .. m
               PROVE  /\ a[k].tone \in Pool!Peaks(s) /\ a[k].tone \in Int /\ a[k].snr \in Nat
                      /\ k <= n => a[k].tone = q[k]
    OBVIOUS
  <2>1. a[k] \in Pool!Candidate
    BY <1>5, ElementOfSeq DEF Cands
  <2>2. CASE k <= n
    <3>1. k \in 1 .. n
      BY <1>4, <1>7, <1>8, <2>2
    <3>2. a[k] = Pool!Signals(s, Pool!Iq)[k] /\ Pool!Signals(s, Pool!Iq)[k].tone = q[k] /\ q[k] \in Pool!Peaks(s)
      BY <1>2, <1>5, <1>7, <2>2, <3>1 DEF Tuned, ListsPeaks
    <3>3. a[k].tone = q[k]
      BY <3>2
    <3> HIDE DEF a, q, n, m
    <3> QED
      BY <2>1, <3>2, <3>3 DEF Pool!Candidate
  <2>3. CASE ~(k <= n)
    <3>1. k - n \in 1 .. Len(r)
      BY <1>4, <1>7, <1>8, <2>3
    <3>2. a[k] = MorePeaks(s, Pool!Iq)[k - n] /\ MorePeaks(s, Pool!Iq)[k - n].tone = r[k - n]
      BY <1>4, <1>5, <1>7, <2>3, <3>1
    <3>3. r[k - n] \in Pool!Peaks(s)
      BY <1>3, <3>1 DEF ListsPeaks
    <3>4. a[k].tone \in Pool!Peaks(s)
      BY <3>2, <3>3
    <3> HIDE DEF a, q, n, m
    <3> QED
      BY <2>1, <2>3, <3>4 DEF Pool!Candidate
  <2> QED
    BY <2>2, <2>3
<1>10. /\ u[0] = << >>
       /\ \A k \in 1 .. m : u[k] = Pool!AddCandidate(u[k - 1], width, a[k].tone, a[k].snr)
  BY <1>6 DEF MergedBy
<1>11. m \in Nat
  BY <1>4, <1>7, <1>8
<1> HIDE DEF q, r, a, m, n
<1> DEFINE Least(k) == IF k <= n THEN k ELSE n
           T == {k \in 0 .. m : Tuned(u[k], q, Least(k))}
<1>12. 0 \in T
  <2> DEFINE e == << >>
  <2>1. e \in Cands /\ Len(e) = 0
    BY DEF Cands
  <2> HIDE DEF e
  <2>2. Tuned(e, q, 0)
    BY <2>1 DEF Tuned
  <2>3. Least(0) = 0 /\ 0 \in 0 .. m
    BY <1>7, <1>11
  <2> HIDE DEF Least
  <2> QED
    BY <1>10, <2>2, <2>3 DEF e
<1>13. \A k \in 1 .. m : k - 1 \in T => k \in T
  <2> SUFFICES ASSUME NEW k \in 1 .. m, Tuned(u[k - 1], q, Least(k - 1))
               PROVE  Tuned(u[k], q, Least(k))
    <3> HIDE DEF Least
    <3>1. \A k \in 1 .. m : k \in 0 .. m
      BY <1>11
    <3> QED
      BY <3>1
  <2> DEFINE l == u[k - 1]
             tone == a[k].tone
             snr == a[k].snr
             v == Pool!AddCandidate(l, width, tone, snr)
             c == [tone |-> tone, snr |-> snr]
  <2>1. u[k] = v /\ tone \in Pool!Peaks(s) /\ tone \in Int /\ snr \in Nat
    BY <1>9, <1>10
  <2>2. k <= n => tone = q[k]
    BY <1>9
  <2>3. l \in Cands /\ Len(l) <= MAX_DECODE_CHANNELS
    <3>1. k - 1 \in 0 .. m
      BY <1>11
    <3> QED
      BY <1>6, <3>1 DEF ShortLists
  <2>4. Tuned(l, q, Least(k - 1))
    OBVIOUS
  <2> HIDE DEF l, tone, snr, v, c, Least
  <2>5. /\ (/\ Len(l) < MAX_DECODE_CHANNELS
            /\ \A i \in 1 .. Len(l) : ~Pool!SameBucket(l[i].tone, tone, width)) => v = Append(l, c)
        /\ (\E i \in 1 .. Len(l) : Pool!SameBucket(l[i].tone, tone, width)) => SameTones(v, l)
    BY <1>1, <2>1, <2>3, AddCandidateTyped DEF v, c
  <2>6. CASE k <= n
    <3>1. Least(k) = k /\ Least(k - 1) = k - 1 /\ k \in 1 .. n
      BY <1>7, <1>11, <2>6 DEF Least
    <3>2. Len(l) = k - 1 /\ \A i \in 1 .. k - 1 : l[i].tone = q[i]
      BY <2>4, <3>1 DEF Tuned
    <3>3. \A i \in 1 .. k - 1 : i \in 1 .. n /\ i # k
      BY <1>7, <3>1
    <3>4. \A i \in 1 .. k - 1 : q[i] \in Pool!Peaks(s) /\ q[i] # tone
      BY <1>2, <2>2, <2>6, <3>1, <3>3 DEF ListsPeaks, n
    <3>5. \A i \in 1 .. k - 1 : ~Pool!SameBucket(l[i].tone, tone, width)
      BY <2>1, <3>2, <3>4, OwnBucket
    <3>6. Len(l) < MAX_DECODE_CHANNELS
      BY <1>1, <1>2, <1>7, <3>1, <3>2
    <3>7. v = Append(l, c)
      BY <2>5, <3>2, <3>5, <3>6
    <3>8. c \in Pool!Candidate /\ c.tone = tone
      BY <2>1 DEF c, Pool!Candidate
    <3>9. v \in Cands /\ Len(v) = k /\ (\A i \in 1 .. k - 1 : v[i] = l[i]) /\ v[k] = c
      <4>1. (k - 1) + 1 = k
        BY <3>1, <1>7
      <4> QED
        BY <2>3, <3>2, <3>7, <3>8, <4>1, Appended
    <3>10. \A i \in 1 .. k : i \in 1 .. k - 1 \/ i = k
      BY <1>7, <3>1
    <3>11. \A i \in 1 .. k : v[i].tone = q[i]
      BY <2>2, <2>6, <3>2, <3>8, <3>9, <3>10
    <3> QED
      BY <2>1, <3>1, <3>9, <3>11 DEF Tuned
  <2>7. CASE ~(k <= n)
    <3>1. Least(k) = n /\ Least(k - 1) = n
      BY <1>7, <1>11, <2>7 DEF Least
    <3>2. Len(l) = n /\ \A i \in 1 .. n : l[i].tone = q[i]
      BY <2>4, <3>1 DEF Tuned
    <3>3. PICK i \in 1 .. n : q[i] = tone
      BY <1>2, <2>1 DEF ListsPeaks, n
    <3>4. Pool!SameBucket(l[i].tone, tone, width)
      BY <2>1, <3>2, <3>3, OwnBucket
    <3>5. SameTones(v, l)
      BY <2>5, <3>2, <3>4
    <3> QED
      BY <2>1, <3>1, <3>2, <3>5 DEF SameTones, Tuned
  <2> QED
    BY <2>6, <2>7
<1>14. Tuned(u[m], q, n)
  <2>1. m \in T
    <3> HIDE DEF T
    <3>1. 0 .. m \subseteq T
      BY <1>11, <1>12, <1>13, UpTo
    <3> QED
      BY <1>11, <3>1
  <2>2. Least(m) = n
    BY <1>4, <1>7, <1>8
  <2> HIDE DEF Least
  <2> QED
    BY <2>1, <2>2
<1> QED
  BY <1>2, <1>6, <1>14 DEF q, n

-----------------------------------------------------------------------------
(* The channel pool: the order of the candidates.                          *)
\* The candidates are the peaks of s, each once.
EachOnce(l, s) ==
    /\ l \in Cands
    /\ \A i \in 1 .. Len(l) : l[i].tone \in Pool!Peaks(s)
    /\ \A p \in Pool!Peaks(s) : \E i \in 1 .. Len(l) : l[i].tone = p
    /\ \A i, j \in 1 .. Len(l) : l[i].tone = l[j].tone => i = j

\* An exchange keeps the candidates.
LEMMA ExchangeKeeps ==
  ASSUME NEW l \in Cands, NEW i \in 1 .. Len(l), NEW j \in 1 .. Len(l), NEW s
  PROVE  LET r == Pool!Exchange(l, i, j)
         IN  /\ r \in Cands /\ Len(r) = Len(l)
             /\ EachOnce(l, s) => EachOnce(r, s)
<1> DEFINE n == Len(l)
           r == Pool!Exchange(l, i, j)
           x == [l EXCEPT ![i] = l[j], ![j] = l[i]]
           P == Pool!Peaks(s)
           At(k) == IF k = j THEN i ELSE IF k = i THEN j ELSE k
<1>1. n \in Nat /\ l \in [1 .. n -> Pool!Candidate]
  BY DEF Cands
<1>2. r = l \/ r = x
  BY DEF Pool!Exchange
<1>3. x \in [1 .. n -> Pool!Candidate] /\ \A k \in 1 .. n : x[k] = l[At(k)]
  <2> HIDE DEF n
  <2> QED
    BY <1>1 DEF n
<1>4. x \in Cands /\ Len(x) = n
  <2> HIDE DEF x, n
  <2> QED
    BY <1>1, <1>3 DEF Cands
<1>5. \A k \in 1 .. n : At(k) \in 1 .. n /\ At(At(k)) = k
  OBVIOUS
<1> HIDE DEF n, r, x, At, P
<1>6. ASSUME EachOnce(l, s) PROVE EachOnce(x, s)
  <2>1. /\ \A k \in 1 .. n : l[k].tone \in P
        /\ \A p \in P : \E k \in 1 .. n : l[k].tone = p
        /\ \A k, m \in 1 .. n : l[k].tone = l[m].tone => k = m
    BY <1>6 DEF EachOnce, n, P
  <2>2. \A k \in 1 .. n : x[k].tone \in P
    BY <1>3, <1>5, <2>1
  <2>3. ASSUME NEW p \in P PROVE \E k \in 1 .. n : x[k].tone = p
    <3>1. PICK k \in 1 .. n : l[k].tone = p
      BY <2>1
    <3>2. At(k) \in 1 .. n /\ x[At(k)] = l[k]
      BY <1>3, <1>5
    <3> QED
      BY <3>1, <3>2
  <2>4. ASSUME NEW k \in 1 .. n, NEW m \in 1 .. n, x[k].tone = x[m].tone PROVE k = m
    <3>1. At(k) \in 1 .. n /\ At(m) \in 1 .. n /\ l[At(k)].tone = l[At(m)].tone
      BY <1>3, <1>5, <2>4
    <3>2. At(k) = At(m)
      BY <2>1, <3>1
    <3> QED
      BY <1>5, <3>2
  <2> QED
    BY <1>4, <2>2, <2>3, <2>4 DEF EachOnce, P
<1>7. (r \in Cands /\ Len(r) = n) /\ (EachOnce(l, s) => EachOnce(r, s))
  BY <1>2, <1>4, <1>6 DEF n
<1> QED
  BY <1>7 DEF r, n

\* The pairs of the two loops are pairs of places.
LEMMA PairOf ==
  ASSUME NEW n \in Nat, NEW k \in 1 .. n * n
  PROVE  ((k - 1) \div n) + 1 \in 1 .. n /\ ((k - 1) % n) + 1 \in 1 .. n
<1> DEFINE a == k - 1
<1>1. n * n \in Nat /\ n # 0
  <2>1. n = 0 => n * n = 0
    OBVIOUS
  <2>2. n * n \in Nat
    OBVIOUS
  <2> QED
    BY <2>1, <2>2
<1>2. a \in Nat /\ a < n * n
  BY <1>1
<1> HIDE DEF a
<1> DEFINE d == a \div n
           m == a % n
<1>3. d \in Nat /\ m \in 0 .. n - 1 /\ a = n * d + m
  BY <1>1, <1>2
<1> HIDE DEF d, m
<1>4. d < n
  <2> SUFFICES ASSUME d >= n PROVE FALSE
    BY <1>3
  <2>1. n * d >= n * n
    <3>1. PICK e \in Nat : d = n + e
      <4>1. d - n \in Nat /\ d = n + (d - n)
        BY <1>3
      <4> QED
        BY <4>1
    <3>2. n * d = n * n + n * e /\ n * e \in Nat
      BY <3>1
    <3> QED
      BY <1>1, <3>2
  <2>2. n * d \in Nat
    BY <1>3
  <2> QED
    BY <1>1, <1>2, <1>3, <2>1, <2>2
<1> QED
  BY <1>1, <1>3, <1>4 DEF a, d, m

\* The sort keeps what is in the list.
LEMMA SortKeeps ==
  ASSUME NEW list \in Cands, NEW s
  PROVE  LET r == Pool!StrongestFirst(list)
         IN  /\ r \in Cands /\ Len(r) = Len(list)
             /\ EachOnce(list, s) => EachOnce(r, s)
<1> DEFINE n == Len(list)
           m == n * n
           S == {l \in Cands : Len(l) = n /\ (EachOnce(list, s) => EachOnce(l, s))}
           H(l, k) == Pool!Exchange(l, ((k - 1) \div n) + 1, ((k - 1) % n) + 1)
           F(f, k) == IF k = 0 THEN list ELSE H(f[k - 1], k)
           G == [k \in 1 .. m |-> [l \in S |-> H(l, k)]]
           D(h) == h = [k \in 0 .. m |-> F(h, k)]
           K == CHOOSE h : D(h)
<1>1. Pool!StrongestFirst(list) = K[m]
  BY DEF Pool!StrongestFirst
<1>2. n \in Nat /\ m \in Nat
  <2>1. n \in Nat
    BY DEF Cands
  <2> HIDE DEF n
  <2> QED
    BY <2>1
<1>3. \A f : F(f, 0) = list /\ \A k \in 1 .. m : F(f, k) = H(f[k - 1], k)
  <2>1. \A k \in 1 .. m : k # 0
    BY <1>2
  <2> HIDE DEF H, m
  <2> QED
    BY <2>1
<1>4. \A k \in 1 .. m : \A l \in S : H(l, k) \in S
  <2> SUFFICES ASSUME NEW k \in 1 .. m, NEW l \in S PROVE H(l, k) \in S
    OBVIOUS
  <2>1. l \in Cands /\ Len(l) = n /\ (EachOnce(list, s) => EachOnce(l, s))
    OBVIOUS
  <2> HIDE DEF S, n
  <2>2. ((k - 1) \div n) + 1 \in 1 .. n /\ ((k - 1) % n) + 1 \in 1 .. n
    BY <1>2, PairOf
  <2> DEFINE i == ((k - 1) \div n) + 1
             j == ((k - 1) % n) + 1
             v == Pool!Exchange(l, i, j)
  <2>3. v \in Cands /\ Len(v) = Len(l) /\ (EachOnce(l, s) => EachOnce(v, s))
    <3> HIDE DEF i, j
    <3>1. i \in 1 .. Len(l) /\ j \in 1 .. Len(l)
      BY <2>1, <2>2 DEF i, j
    <3> QED
      BY <2>1, <3>1, ExchangeKeeps
  <2> HIDE DEF v
  <2>4. v \in S
    BY <2>1, <2>3 DEF S
  <2> QED
    BY <2>4 DEF v
<1>5. list \in S
  OBVIOUS
<1> HIDE DEF m, F, H
<1>6. G \in [1 .. m -> [S -> S]]
  <2> HIDE DEF S
  <2> QED
    BY <1>4
<1>7. PICK g \in [0 .. m -> S] : Iterated(m, list, G, g)
  <2> HIDE DEF G, S
  <2> QED
    BY <1>2, <1>5, <1>6, Iterates
<1>8. g[0] = list /\ \A k \in 1 .. m : g[k] = H(g[k - 1], k)
  <2> HIDE DEF S
  <2>1. \A k \in 1 .. m : k - 1 \in 0 .. m /\ g[k - 1] \in S
    BY <1>2, <1>7
  <2>2. \A k \in 1 .. m : G[k][g[k - 1]] = H(g[k - 1], k)
    BY <2>1
  <2> HIDE DEF G
  <2> QED
    BY <1>7, <2>2 DEF Iterated
<1>9. D(g)
  <2>1. g = [k \in 0 .. m |-> g[k]]
    BY <1>7
  <2>2. \A k \in 0 .. m : k = 0 \/ k \in 1 .. m
    BY <1>2
  <2>3. \A k \in 0 .. m : g[k] = F(g, k)
    BY <1>3, <1>8, <2>2
  <2> HIDE DEF G, S
  <2> QED
    BY <2>1, <2>3
<1>10. D(K)
  <2> HIDE DEF D, G, S
  <2> QED
    BY <1>9
<1> HIDE DEF K, G
<1>11. \A k \in 0 .. m : K[k] = F(K, k)
  BY <1>10
<1>12. K[m] = g[m]
  <2>1. 0 \in 0 .. m /\ \A k \in 1 .. m : k \in 0 .. m
    BY <1>2
  <2>2. K[0] = g[0]
    BY <1>3, <1>8, <1>11, <2>1
  <2>3. \A k \in 1 .. m : K[k] = H(K[k - 1], k)
    BY <1>3, <1>11, <2>1
  <2> HIDE DEF D, S
  <2>4. \A k \in 1 .. m : K[k - 1] = g[k - 1] => K[k] = g[k]
    BY <1>8, <2>3
  <2> QED
    BY <1>2, <2>2, <2>4, SameIterates
<1>13. g[m] \in S
  <2> HIDE DEF S
  <2>1. m \in 0 .. m
    BY <1>2
  <2> QED
    BY <1>7, <2>1
<1> QED
  BY <1>1, <1>12, <1>13

\* What the candidates of a spectrum are.
LEMMA CandidatesAre ==
  ASSUME NEW s \in Spectra, NEW width \in Buckets, NEW md \in Modes
  PROVE  LET c == Pool!Candidates[s][width][md]
         IN  /\ c \in Cands /\ Len(c) <= MAX_DECODE_CHANNELS
             /\ RateRatio = 1 /\ md = Pool!Iq /\ Pool!Sparse(s) => EachOnce(c, s)
<1> DEFINE l == Pool!Merged(s, width, md)
           c == Pool!Candidates[s][width][md]
           q == SignalPeaks(s, Pool!Iq)
<1>1. c = Pool!StrongestFirst(l)
  BY DEF Pool!Candidates
<1>2. l \in Cands /\ Len(l) <= MAX_DECODE_CHANNELS
  <2>1. s \in [Pool!Bins -> Nat] /\ width \in Nat
    BY PoolConstants
  <2>2. PICK u \in [0 .. Len(Offered(s, md)) -> ShortLists] : l = u[Len(Offered(s, md))]
    BY <2>1, MergedList
  <2>3. Len(Offered(s, md)) \in 0 .. Len(Offered(s, md))
    <3>1. Offered(s, md) \in Cands
      BY <2>1, OfferedTyped
    <3>2. Len(Offered(s, md)) \in Nat
      BY <3>1 DEF Cands
    <3> QED
      BY <3>2
  <2> HIDE DEF l
  <2> QED
    BY <2>2, <2>3 DEF ShortLists
<1>3. ASSUME RateRatio = 1, md = Pool!Iq, Pool!Sparse(s) PROVE EachOnce(l, s)
  <2>1. ListsPeaks(q, s) /\ Tuned(l, q, Len(q))
    BY <1>3, MergedAre
  <2> HIDE DEF l, q
  <2>2. l \in Cands /\ Len(l) = Len(q) /\ \A i \in 1 .. Len(q) : l[i].tone = q[i]
    BY <2>1 DEF Tuned
  <2>3. /\ \A i \in 1 .. Len(q) : q[i] \in Pool!Peaks(s)
        /\ \A p \in Pool!Peaks(s) : \E i \in 1 .. Len(q) : q[i] = p
        /\ \A i, j \in 1 .. Len(q) : q[i] = q[j] => i = j
    BY <2>1 DEF ListsPeaks
  <2>4. /\ \A i \in 1 .. Len(l) : l[i].tone \in Pool!Peaks(s)
        /\ \A p \in Pool!Peaks(s) : \E i \in 1 .. Len(l) : l[i].tone = p
        /\ \A i, j \in 1 .. Len(l) : l[i].tone = l[j].tone => i = j
    BY <2>2, <2>3
  <2> QED
    BY <2>2, <2>4 DEF EachOnce
<1> HIDE DEF l, c
<1>4. c \in Cands /\ Len(c) = Len(l) /\ (EachOnce(l, s) => EachOnce(c, s))
  BY <1>1, <1>2, SortKeeps
<1>5. /\ c \in Cands /\ Len(c) <= MAX_DECODE_CHANNELS
      /\ RateRatio = 1 /\ md = Pool!Iq /\ Pool!Sparse(s) => EachOnce(c, s)
  BY <1>2, <1>3, <1>4
<1> QED
  BY <1>5 DEF c

-----------------------------------------------------------------------------
(* The channel pool: blocks.                                               *)
Feeds == [slot : 0 .. MAX_DECODE_CHANNELS, tone : Int]

Stages == {"none", "decodes", "marked", "resets", "spins"}

Entries == [active : BOOLEAN, centre : Int, tone : Int, age : 0 .. TIMEOUT + 1,
            thread : Stages, stop : BOOLEAN, named : BOOLEAN, late : BOOLEAN]

\* A channel in use has the frequency of its bucket.
OnTone == {e \in Entries : e.active => e.centre = e.tone}

Joinees == 0 .. MAX_DECODE_CHANNELS

PoolTypes ==
    /\ bucket \in Buckets /\ spec \in Spectra /\ mode \in Pool!EveryMode
    /\ pat \in {"wait", "serve", "expire"}
    /\ pcands \in Cands /\ Len(pcands) <= MAX_DECODE_CHANNELS
    /\ next \in 1 .. Len(pcands) + 1 /\ pfed \in Seq(Feeds)
    /\ slot \in Pool!Slots /\ joinee \in Joinees

Tunings(cs) == cs \in [Pool!Slots -> OnTone]

\* The candidates up to the next one were fed, in their order.
FedSoFar ==
    /\ Pool!SparseIq /\ pat # "wait" =>
          /\ EachOnce(pcands, spec) /\ Len(pfed) = next - 1
          /\ \A k \in 1 .. Len(pfed) : pfed[k].tone = pcands[k].tone
    /\ pat = "expire" => next = Len(pcands) + 1

PoolInv == PoolTypes /\ Tunings(chans) /\ FedSoFar

\* The invariant types the pool.
LEMMA PoolTyped == PoolInv => Pool!TypeOK
<1> SUFFICES ASSUME PoolInv PROVE Pool!TypeOK
  OBVIOUS
<1>1. chans \in [Pool!Slots -> Entries]
  BY DEF PoolInv, Tunings, OnTone
<1> QED
  BY <1>1 DEF PoolInv, PoolTypes, Pool!TypeOK, Entries, Stages, Joinees, Feeds, Cands

\* The pool has channels.
LEMMA HasSlots == Pool!Slots \subseteq Joinees /\ 1 \in Pool!Slots /\ 0 \in Joinees
BY PoolConstants DEF Pool!Slots, Joinees

\* What is not the tuning of a channel may change.
LEMMA FieldsChange ==
  ASSUME NEW e \in OnTone
  PROVE  /\ \A b \in BOOLEAN : /\ [e EXCEPT !.stop = b] \in OnTone
                               /\ [e EXCEPT !.named = b] \in OnTone
                               /\ [e EXCEPT !.late = b] \in OnTone
         /\ \A s \in Stages : [e EXCEPT !.thread = s] \in OnTone
         /\ \A n \in 0 .. TIMEOUT + 1 : [e EXCEPT !.age = n] \in OnTone
<1>1. ASSUME NEW b \in BOOLEAN PROVE [e EXCEPT !.stop = b] \in OnTone
  BY <1>1 DEF OnTone, Entries
<1>2. ASSUME NEW b \in BOOLEAN PROVE [e EXCEPT !.named = b] \in OnTone
  BY <1>2 DEF OnTone, Entries
<1>3. ASSUME NEW b \in BOOLEAN PROVE [e EXCEPT !.late = b] \in OnTone
  BY <1>3 DEF OnTone, Entries
<1>4. ASSUME NEW s \in Stages PROVE [e EXCEPT !.thread = s] \in OnTone
  BY <1>4 DEF OnTone, Entries
<1>5. ASSUME NEW n \in 0 .. TIMEOUT + 1 PROVE [e EXCEPT !.age = n] \in OnTone
  BY <1>5 DEF OnTone, Entries
<1> QED
  BY <1>1, <1>2, <1>3, <1>4, <1>5

\* A channel is tuned as a whole.
LEMMA TuneTyped ==
  ASSUME NEW e \in OnTone, NEW t \in Int
  PROVE  /\ [e EXCEPT !.centre = t, !.tone = t] \in OnTone
         /\ [e EXCEPT !.tone = t, !.centre = t] \in OnTone
         /\ [e EXCEPT !.tone = t, !.centre = t].tone = t
<1> DEFINE d == [e EXCEPT !.centre = t]
<1>1. d \in Entries /\ d.centre = t
  BY DEF OnTone, Entries
<1>2. [e EXCEPT !.centre = t, !.tone = t] = [d EXCEPT !.tone = t]
  OBVIOUS
<1> DEFINE c == [e EXCEPT !.tone = t]
<1>3. c \in Entries /\ c.tone = t
  BY DEF OnTone, Entries
<1>4. [e EXCEPT !.tone = t, !.centre = t] = [c EXCEPT !.centre = t]
  OBVIOUS
<1> HIDE DEF c, d
<1>5. [d EXCEPT !.tone = t] \in OnTone
  BY <1>1 DEF OnTone, Entries
<1>6. [c EXCEPT !.centre = t] \in OnTone /\ [c EXCEPT !.centre = t].tone = t
  BY <1>3 DEF OnTone, Entries
<1> QED
  BY <1>2, <1>4, <1>5, <1>6

\* A free channel is not in use.
LEMMA FreeTyped == Pool!Free \in OnTone /\ ~Pool!Free.active
<1>1. TIMEOUT + 1 \in 0 .. TIMEOUT + 1 /\ Pool!Dc \in Int
  BY PoolConstants DEF Pool!Dc
<1> QED
  BY <1>1 DEF Pool!Free, OnTone, Entries, Stages

\* Nor is one that was marked or is stopped.
LEMMA InactiveTyped ==
  ASSUME NEW e \in OnTone
  PROVE  Pool!Inactive(e) \in OnTone
<1>1. /\ e.thread \in Stages /\ e.stop \in BOOLEAN
      /\ e.named \in BOOLEAN /\ e.late \in BOOLEAN
  BY DEF OnTone, Entries
<1> DEFINE a == [Pool!Free EXCEPT !.thread = e.thread]
           b == [a EXCEPT !.stop = e.stop]
           c == [b EXCEPT !.named = e.named]
           d == [c EXCEPT !.late = e.late]
<1>2. Pool!Inactive(e) = d
  BY DEF Pool!Inactive
<1>3. a \in OnTone
  BY <1>1, FreeTyped, FieldsChange
<1>4. b \in OnTone
  <2> HIDE DEF a
  <2> QED
    BY <1>1, <1>3, FieldsChange
<1>5. c \in OnTone
  <2> HIDE DEF b
  <2> QED
    BY <1>1, <1>4, FieldsChange
<1>6. d \in OnTone
  <2> HIDE DEF c
  <2> QED
    BY <1>1, <1>5, FieldsChange
<1> QED
  BY <1>2, <1>6

\* A worker that is reset is tuned to nothing.
LEMMA ZeroedTyped ==
  ASSUME NEW e \in OnTone
  PROVE  Pool!Zeroed(e) \in OnTone
<1>1. TIMEOUT + 1 \in 0 .. TIMEOUT + 1 /\ Pool!Dc \in Int
  BY PoolConstants DEF Pool!Dc
<1> DEFINE a == [e EXCEPT !.stop = FALSE]
           b == [a EXCEPT !.centre = Pool!Dc, !.tone = Pool!Dc]
           c == [b EXCEPT !.age = TIMEOUT + 1]
<1>2. Pool!Zeroed(e) = c
  BY DEF Pool!Zeroed
<1>3. a \in OnTone
  BY FieldsChange
<1>4. b \in OnTone
  <2> HIDE DEF a
  <2> QED
    BY <1>1, <1>3, TuneTyped
<1>5. c \in OnTone
  <2> HIDE DEF b
  <2> QED
    BY <1>1, <1>4, FieldsChange
<1> QED
  BY <1>2, <1>5

\* One channel changes.
LEMMA OneTuned ==
  ASSUME Tunings(chans), NEW c \in Pool!Slots, NEW e \in OnTone
  PROVE  Tunings([chans EXCEPT ![c] = e])
BY DEF Tunings

\* Stopping a worker breaks no tuning.
LEMMA StopTunes ==
  ASSUME Tunings(chans), NEW c \in Pool!Slots, Pool!StopOf(c)
  PROVE  Tunings(chans') /\ joinee' = c
<1> DEFINE was == chans[c]
           i == Pool!Inactive(was)
           a == [i EXCEPT !.stop = TRUE]
           b == [a EXCEPT !.named = FALSE]
<1>1. joinee' = c /\ chans' = [chans EXCEPT ![c] = b]
  BY DEF Pool!StopOf
<1>2. was \in OnTone
  BY DEF Tunings
<1>3. i \in OnTone
  <2> HIDE DEF was
  <2> QED
    BY <1>2, InactiveTyped
<1>4. a \in OnTone
  <2> HIDE DEF i
  <2> QED
    BY <1>3, FieldsChange
<1>5. b \in OnTone
  <2> HIDE DEF a
  <2> QED
    BY <1>4, FieldsChange
<1> HIDE DEF b
<1> QED
  BY <1>1, <1>5, OneTuned

\* The invariant holds at the beginning.
LEMMA PoolStarts ==
  ASSUME Pool!Init
  PROVE  PoolInv
<1>1. /\ bucket \in Buckets /\ spec \in Spectra /\ mode = Pool!Iq /\ pat = "wait"
      /\ pcands = << >> /\ next = 1 /\ pfed = << >> /\ slot = 1 /\ joinee = 0
  BY DEF Pool!Init
<1>2. Tunings(chans)
  BY FreeTyped DEF Pool!Init, Tunings
<1>3. MAX_DECODE_CHANNELS \in Nat /\ Pool!Iq \in Pool!EveryMode
  BY PoolConstants, IqIs
<1> DEFINE e == << >>
<1>4. e \in Cands /\ e \in Seq(Feeds) /\ Len(e) = 0
  BY DEF Cands
<1>5. pcands = e /\ pfed = e
  BY <1>1
<1> HIDE DEF e
<1>6. PoolTypes
  BY <1>1, <1>3, <1>4, <1>5, HasSlots DEF PoolTypes
<1> QED
  BY <1>1, <1>2, <1>6 DEF PoolInv, FedSoFar

\* A new block has its candidates, and nothing was fed yet.
LEMMA NewBlockStep ==
  ASSUME RateRatio = 1, PoolInv, Pool!NewBlock
  PROVE  PoolInv'
<1> DEFINE c == Pool!Candidates[spec'][bucket][mode']
<1>1. /\ spec' \in Spectra /\ mode' \in Modes /\ pcands' = c /\ next' = 1
      /\ pfed' = << >> /\ pat' = "serve"
      /\ bucket' = bucket /\ chans' = chans /\ slot' = slot /\ joinee' = joinee
      /\ bucket \in Buckets
  BY PoolConstants DEF Pool!NewBlock, PoolInv, PoolTypes
<1>2. /\ c \in Cands /\ Len(c) <= MAX_DECODE_CHANNELS
      /\ mode' = Pool!Iq /\ Pool!Sparse(spec') => EachOnce(c, spec')
  BY <1>1, CandidatesAre
<1> HIDE DEF c
<1>3. Len(c) \in Nat /\ mode' \in Pool!EveryMode
  BY <1>1, <1>2, PoolConstants DEF Cands
<1> DEFINE e == << >>
<1>4. e \in Seq(Feeds) /\ Len(e) = 0
  OBVIOUS
<1>5. pfed' = e
  BY <1>1
<1> HIDE DEF e
<1>6. PoolTypes'
  BY <1>1, <1>2, <1>3, <1>4, <1>5 DEF PoolInv, PoolTypes
<1>7. FedSoFar'
  <2>1. Len(pfed)' = 0 /\ \A k \in 1 .. 0 : FALSE
    BY <1>4, <1>5
  <2>2. EachOnce(pcands, spec)' <=> EachOnce(c, spec')
    BY <1>1 DEF EachOnce
  <2>3. Pool!SparseIq' <=> (mode' = Pool!Iq /\ Pool!Sparse(spec'))
    BY DEF Pool!SparseIq
  <2> QED
    BY <1>1, <1>2, <2>1, <2>2, <2>3 DEF FedSoFar
<1>8. Tunings(chans)'
  BY <1>1 DEF PoolInv
<1> QED
  BY <1>6, <1>7, <1>8 DEF PoolInv

\* What one candidate does to the channels and to the list of who was fed.
Serves(r, cs, f) ==
    \/ r.snr < MinSnr /\ cs = chans /\ f = pfed
    \/ \E c \in Pool!Slots :
           /\ chans[c].active /\ Pool!SameBucket(chans[c].centre, r.tone, bucket)
           /\ cs = [chans EXCEPT ![c] = Pool!Recentre(chans[c], r)]
           /\ f = Append(pfed, [slot |-> c, tone |-> r.tone])
    \/ \E c \in Pool!Slots :
           /\ ~chans[c].active /\ cs = [chans EXCEPT ![c] = Pool!Opened(chans[c], r)]
           /\ f = Append(pfed, [slot |-> c, tone |-> r.tone])
    \/ cs = chans /\ f = Append(pfed, [slot |-> 0, tone |-> r.tone])

\* A candidate that is strong enough is fed to one channel, or to none.
LEMMA AcquireServes ==
  ASSUME NEW r, Pool!Acquire(r)
  PROVE  Serves(r, chans', pfed')
<1>1. Pool!Slots \subseteq Nat
  BY PoolConstants DEF Pool!Slots
<1>2. CASE r.snr < MinSnr /\ UNCHANGED <<chans, pfed>>
  BY <1>2 DEF Serves
<1>3. CASE /\ r.snr >= MinSnr /\ Pool!Matching(r.tone) # {}
           /\ chans' = [chans EXCEPT ![Pool!Min(Pool!Matching(r.tone))] = Pool!Recentre(@, r)]
           /\ Pool!Feed(Pool!Min(Pool!Matching(r.tone)), r.tone)
  <2> DEFINE M == Pool!Matching(r.tone)
             c == Pool!Min(M)
  <2>1. M \in SUBSET Nat /\ M # {}
    BY <1>1, <1>3 DEF Pool!Matching
  <2>2. c \in M
    <3> HIDE DEF M
    <3> QED
      BY <2>1, LeastOf
  <2>3. c \in Pool!Slots /\ chans[c].active /\ Pool!SameBucket(chans[c].centre, r.tone, bucket)
    <3> HIDE DEF c
    <3> QED
      BY <2>2 DEF Pool!Matching
  <2>4. /\ chans' = [chans EXCEPT ![c] = Pool!Recentre(chans[c], r)]
        /\ pfed' = Append(pfed, [slot |-> c, tone |-> r.tone])
    BY <1>3 DEF Pool!Feed
  <2> HIDE DEF c
  <2> QED
    BY <2>3, <2>4 DEF Serves
<1>4. CASE /\ r.snr >= MinSnr /\ Pool!Matching(r.tone) = {} /\ Pool!FreeSlots # {}
           /\ ~chans[Pool!Min(Pool!FreeSlots)].named
           /\ chans' = [chans EXCEPT ![Pool!Min(Pool!FreeSlots)] = Pool!Opened(@, r)]
           /\ Pool!Feed(Pool!Min(Pool!FreeSlots), r.tone)
  <2> DEFINE c == Pool!Min(Pool!FreeSlots)
  <2>1. Pool!FreeSlots \in SUBSET Nat
    BY <1>1 DEF Pool!FreeSlots
  <2>2. c \in Pool!FreeSlots
    BY <1>4, <2>1, LeastOf
  <2>3. c \in Pool!Slots /\ ~chans[c].active
    <3> HIDE DEF c
    <3> QED
      BY <2>2 DEF Pool!FreeSlots
  <2>4. /\ chans' = [chans EXCEPT ![c] = Pool!Opened(chans[c], r)]
        /\ pfed' = Append(pfed, [slot |-> c, tone |-> r.tone])
    BY <1>4 DEF Pool!Feed
  <2> HIDE DEF c
  <2> QED
    BY <2>3, <2>4 DEF Serves
<1>5. CASE /\ r.snr >= MinSnr /\ Pool!Matching(r.tone) = {}
           /\ Pool!FreeSlots # {} => ~chans[Pool!Min(Pool!FreeSlots)].named
           /\ UNCHANGED chans /\ Pool!Feed(0, r.tone)
  BY <1>5 DEF Serves, Pool!Feed
<1> QED
  BY <1>2, <1>3, <1>4, <1>5 DEF Pool!Acquire

\* A channel that goes on has the new frequency.
LEMMA RecentreTyped ==
  ASSUME NEW e \in OnTone, NEW r \in Pool!Candidate
  PROVE  Pool!Recentre(e, r) \in OnTone /\ Pool!Recentre(e, r).tone = r.tone
<1> DEFINE t == r.tone
           a == [e EXCEPT !.age = 0]
<1>1. t \in Int /\ 0 \in 0 .. TIMEOUT + 1
  BY PoolConstants DEF Pool!Candidate
<1>2. Pool!Recentre(e, r) = [a EXCEPT !.tone = t, !.centre = t]
  <2> HIDE DEF t
  <2>1. e \in Entries
    BY DEF OnTone
  <2>2. Pool!Recentre(e, r) = [e EXCEPT !.tone = t, !.age = 0, !.centre = t]
    BY DEF Pool!Recentre, t
  <2> QED
    BY <2>1, <2>2 DEF Entries
<1> HIDE DEF t
<1>3. a \in OnTone
  BY <1>1, FieldsChange
<1> HIDE DEF a
<1>4. /\ [a EXCEPT !.tone = t, !.centre = t] \in OnTone
      /\ [a EXCEPT !.tone = t, !.centre = t].tone = t
  BY <1>1, <1>3, TuneTyped
<1> QED
  BY <1>2, <1>4 DEF t

\* So has one that is opened.
LEMMA OpenedTyped ==
  ASSUME NEW e \in OnTone, NEW r \in Pool!Candidate
  PROVE  Pool!Opened(e, r) \in OnTone
<1> DEFINE b == e.late \/ e.thread = "resets"
<1>1. r.tone \in Int /\ 0 \in 0 .. TIMEOUT + 1 /\ b \in BOOLEAN
  BY PoolConstants DEF Pool!Candidate, OnTone, Entries
<1>2. Pool!Opened(e, r) = [active |-> TRUE, centre |-> r.tone, tone |-> r.tone, age |-> 0,
                           thread |-> "decodes", stop |-> FALSE, named |-> TRUE, late |-> b]
  BY DEF Pool!Opened
<1> HIDE DEF b
<1> QED
  BY <1>1, <1>2 DEF OnTone, Entries, Stages

\* It is fed with its own frequency, which its channel takes over.
LEMMA ServesTyped ==
  ASSUME Tunings(chans), pfed \in Seq(Feeds), NEW r \in Pool!Candidate, NEW cs, NEW f,
         Serves(r, cs, f)
  PROVE  /\ Tunings(cs) /\ f \in Seq(Feeds)
         /\ r.snr >= MinSnr => \E e : f = Append(pfed, e) /\ e \in Feeds /\ e.tone = r.tone
<1>1. r.tone \in Int /\ r.snr \in Nat /\ MinSnr \in Nat
  BY PoolConstants DEF Pool!Candidate
<1>2. ASSUME NEW c \in Joinees, f = Append(pfed, [slot |-> c, tone |-> r.tone])
      PROVE  /\ f \in Seq(Feeds)
             /\ \E e : f = Append(pfed, e) /\ e \in Feeds /\ e.tone = r.tone
  <2> DEFINE e == [slot |-> c, tone |-> r.tone]
  <2>1. f = Append(pfed, e) /\ e \in Feeds /\ e.tone = r.tone
    BY <1>1, <1>2 DEF Feeds, Joinees
  <2> HIDE DEF e
  <2> QED
    BY <2>1, AppendProperties
<1>3. CASE r.snr < MinSnr /\ cs = chans /\ f = pfed
  BY <1>1, <1>3
<1>4. CASE \E c \in Pool!Slots :
           /\ chans[c].active /\ Pool!SameBucket(chans[c].centre, r.tone, bucket)
           /\ cs = [chans EXCEPT ![c] = Pool!Recentre(chans[c], r)]
           /\ f = Append(pfed, [slot |-> c, tone |-> r.tone])
  <2>1. PICK c \in Pool!Slots :
          /\ cs = [chans EXCEPT ![c] = Pool!Recentre(chans[c], r)]
          /\ f = Append(pfed, [slot |-> c, tone |-> r.tone])
    BY <1>4
  <2>2. chans[c] \in OnTone
    BY DEF Tunings
  <2>3. Tunings(cs)
    BY <2>1, <2>2, RecentreTyped, OneTuned
  <2> QED
    BY <1>2, <2>1, <2>3, HasSlots
<1>5. CASE \E c \in Pool!Slots :
           /\ ~chans[c].active /\ cs = [chans EXCEPT ![c] = Pool!Opened(chans[c], r)]
           /\ f = Append(pfed, [slot |-> c, tone |-> r.tone])
  <2>1. PICK c \in Pool!Slots :
          /\ cs = [chans EXCEPT ![c] = Pool!Opened(chans[c], r)]
          /\ f = Append(pfed, [slot |-> c, tone |-> r.tone])
    BY <1>5
  <2>2. chans[c] \in OnTone
    BY DEF Tunings
  <2>3. Tunings(cs)
    BY <2>1, <2>2, OpenedTyped, OneTuned
  <2> QED
    BY <1>2, <2>1, <2>3, HasSlots
<1>6. CASE cs = chans /\ f = Append(pfed, [slot |-> 0, tone |-> r.tone])
  BY <1>2, <1>6, HasSlots
<1> QED
  BY <1>3, <1>4, <1>5, <1>6 DEF Serves

\* On a sparse band of an IQ stream the candidate that is served keeps its frequency.
LEMMA RefinedIs ==
  ASSUME PoolInv, pat = "serve", next <= Len(pcands)
  PROVE  /\ Pool!Refined \in Pool!Candidate
         /\ RateRatio = 1 /\ Pool!SparseIq =>
                /\ Pool!Refined.tone = pcands[next].tone /\ Pool!Refined.snr >= MinSnr
                /\ Pool!Refined.tone \in Pool!Peaks(spec)
<1>1. next \in 1 .. Len(pcands) /\ pcands \in Cands /\ spec \in Spectra
  <2>1. Len(pcands) \in Nat
    BY DEF PoolInv, PoolTypes, Cands
  <2> QED
    BY <2>1 DEF PoolInv, PoolTypes
<1>2. pcands[next] \in Pool!Candidate
  BY <1>1, ElementOfSeq DEF Cands
<1>3. pcands[next].tone \in Int
  BY <1>2 DEF Pool!Candidate
<1>4. spec \in [Pool!Bins -> Nat] /\ RateRatio \in Nat \ {0} /\ mode.single \in BOOLEAN
  <2>1. mode \in Pool!EveryMode
    BY DEF PoolInv, PoolTypes
  <2>2. mode.single \in BOOLEAN
    BY <2>1 DEF Pool!EveryMode
  <2> QED
    BY <1>1, <2>2, PoolConstants
<1>5. Pool!Refined \in Pool!Candidate
  BY <1>3, <1>4, RefineTyped DEF Pool!Refined
<1>6. ASSUME RateRatio = 1, Pool!SparseIq
      PROVE  /\ Pool!Refined.tone = pcands[next].tone /\ Pool!Refined.snr >= MinSnr
             /\ Pool!Refined.tone \in Pool!Peaks(spec)
  <2>1. Pool!Sparse(spec) /\ mode.single = FALSE
    BY <1>6, IqIs DEF Pool!SparseIq
  <2>2. pcands[next].tone \in Pool!Peaks(spec)
    <3>1. EachOnce(pcands, spec)
      BY <1>6 DEF PoolInv, FedSoFar
    <3> QED
      BY <1>1, <3>1 DEF EachOnce
  <2>3. /\ Pool!Refine(spec, FALSE, pcands[next].tone, 1).tone = pcands[next].tone
        /\ Pool!Refine(spec, FALSE, pcands[next].tone, 1).snr >= MinSnr
    BY <1>1, <1>6, <2>1, <2>2, RefineOwn
  <2>4. Pool!Refined = Pool!Refine(spec, FALSE, pcands[next].tone, 1)
    BY <1>6, <2>1 DEF Pool!Refined
  <2> QED
    BY <2>2, <2>3, <2>4
<1> QED
  BY <1>5, <1>6

\* When the spectrum is that of the samples a peak of an IQ stream refines to
\* itself, and every candidate of a sparse band is fed.
LEMMA ServeStep ==
  ASSUME RateRatio = 1, PoolInv, Pool!Serve
  PROVE  PoolInv'
<1> DEFINE m == Len(pfed)
           r == Pool!Refined
<1>1. /\ pat = "serve" /\ next <= Len(pcands) /\ Pool!Acquire(r) /\ next' = next + 1
      /\ bucket' = bucket /\ pat' = pat /\ spec' = spec /\ pcands' = pcands
      /\ mode' = mode /\ slot' = slot /\ joinee' = joinee
  BY DEF Pool!Serve, Pool!block
<1>2. /\ r \in Pool!Candidate
      /\ Pool!SparseIq => r.tone = pcands[next].tone /\ r.snr >= MinSnr
  BY <1>1, RefinedIs
<1> HIDE DEF r
<1>3. pfed \in Seq(Feeds) /\ m \in Nat
  BY DEF PoolInv, PoolTypes
<1>4. /\ Tunings(chans') /\ pfed' \in Seq(Feeds)
      /\ r.snr >= MinSnr => \E e : pfed' = Append(pfed, e) /\ e \in Feeds /\ e.tone = r.tone
  BY <1>1, <1>2, <1>3, AcquireServes, ServesTyped DEF PoolInv
<1>5. Len(pcands) \in Nat
  BY DEF PoolInv, PoolTypes, Cands
<1>6. PoolTypes'
  BY <1>1, <1>4, <1>5 DEF PoolInv, PoolTypes
<1>7. FedSoFar'
  <2>1. ASSUME Pool!SparseIq
        PROVE  Len(pfed') = next /\ \A k \in 1 .. next : pfed'[k].tone = pcands[k].tone
    <3>1. r.tone = pcands[next].tone /\ r.snr >= MinSnr
      BY <1>2, <2>1
    <3>2. m = next - 1 /\ \A k \in 1 .. m : pfed[k].tone = pcands[k].tone
      BY <1>1, <2>1 DEF PoolInv, FedSoFar
    <3>3. PICK e : pfed' = Append(pfed, e) /\ e \in Feeds /\ e.tone = r.tone
      BY <1>4, <3>1
    <3>4. /\ Len(pfed') = m + 1 /\ pfed'[m + 1] = e
          /\ \A k \in 1 .. m : pfed'[k] = pfed[k]
      BY <1>3, <3>3, AppendProperties
    <3>5. next = m + 1
      BY <3>2 DEF PoolInv, PoolTypes
    <3>6. ASSUME NEW k \in 1 .. m + 1 PROVE pfed'[k].tone = pcands[k].tone
      <4>1. CASE k = m + 1
        BY <3>1, <3>3, <3>4, <3>5, <4>1
      <4>2. CASE k \in 1 .. m
        BY <3>2, <3>4, <4>2
      <4> QED
        BY <1>3, <4>1, <4>2
    <3> QED
      BY <3>4, <3>5, <3>6
  <2>2. Pool!SparseIq => EachOnce(pcands, spec)
    BY <1>1 DEF PoolInv, FedSoFar
  <2>3. /\ Pool!SparseIq' <=> Pool!SparseIq
        /\ EachOnce(pcands, spec)' <=> EachOnce(pcands, spec)
    BY <1>1 DEF EachOnce, Pool!SparseIq
  <2>4. pat' # "expire" /\ next' - 1 = next
    BY <1>1 DEF PoolInv, PoolTypes
  <2> QED
    BY <1>1, <2>1, <2>2, <2>3, <2>4 DEF FedSoFar
<1> QED
  BY <1>4, <1>6, <1>7 DEF PoolInv

\* When the candidates are served all of them were fed.
LEMMA ServedStep ==
  ASSUME PoolInv, Pool!Served
  PROVE  PoolInv'
<1>1. /\ pat = "serve" /\ next > Len(pcands) /\ pat' = "expire" /\ slot' = 1
      /\ UNCHANGED <<bucket, chans, spec, mode, pcands, next, pfed, joinee>>
  BY DEF Pool!Served, Pool!block
<1>2. PoolTypes' /\ Tunings(chans)'
  BY <1>1, HasSlots DEF PoolInv, PoolTypes
<1>3. next = Len(pcands) + 1
  BY <1>1 DEF PoolInv, PoolTypes, Cands
<1>4. Pool!SparseIq' <=> Pool!SparseIq
  BY <1>1 DEF Pool!SparseIq
<1>5. FedSoFar'
  BY <1>1, <1>3, <1>4 DEF PoolInv, FedSoFar, EachOnce
<1> QED
  BY <1>2, <1>5 DEF PoolInv

\* When all the old channels are freed the block is forgotten.
LEMMA ExpiredStep ==
  ASSUME PoolInv, Pool!Expired
  PROVE  PoolInv'
<1>1. /\ pat' = "wait" /\ slot' = 1 /\ mode' = Pool!Iq
      /\ pcands' = << >> /\ next' = 1 /\ pfed' = << >>
      /\ UNCHANGED <<bucket, chans, spec, joinee>>
  BY DEF Pool!Expired
<1> DEFINE e == << >>
<1>2. e \in Cands /\ e \in Seq(Feeds) /\ Len(e) = 0
  BY DEF Cands
<1>3. pcands' = e /\ pfed' = e
  BY <1>1
<1> HIDE DEF e
<1>4. MAX_DECODE_CHANNELS \in Nat
  BY PoolConstants
<1>5. PoolTypes'
  BY <1>1, <1>2, <1>3, <1>4, HasSlots, IqIs DEF PoolInv, PoolTypes
<1>6. Tunings(chans)'
  BY <1>1 DEF PoolInv
<1>7. FedSoFar'
  BY <1>1 DEF FedSoFar
<1> QED
  BY <1>5, <1>6, <1>7 DEF PoolInv

\* A step that leaves the block alone.
LEMMA BlockKept ==
  ASSUME PoolInv, UNCHANGED <<spec, mode, pcands, next, pfed, pat>>,
         bucket' \in Buckets, slot' \in Pool!Slots, joinee' \in Joinees, Tunings(chans')
  PROVE  PoolInv'
<1>1. PoolTypes'
  BY DEF PoolInv, PoolTypes
<1>2. Pool!SparseIq' <=> Pool!SparseIq
  BY DEF Pool!SparseIq
<1>3. FedSoFar'
  BY <1>2 DEF PoolInv, FedSoFar, EachOnce
<1> QED
  BY <1>1, <1>3 DEF PoolInv

\* A thread retunes none of the channels.
LEMMA ThreadStep ==
  ASSUME PoolInv, NEW c \in Pool!Slots, NEW e \in OnTone, Pool!Thread(c, e)
  PROVE  PoolInv'
<1>1. /\ chans' = [chans EXCEPT ![c] = e]
      /\ UNCHANGED <<bucket, pat, spec, mode, pcands, next, pfed, slot, joinee>>
  BY DEF Pool!Thread, Pool!block
<1>2. /\ Tunings(chans') /\ bucket' \in Buckets
      /\ slot' \in Pool!Slots /\ joinee' \in Joinees
  BY <1>1, OneTuned DEF PoolInv, PoolTypes
<1> QED
  BY <1>1, <1>2, BlockKept

LEMMA ThreadSteps ==
  ASSUME PoolInv, NEW c \in Pool!Slots,
         \/ Pool!Exit(c) \/ Pool!Steady(c) \/ Pool!ReleaseBirdie(c)
         \/ Pool!Released(c) \/ Pool!ReleasedLate(c)
  PROVE  PoolInv'
<1> DEFINE was == chans[c]
<1>1. was \in OnTone
  BY DEF PoolInv, Tunings
<1> HIDE DEF was
<1>2. {"none", "marked", "resets", "spins"} \subseteq Stages
  BY DEF Stages
<1>3. Pool!Inactive(was) \in OnTone /\ Pool!Zeroed(was) \in OnTone
  BY <1>1, InactiveTyped, ZeroedTyped
<1>4. CASE Pool!Exit(c)
  <2> DEFINE e == [was EXCEPT !.thread = "none"]
  <2>1. Pool!Thread(c, e)
    BY <1>4 DEF Pool!Exit, was
  <2>2. e \in OnTone
    BY <1>1, <1>2, FieldsChange
  <2> HIDE DEF e
  <2> QED
    BY <2>1, <2>2, ThreadStep
<1>5. CASE Pool!Steady(c)
  <2> DEFINE i == Pool!Inactive(was)
             e == [i EXCEPT !.thread = "marked"]
  <2>1. Pool!Thread(c, e)
    BY <1>5 DEF Pool!Steady, was
  <2>2. e \in OnTone
    <3> HIDE DEF i
    <3>1. i \in OnTone
      BY <1>3 DEF i
    <3> QED
      BY <1>2, <3>1, FieldsChange
  <2> HIDE DEF e
  <2> QED
    BY <2>1, <2>2, ThreadStep
<1>6. CASE Pool!ReleaseBirdie(c)
  <2> DEFINE a == [was EXCEPT !.thread = "resets"]
             b == [a EXCEPT !.stop = TRUE]
             e == [b EXCEPT !.named = FALSE]
  <2>1. Pool!Thread(c, e)
    BY <1>6 DEF Pool!ReleaseBirdie, was
  <2>2. a \in OnTone
    BY <1>1, <1>2, FieldsChange
  <2>3. b \in OnTone
    <3> HIDE DEF a
    <3> QED
      BY <2>2, FieldsChange
  <2>4. e \in OnTone
    <3> HIDE DEF b
    <3> QED
      BY <2>3, FieldsChange
  <2> HIDE DEF e
  <2> QED
    BY <2>1, <2>4, ThreadStep
<1>7. CASE Pool!Released(c)
  <2> DEFINE z == Pool!Zeroed(was)
             e == [z EXCEPT !.thread = "spins"]
  <2>1. Pool!Thread(c, e)
    BY <1>7 DEF Pool!Released, was
  <2>2. e \in OnTone
    <3> HIDE DEF z
    <3>1. z \in OnTone
      BY <1>3 DEF z
    <3> QED
      BY <1>2, <3>1, FieldsChange
  <2> HIDE DEF e
  <2> QED
    BY <2>1, <2>2, ThreadStep
<1>8. CASE Pool!ReleasedLate(c)
  <2> DEFINE z == Pool!Zeroed(was)
             e == [z EXCEPT !.late = FALSE]
  <2>1. Pool!Thread(c, e)
    BY <1>8 DEF Pool!ReleasedLate, was
  <2>2. e \in OnTone
    <3> HIDE DEF z
    <3>1. z \in OnTone
      BY <1>3 DEF z
    <3> QED
      BY <3>1, FieldsChange
  <2> HIDE DEF e
  <2> QED
    BY <2>1, <2>2, ThreadStep
<1> QED
  BY <1>4, <1>5, <1>6, <1>7, <1>8

\* The loop stops a worker to join its thread.
LEMMA StopStep ==
  ASSUME PoolInv, NEW c \in Pool!Slots, Pool!StopOf(c), slot' \in Pool!Slots,
         UNCHANGED <<bucket, spec, mode, pcands, next, pfed, pat>>
  PROVE  PoolInv'
<1>1. Tunings(chans') /\ joinee' \in Joinees
  BY StopTunes, HasSlots DEF PoolInv
<1>2. bucket' \in Buckets
  BY DEF PoolInv, PoolTypes
<1> QED
  BY <1>1, <1>2, BlockKept

\* The clock ages the channels and retunes none.
LEMMA TickTunings ==
  ASSUME PoolInv, Pool!Tick
  PROVE  Tunings(chans')
<1>1. chans' = [c \in Pool!Slots |-> IF chans[c].active /\ chans[c].age <= TIMEOUT
                                     THEN [chans[c] EXCEPT !.age = @ + 1]
                                     ELSE chans[c]]
  BY DEF Pool!Tick
<1>2. ASSUME NEW c \in Pool!Slots PROVE chans'[c] \in OnTone
  <2> DEFINE was == chans[c]
             n == was.age + 1
  <2>1. was \in OnTone
    BY DEF PoolInv, Tunings
  <2>2. chans'[c] = IF was.active /\ was.age <= TIMEOUT THEN [was EXCEPT !.age = n] ELSE was
    BY <1>1
  <2> HIDE DEF was
  <2>3. ASSUME was.age <= TIMEOUT PROVE n \in 0 .. TIMEOUT + 1
    BY <2>1, <2>3, PoolConstants DEF OnTone, Entries
  <2> HIDE DEF n
  <2>4. ASSUME was.age <= TIMEOUT PROVE [was EXCEPT !.age = n] \in OnTone
    BY <2>1, <2>3, <2>4, FieldsChange
  <2> QED
    BY <2>1, <2>2, <2>4
<1>3. DOMAIN chans' = Pool!Slots /\ chans' = [c \in Pool!Slots |-> chans'[c]]
  BY <1>1
<1> QED
  BY <1>2, <1>3 DEF Tunings

\* Every step keeps the invariant.
LEMMA PoolStep ==
  ASSUME RateRatio = 1, PoolInv, [Pool!Next]_(Pool!vars)
  PROVE  PoolInv'
<1>1. /\ Tunings(chans) /\ bucket \in Buckets /\ slot \in Pool!Slots /\ joinee \in Joinees
      /\ Pool!Slots \subseteq Nat
  BY PoolConstants DEF PoolInv, PoolTypes, Pool!Slots
<1>2. CASE Pool!NewBlock
  BY <1>2, NewBlockStep
<1>3. CASE Pool!Serve
  BY <1>3, ServeStep
<1>4. CASE Pool!Served
  BY <1>4, ServedStep
<1>5. CASE Pool!Expired
  BY <1>5, ExpiredStep
<1>6. CASE Pool!ServeStop
  <2> DEFINE c == Pool!Min(Pool!FreeSlots)
  <2>1. /\ Pool!FreeSlots # {} /\ Pool!StopOf(c)
        /\ UNCHANGED <<bucket, spec, mode, pcands, next, pfed, pat, slot>>
    BY <1>6 DEF Pool!ServeStop, Pool!block
  <2>2. Pool!FreeSlots \in SUBSET Nat /\ Pool!FreeSlots \subseteq Pool!Slots
    BY <1>1 DEF Pool!FreeSlots
  <2>3. c \in Pool!Slots
    BY <2>1, <2>2, LeastOf
  <2> HIDE DEF c
  <2> QED
    BY <1>1, <2>1, <2>3, StopStep
<1>7. CASE Pool!ExpireStop
  <2> DEFINE c == Pool!Min(Pool!Due)
  <2>1. /\ Pool!Due # {} /\ Pool!StopOf(c) /\ slot' = c
        /\ UNCHANGED <<bucket, spec, mode, pcands, next, pfed, pat>>
    BY <1>7 DEF Pool!ExpireStop, Pool!block
  <2>2. Pool!Due \in SUBSET Nat /\ Pool!Due \subseteq Pool!Slots
    BY <1>1 DEF Pool!Due
  <2>3. c \in Pool!Slots
    BY <2>1, <2>2, LeastOf
  <2> HIDE DEF c
  <2> QED
    BY <2>1, <2>3, StopStep
<1>8. CASE Pool!ExpireJoin
  <2> DEFINE l == chans[joinee].late
             e == [Pool!Free EXCEPT !.late = l]
  <2>1. /\ chans' = [chans EXCEPT ![joinee] = e] /\ joinee' = 0 /\ joinee # 0
        /\ UNCHANGED <<bucket, spec, mode, pcands, next, pfed, pat, slot>>
    BY <1>8 DEF Pool!ExpireJoin, Pool!block
  <2>2. joinee \in Pool!Slots
    BY <1>1, <2>1, PoolConstants DEF Joinees, Pool!Slots
  <2>3. l \in BOOLEAN
    BY <1>1, <2>2 DEF Tunings, OnTone, Entries
  <2> HIDE DEF l
  <2>4. e \in OnTone
    BY <2>3, FreeTyped, FieldsChange
  <2> HIDE DEF e
  <2>5. Tunings(chans')
    BY <1>1, <2>1, <2>2, <2>4, OneTuned
  <2> QED
    BY <1>1, <2>1, <2>5, HasSlots, BlockKept
<1>9. CASE Pool!Tick
  <2>1. UNCHANGED <<bucket, spec, mode, pcands, next, pfed, pat, slot, joinee>>
    BY <1>9 DEF Pool!Tick, Pool!block
  <2> QED
    BY <1>1, <1>9, <2>1, TickTunings, BlockKept
<1>10. CASE \E c \in Pool!Slots :
              \/ Pool!Exit(c) \/ Pool!Steady(c) \/ Pool!ReleaseBirdie(c)
              \/ Pool!Released(c) \/ Pool!ReleasedLate(c)
  BY <1>10, ThreadSteps
<1>11. CASE \E b \in Buckets : Pool!SetBucket(b)
  <2>1. /\ bucket' \in Buckets
        /\ chans' = [c \in Pool!Slots |-> IF chans[c].thread = "spins"
                                          THEN [Pool!Free EXCEPT !.thread = "spins"]
                                          ELSE Pool!Free]
        /\ UNCHANGED <<pat, spec, mode, pcands, next, pfed, slot, joinee>>
    BY <1>11 DEF Pool!SetBucket, Pool!block
  <2> DEFINE e == [Pool!Free EXCEPT !.thread = "spins"]
  <2>2. e \in OnTone /\ Pool!Free \in OnTone
    BY FreeTyped, FieldsChange DEF Stages
  <2> HIDE DEF e
  <2>3. Tunings(chans')
    BY <2>1, <2>2 DEF Tunings, e
  <2> QED
    BY <1>1, <2>1, <2>3, BlockKept
<1>12. CASE UNCHANGED Pool!vars
  <2>1. UNCHANGED <<bucket, chans, pat, spec, mode, pcands, next, pfed, slot, joinee>>
    BY <1>12 DEF Pool!vars, Pool!block
  <2> QED
    BY <1>1, <2>1, BlockKept
<1> QED
  BY <1>2, <1>3, <1>4, <1>5, <1>6, <1>7, <1>8, <1>9, <1>10, <1>11, <1>12
     DEF Pool!Next, Pool!Loop, Pool!Unwind

\* When the last candidate is served each peak has been fed once.
LEMMA OncePerPeak == PoolInv => Pool!BlockServedOnce
<1> SUFFICES ASSUME PoolInv, pat = "expire", Pool!SparseIq,
                    NEW p \in Pool!Peaks(spec)
             PROVE  Pool!Cardinality({k \in DOMAIN pfed : pfed[k].tone = p}) = 1
  BY DEF Pool!BlockServedOnce
<1> DEFINE n == Len(pcands)
           K == {k \in DOMAIN pfed : pfed[k].tone = p}
<1>1. /\ EachOnce(pcands, spec) /\ Len(pfed) = next - 1 /\ next = n + 1 /\ n \in Nat
      /\ \A k \in 1 .. Len(pfed) : pfed[k].tone = pcands[k].tone
  BY DEF PoolInv, PoolTypes, FedSoFar, Cands
<1>2. DOMAIN pfed = 1 .. n
  <2>1. DOMAIN pfed = 1 .. Len(pfed)
    BY LenProperties DEF PoolInv, PoolTypes
  <2> QED
    BY <1>1, <2>1
<1>3. PICK i \in 1 .. n : pcands[i].tone = p
  BY <1>1 DEF EachOnce
<1>4. K = {i}
  <2>1. \A k \in 1 .. n : pfed[k].tone = pcands[k].tone
    BY <1>1, <1>2
  <2>2. \A k \in 1 .. n : pcands[k].tone = p => k = i
    BY <1>1, <1>3 DEF EachOnce
  <2> QED
    BY <1>2, <1>3, <2>1, <2>2
<1>5. Cardinality(K) = 1
  BY <1>4, FS_Singleton
<1> QED
  BY <1>5, PoolCounts

\* On a sparse band of an IQ stream a candidate that is served in a channel's
\* bucket is the station of the channel.
NotStolen ==
    (Pool!Serve \/ Pool!ServeStop) /\ Pool!SparseIq =>
        \A c \in Pool!Slots : chans[c].active /\ chans[c].tone \in Pool!Peaks(spec)
                              => chans'[c].tone = chans[c].tone

\* No candidate of a sparse band takes the channel of another station.
LEMMA NoneStolen ==
  ASSUME RateRatio = 1, PoolInv
  PROVE  NotStolen
<1> SUFFICES ASSUME Pool!Serve \/ Pool!ServeStop, Pool!SparseIq, NEW c \in Pool!Slots,
                    chans[c].active, chans[c].tone \in Pool!Peaks(spec)
             PROVE  chans'[c].tone = chans[c].tone
  BY DEF NotStolen
<1>1. /\ Tunings(chans) /\ bucket \in Buckets /\ spec \in Spectra
      /\ Pool!Slots \subseteq Nat
  BY PoolConstants DEF PoolInv, PoolTypes, Pool!Slots
<1>2. CASE Pool!Serve
  <2> DEFINE r == Pool!Refined
  <2>1. pat = "serve" /\ next <= Len(pcands) /\ Pool!Acquire(r)
    BY <1>2 DEF Pool!Serve
  <2>2. r \in Pool!Candidate /\ r.tone \in Pool!Peaks(spec)
    BY <2>1, RefinedIs
  <2> HIDE DEF r
  <2>3. Serves(r, chans', pfed')
    BY <2>1, AcquireServes
  <2>4. CASE chans' = chans
    BY <2>4
  <2>5. ASSUME NEW d \in Pool!Slots, chans[d].active,
               Pool!SameBucket(chans[d].centre, r.tone, bucket),
               chans' = [chans EXCEPT ![d] = Pool!Recentre(chans[d], r)]
        PROVE  chans'[c].tone = chans[c].tone
    <3>1. CASE d = c
      <4>1. chans[c].centre = chans[c].tone /\ chans[c] \in OnTone
        BY <1>1 DEF Tunings, OnTone
      <4>2. Pool!SameBucket(chans[c].tone, r.tone, bucket)
        BY <2>5, <3>1, <4>1
      <4>3. r.tone = chans[c].tone
        BY <1>1, <2>2, <4>2, OwnBucket DEF Pool!SparseIq
      <4>4. chans'[c] = Pool!Recentre(chans[c], r)
        BY <1>1, <2>5, <3>1 DEF Tunings
      <4>5. Pool!Recentre(chans[c], r).tone = r.tone
        BY <2>2, <4>1, RecentreTyped
      <4> QED
        BY <4>3, <4>4, <4>5
    <3>2. CASE d # c
      BY <1>1, <2>5, <3>2 DEF Tunings
    <3> QED
      BY <3>1, <3>2
  <2>6. ASSUME NEW d \in Pool!Slots, ~chans[d].active,
               chans' = [chans EXCEPT ![d] = Pool!Opened(chans[d], r)]
        PROVE  chans'[c].tone = chans[c].tone
    BY <1>1, <2>6 DEF Tunings
  <2> QED
    BY <2>3, <2>4, <2>5, <2>6 DEF Serves
<1>3. CASE Pool!ServeStop
  <2> DEFINE d == Pool!Min(Pool!FreeSlots)
  <2>1. Pool!FreeSlots # {} /\ Pool!StopOf(d)
    BY <1>3 DEF Pool!ServeStop
  <2>2. Pool!FreeSlots \in SUBSET Nat
    BY <1>1 DEF Pool!FreeSlots
  <2>3. d \in Pool!FreeSlots
    BY <2>1, <2>2, LeastOf
  <2> HIDE DEF d
  <2>4. d # c
    BY <2>3 DEF Pool!FreeSlots
  <2>5. \E e : chans' = [chans EXCEPT ![d] = e]
    BY <2>1 DEF Pool!StopOf
  <2> QED
    BY <1>1, <2>4, <2>5 DEF Tunings
<1> QED
  BY <1>2, <1>3

-----------------------------------------------------------------------------
\* What a behaviour does to the pool.
LEMMA PoolAlone ==
  /\ ChannelsInit => Pool!Init
  /\ [ChannelsNext]_all => [Pool!Next]_(Pool!vars)
<1>1. ChannelsInit => Pool!Init
  BY DEF ChannelsInit
<1>2. [ChannelsNext]_all => [Pool!Next]_(Pool!vars)
  BY DEF ChannelsNext, all, pool, Pool!vars, Pool!block
<1> QED
  BY <1>1, <1>2

\* On a sparse band of an IQ stream every peak of a block is given to one channel,
\* once, or finds the pool full, for any spectra, bucket widths, search ranges and
\* sizes of the pool: the search, merging, sorting, refining and looking for a
\* channel lose no station and feed none twice.  The spectrum is that of the
\* samples.  In real audio the refinement looks in another place.
THEOREM StationsAreServed ==
  ASSUME RateRatio = 1
  PROVE  ChannelsSpec => []StationsServed
<1>1. ChannelsInit => PoolInv
  BY PoolAlone, PoolStarts
<1>2. PoolInv /\ [ChannelsNext]_all => PoolInv'
  BY PoolAlone, PoolStep
<1>3. PoolInv => StationsServed
  BY PoolTyped, OncePerPeak DEF StationsServed
<1>4. ChannelsSpec => ChannelsInit /\ [][ChannelsNext]_all
  BY PTL DEF ChannelsSpec
<1> QED
  BY <1>1, <1>2, <1>3, <1>4, PTL

\* On a sparse band of an IQ stream a channel that is tuned to a peak is not retuned
\* to another one by the candidates that are served, whatever the channels, their
\* order and what their threads do.
THEOREM NoStationIsStolen ==
  ASSUME RateRatio = 1
  PROVE  ChannelsSpec => Pool!NoSteal
<1>1. ChannelsInit => PoolInv
  BY PoolAlone, PoolStarts
<1>2. PoolInv /\ [ChannelsNext]_all => PoolInv'
  BY PoolAlone, PoolStep
<1>3. ChannelsSpec => []PoolInv
  <2>1. ChannelsSpec => ChannelsInit /\ [][ChannelsNext]_all
    BY PTL DEF ChannelsSpec
  <2> QED
    BY <1>1, <1>2, <2>1, PTL
<1>4. PoolInv => [(Pool!Serve \/ Pool!ServeStop) /\ Pool!SparseIq =>
                    \A c \in Pool!Slots : chans[c].active /\ chans[c].tone \in Pool!Peaks(spec)
                                          => chans'[c].tone = chans[c].tone]_(Pool!vars)
  BY NoneStolen DEF NotStolen
<1> QED
  BY <1>3, <1>4, PTL DEF Pool!NoSteal
=============================================================================
