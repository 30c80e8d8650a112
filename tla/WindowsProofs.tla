----------------------------- MODULE WindowsProofs -----------------------------
(***************************************************************************)
(* The windows for any number of marks, columns, samples and clicks.  The  *)
(* signal trace: the decoder is given each sample with the time it came    *)
(* at, a recording is whole, and what is frozen stays.  The two decoders:  *)
(* what was keyed is shown in its order and once, and is not lost.         *)
(***************************************************************************)
EXTENDS Windows, SequenceTheorems, FiniteSetTheorems, WellFoundedInduction, TLAPS

Samples == [id : Nat, t : Int]
Entries == [id : Nat, t : Int, above : BOOLEAN, keyOf : Nat]
Feeds   == [sample : Samples, time : Int]

\* The times run along the samples, from their end on.
Along(q, times) ==
    /\ Len(q) <= Len(times)
    /\ \A i \in 1 .. Len(q) : q[i].t = times[Len(times) - Len(q) + i]

Fields(s) ==
    s \in [target : BOOLEAN, frozen : BOOLEAN, playing : BOOLEAN, recording : BOOLEAN,
           visible : BOOLEAN, samples : Seq(Samples), snapshot : Seq(Samples),
           times : Seq(Int), span : Spans, clock : Int, key : BOOLEAN, keyOf : Nat,
           last : Int, capture : Seq(Entries), saved : Seq(Entries), file : Seq(Int),
           index : Nat, start : Int, next : Nat, mixed : BOOLEAN]

\* The same, with names for the sets: a step that sets many fields is easier to
\* check when nothing is said about the elements of these sets.
Shape(B, QS, QE, QI, I, N) ==
    [target : B, frozen : B, playing : B, recording : B, visible : B, samples : QS,
     snapshot : QS, times : QI, span : Spans, clock : I, key : B, keyOf : N, last : I,
     capture : QE, saved : QE, file : QI, index : N, start : I, next : N, mixed : B]

Sizes(s) ==
    /\ Len(s.samples) <= s.span /\ (s.frozen => Len(s.snapshot) <= s.span)
    /\ Len(s.capture) <= kMaxCaptureSamples
    /\ s.playing => s.index <= Len(s.file)

\* Samples and times belong together, unless a freeze mixed them up: a playback
\* goes on while the plot is frozen.
Joined(s) ==
    /\ s.frozen /\ s.playing => s.mixed
    /\ ~s.mixed => Along(Shown(s), s.times)

Gapless(s) ==
    /\ Whole(s.capture) /\ Whole(s.saved)
    /\ s.recording /\ s.capture # << >> => s.capture[Len(s.capture)].id = s.next - 1

Sound(s) == Fields(s) /\ Sizes(s) /\ Joined(s) /\ Gapless(s)

\* What was given to the decoder since state s.
Timely(s, f) == /\ f \in Seq(Feeds)
                /\ ~s.mixed => \A i \in 1 .. Len(f) : f[i].time = f[i].sample.t

IInv == /\ Sound(scope) /\ Timely(scope, fed)
        /\ wall \in 0 .. MaxWall /\ asks \in 0 .. MaxAsks

-------------------------------------------------------------------------------
(* Lists.                                                                    *)
LEMMA TrimIs ==
  ASSUME NEW S, NEW q \in Seq(S), NEW n \in Nat
  PROVE  /\ trimToMax(q, n) \in Seq(S)
         /\ Len(trimToMax(q, n)) = IF Len(q) > n THEN n ELSE Len(q)
         /\ \A i \in 1 .. Len(trimToMax(q, n)) :
               trimToMax(q, n)[i] = q[Len(q) - Len(trimToMax(q, n)) + i]
<1>1. CASE Len(q) > n
  <2>1. trimToMax(q, n) = SubSeq(q, Len(q) - n + 1, Len(q))
    BY <1>1 DEF trimToMax, Newest
  <2>2. Len(q) \in Nat /\ Len(q) - n + 1 \in 1 .. Len(q) + 1
    BY <1>1
  <2> DEFINE r == SubSeq(q, Len(q) - n + 1, Len(q))
  <2>3. r \in Seq(S) /\ Len(r) = n
    BY <1>1, <2>2
  <2>4. \A i \in 1 .. n : r[i] = q[Len(q) - n + i]
    BY <1>1, <2>2
  <2> QED
    BY <1>1, <2>1, <2>3, <2>4
<1>2. CASE ~(Len(q) > n)
  BY <1>2 DEF trimToMax
<1> QED
  BY <1>1, <1>2

\* Trimming either list, or one to the length of the other, keeps them together.
LEMMA TrimAlong ==
  ASSUME NEW q \in Seq(Samples), NEW ts \in Seq(Int), Along(q, ts), NEW n \in Nat
  PROVE  /\ Along(trimToMax(q, n), ts)
         /\ Along(trimToMax(q, n), trimToMax(ts, n))
<1> DEFINE p == trimToMax(q, n)
           us == trimToMax(ts, n)
<1>1. /\ p \in Seq(Samples) /\ Len(p) = IF Len(q) > n THEN n ELSE Len(q)
      /\ \A i \in 1 .. Len(p) : p[i] = q[Len(q) - Len(p) + i]
  BY TrimIs
<1>2. /\ us \in Seq(Int) /\ Len(us) = IF Len(ts) > n THEN n ELSE Len(ts)
      /\ \A i \in 1 .. Len(us) : us[i] = ts[Len(ts) - Len(us) + i]
  BY TrimIs
<1> HIDE DEF p, us
<1>3. Len(q) \in Nat /\ Len(ts) \in Nat /\ Len(p) \in Nat /\ Len(us) \in Nat
  BY <1>1, <1>2
<1>4. Len(q) <= Len(ts) /\ Len(p) <= Len(q) /\ Len(p) <= Len(us)
  BY <1>1, <1>2, <1>3 DEF Along
<1>5. ASSUME NEW i \in 1 .. Len(p)
      PROVE  p[i].t = ts[Len(ts) - Len(p) + i] /\ p[i].t = us[Len(us) - Len(p) + i]
  <2>1. Len(q) - Len(p) + i \in 1 .. Len(q)
    BY <1>3, <1>4
  <2>2. p[i].t = ts[Len(ts) - Len(q) + (Len(q) - Len(p) + i)]
    BY <1>1, <2>1 DEF Along
  <2>3. Len(ts) - Len(q) + (Len(q) - Len(p) + i) = Len(ts) - Len(p) + i
    BY <1>3
  <2>4. /\ Len(us) - Len(p) + i \in 1 .. Len(us)
        /\ Len(ts) - Len(us) + (Len(us) - Len(p) + i) = Len(ts) - Len(p) + i
    BY <1>3, <1>4
  <2> QED
    BY <1>2, <2>2, <2>3, <2>4
<1> QED
  BY <1>3, <1>4, <1>5 DEF Along, p, us

LEMMA AppendAlong ==
  ASSUME NEW q \in Seq(Samples), NEW ts \in Seq(Int), Along(q, ts),
         NEW x \in Samples, NEW now, x.t = now
  PROVE  Along(Append(q, x), Append(ts, now))
<1> DEFINE p == Append(q, x)
           us == Append(ts, now)
<1>1. /\ Len(q) \in Nat /\ Len(ts) \in Nat /\ Len(q) <= Len(ts)
      /\ \A i \in 1 .. Len(q) : q[i].t = ts[Len(ts) - Len(q) + i]
  BY DEF Along
<1>2. /\ Len(p) = Len(q) + 1 /\ Len(us) = Len(ts) + 1
      /\ p[Len(q) + 1] = x /\ us[Len(ts) + 1] = now
      /\ \A i \in 1 .. Len(q) : p[i] = q[i]
      /\ \A i \in 1 .. Len(ts) : us[i] = ts[i]
  OBVIOUS
<1> HIDE DEF p, us
<1>3. ASSUME NEW i \in 1 .. Len(p)
      PROVE  p[i].t = us[Len(us) - Len(p) + i]
  <2>1. CASE i = Len(q) + 1
    <3>1. Len(us) - Len(p) + i = Len(ts) + 1
      BY <1>1, <1>2, <2>1
    <3> QED
      BY <1>2, <2>1, <3>1
  <2>2. CASE i \in 1 .. Len(q)
    <3>1. Len(us) - Len(p) + i = Len(ts) - Len(q) + i /\ Len(ts) - Len(q) + i \in 1 .. Len(ts)
      BY <1>1, <1>2, <2>2
    <3> QED
      BY <1>1, <1>2, <2>2, <3>1
  <2>3. i = Len(q) + 1 \/ i \in 1 .. Len(q)
    BY <1>1, <1>2
  <2> QED
    BY <2>1, <2>2, <2>3
<1>4. Along(p, us)
  BY <1>1, <1>2, <1>3 DEF Along
<1> QED
  BY <1>4 DEF p, us

\* Times that are trimmed to the length of the samples run along them one by one.
LEMMA TrimToLength ==
  ASSUME NEW q \in Seq(Samples), NEW ts \in Seq(Int), Along(q, ts)
  PROVE  /\ Along(q, trimToMax(ts, Len(q))) /\ Len(trimToMax(ts, Len(q))) = Len(q)
         /\ \A i \in 1 .. Len(q) : trimToMax(ts, Len(q))[i] = q[i].t
<1> DEFINE us == trimToMax(ts, Len(q))
<1>1. Len(q) \in Nat /\ Len(ts) \in Nat
  OBVIOUS
<1>2. /\ us \in Seq(Int) /\ Len(us) = Len(q)
      /\ \A i \in 1 .. Len(us) : us[i] = ts[Len(ts) - Len(us) + i]
  BY <1>1, TrimIs DEF Along
<1> HIDE DEF us
<1>3. \A i \in 1 .. Len(q) : us[i] = q[i].t
  BY <1>2 DEF Along
<1>4. \A i \in 1 .. Len(q) : Len(us) - Len(q) + i = i
  BY <1>1, <1>2
<1> QED
  BY <1>1, <1>2, <1>3, <1>4 DEF us, Along
-------------------------------------------------------------------------------
(* A sample comes.                                                           *)
LEMMA SpanNat == Spans \subseteq Nat \ {0} /\ Longest \in Spans /\ FirstSpan \in Spans
                 /\ kMaxCaptureSamples \in Nat \ {0} /\ MaxPerTick \in Nat \ {0}
                 /\ {MaxSamples, MaxAsks, MaxStart, MaxWall} \subseteq Nat
                 /\ Histories \subseteq Nat
BY WindowsAssumption DEF TraceAssumption, Longest

\* The plot takes the sample, or is frozen.
LEMMA PlotTakes ==
  ASSUME NEW s, Sound(s), NEW x \in Samples
  PROVE  LET p == plotAppend(s, x) IN
         /\ Fields(p) /\ p = [s EXCEPT !.samples = p.samples]
         /\ Len(p.samples) <= s.span
         /\ s.frozen => p = s
         /\ ~s.frozen => p.samples = trimToMax(Append(s.samples, x), s.span)
<1> DEFINE q == trimToMax(Append(s.samples, x), s.span)
<1>1. s.samples \in Seq(Samples) /\ s.span \in Nat /\ Append(s.samples, x) \in Seq(Samples)
  <2>1. s.samples \in Seq(Samples) /\ s.span \in Spans
    BY DEF Sound, Fields
  <2>2. s.span \in Nat
    BY <2>1, SpanNat
  <2>3. Append(s.samples, x) \in Seq(Samples)
    BY <2>1
  <2> QED
    BY <2>1, <2>2, <2>3
<1>2. q \in Seq(Samples) /\ Len(q) <= s.span
  <2>1. q \in Seq(Samples) /\ Len(q) = IF Len(Append(s.samples, x)) > s.span THEN s.span
                                       ELSE Len(Append(s.samples, x))
    BY <1>1, TrimIs
  <2>2. Len(Append(s.samples, x)) \in Nat
    BY <1>1
  <2> QED
    BY <1>1, <2>1, <2>2
<1> HIDE DEF q
<1>3. CASE s.frozen
  BY <1>3 DEF plotAppend, Sound, Fields, Sizes
<1>4. CASE ~s.frozen
  <2>1. plotAppend(s, x) = [s EXCEPT !.samples = q]
    BY <1>4 DEF plotAppend, q
  <2>2. Fields([s EXCEPT !.samples = q]) /\ [s EXCEPT !.samples = q].samples = q
    BY <1>2 DEF Sound, Fields
  <2> QED
    BY <1>2, <1>4, <2>1, <2>2 DEF q
<1> QED
  BY <1>3, <1>4

\* What follows a sample, for lists that are already there.
Takes(p, now, ts, time, key, of, c) ==
    [p EXCEPT !.next = @ + 1, !.clock = now + 1, !.times = ts,
              !.last = time, !.key = key, !.keyOf = of, !.capture = c]

Takeable(p, now, ts, time, key, of, c) ==
    /\ Fields(p) /\ now \in Int /\ ts \in Seq(Int) /\ time \in Int
    /\ key \in BOOLEAN /\ of \in Nat /\ c \in Seq(Entries)

Follows(u, p, ts, c) ==
    /\ Fields(u) /\ u.next = p.next + 1 /\ u.times = ts /\ u.capture = c
    /\ u.samples = p.samples /\ u.snapshot = p.snapshot /\ u.span = p.span
    /\ u.frozen = p.frozen /\ u.playing = p.playing /\ u.recording = p.recording
    /\ u.saved = p.saved /\ u.file = p.file /\ u.index = p.index
    /\ u.start = p.start /\ u.mixed = p.mixed

LEMMA StateTakes ==
  ASSUME NEW p, NEW now, NEW ts, NEW time, NEW key, NEW of, NEW c,
         Takeable(p, now, ts, time, key, of, c)
  PROVE  Follows(Takes(p, now, ts, time, key, of, c), p, ts, c)
<1> DEFINE u == Takes(p, now, ts, time, key, of, c)
<1> USE DEF Takeable
<1>1. Fields(u)
  <2>1. p.next + 1 \in Nat /\ now + 1 \in Int
    BY DEF Fields
  <2> DEFINE B == BOOLEAN
             QS == Seq(Samples)
             QE == Seq(Entries)
             QI == Seq(Int)
             I == Int
             N == Nat
             R == [target : B, frozen : B, playing : B, recording : B, visible : B,
                   samples : QS, snapshot : QS, times : QI, span : Spans, clock : I,
                   key : B, keyOf : N, last : I, capture : QE, saved : QE, file : QI,
                   index : N, start : I, next : N, mixed : B]
  <2>2. /\ p \in R /\ ts \in QI /\ time \in I /\ key \in B /\ of \in N /\ c \in QE
        /\ p.next + 1 \in N /\ now + 1 \in I
    BY <2>1 DEF Fields
  <2>3. u \in R
    <3> USE DEF Takes
    <3> HIDE DEF B, QS, QE, QI, I, N
    <3> QED
      BY <2>2
  <2> QED
    BY <2>3 DEF Fields
<1>2. /\ u.next = p.next + 1 /\ u.times = ts /\ u.capture = c
      /\ u.samples = p.samples /\ u.snapshot = p.snapshot /\ u.span = p.span
      /\ u.frozen = p.frozen /\ u.playing = p.playing /\ u.recording = p.recording
      /\ u.saved = p.saved /\ u.file = p.file /\ u.index = p.index
      /\ u.start = p.start /\ u.mixed = p.mixed
  BY DEF Fields, Takes
<1> QED
  BY <1>1, <1>2 DEF Follows
\* The sample is taken, recorded and, half a span later, given to the decoder.
LEMMA AppendSound ==
  ASSUME NEW s, Sound(s), s.frozen => s.playing, NEW t \in Int, NEW wantHigh \in BOOLEAN
  PROVE  LET r == appendSample(s, t, wantHigh) IN
         /\ Sound(r.state) /\ Timely(r.state, r.fed)
         /\ r.state.frozen = s.frozen /\ r.state.snapshot = s.snapshot
         /\ r.state.mixed = s.mixed /\ r.state.playing = s.playing
         /\ r.state.file = s.file /\ r.state.index = s.index /\ r.state.start = s.start
<1> DEFINE now   == IF t >= 0 THEN t ELSE IF s.clock < 0 THEN 0 ELSE s.clock
           x     == [id |-> s.next, t |-> now]
           plot  == plotAppend(s, x)
           times == sampleTimes(plot, Append(s.times, now))
           mid   == midSampleIndex(plot)
           time  == IF mid \in 1 .. Len(times) THEN times[mid] ELSE now
           isNew == mid >= 1 /\ time # s.last
           key   == IF isNew THEN wantHigh ELSE s.key
           of    == IF isNew THEN Shown(plot)[mid].id ELSE s.keyOf
           last  == IF isNew THEN time ELSE plot.last
           entry == [id |-> s.next, t |-> now, above |-> key, keyOf |-> of]
           taken == IF s.recording
                    THEN trimToMax(Append(plot.capture, entry), kMaxCaptureSamples)
                    ELSE plot.capture
           u     == [plot EXCEPT !.next = @ + 1, !.clock = now + 1, !.times = times,
                                 !.last = last, !.key = key, !.keyOf = of, !.capture = taken]
           f     == IF isNew THEN << [sample |-> Shown(plot)[mid], time |-> time] >> ELSE << >>
<1>1. appendSample(s, t, wantHigh) = [state |-> u, fed |-> f]
  BY DEF appendSample
<1>2. now \in Int /\ x \in Samples /\ x.t = now /\ x.id = s.next
  BY DEF Sound, Fields, Samples
<1>3. /\ Fields(plot) /\ plot = [s EXCEPT !.samples = plot.samples]
      /\ Len(plot.samples) <= s.span
      /\ s.frozen => plot = s
      /\ ~s.frozen => plot.samples = trimToMax(Append(s.samples, x), s.span)
  BY <1>2, PlotTakes
<1>4. /\ plot.next = s.next /\ plot.capture = s.capture /\ plot.last = s.last
      /\ plot.snapshot = s.snapshot /\ plot.span = s.span /\ plot.frozen = s.frozen
      /\ plot.playing = s.playing /\ plot.recording = s.recording /\ plot.saved = s.saved
      /\ plot.file = s.file /\ plot.index = s.index /\ plot.start = s.start
      /\ plot.mixed = s.mixed
  <2> DEFINE q == plot.samples
  <2>1. plot = [s EXCEPT !.samples = q] /\ Fields(s)
    BY <1>3 DEF Sound
  <2> HIDE DEF q, plot
  <2> QED
    BY <2>1 DEF Fields
<1>5. /\ s.span \in Nat \ {0} /\ s.times \in Seq(Int) /\ s.next \in Nat /\ s.last \in Int
      /\ s.key \in BOOLEAN /\ s.keyOf \in Nat /\ s.capture \in Seq(Entries)
      /\ s.samples \in Seq(Samples) /\ s.snapshot \in Seq(Samples)
  <2>1. s.span \in Spans
    BY DEF Sound, Fields
  <2>2. s.span \in Nat \ {0}
    BY <2>1, SpanNat
  <2> QED
    BY <2>2 DEF Sound, Fields
<1> HIDE DEF now, x, plot
<1>6. /\ Shown(plot) \in Seq(Samples) /\ Len(Shown(plot)) \in Nat
      /\ Len(Shown(plot)) <= s.span
  <2>1. plot.samples \in Seq(Samples) /\ plot.snapshot \in Seq(Samples)
    BY <1>3 DEF Fields
  <2>2. plot.frozen => Len(plot.snapshot) <= s.span
    BY <1>4 DEF Sound, Sizes
  <2> QED
    BY <1>3, <2>1, <2>2 DEF Shown
<1> DEFINE given == Append(s.times, now)
           held  == trimToMax(given, s.span)
<1>7. /\ given \in Seq(Int) /\ held \in Seq(Int) /\ times \in Seq(Int)
      /\ times = trimToMax(held, Len(Shown(plot)))
  <2>1. given \in Seq(Int)
    BY <1>2, <1>5
  <2>2. held \in Seq(Int)
    BY <1>5, <2>1, TrimIs
  <2>3. times = trimToMax(held, Len(Shown(plot)))
    BY <1>4 DEF sampleTimes
  <2> QED
    BY <1>6, <2>1, <2>2, <2>3, TrimIs
<1>8. ~s.mixed => /\ Along(Shown(plot), times) /\ Len(times) = Len(Shown(plot))
                  /\ \A i \in 1 .. Len(Shown(plot)) : times[i] = Shown(plot)[i].t
  <2> SUFFICES ASSUME ~s.mixed
               PROVE  /\ Along(Shown(plot), times) /\ Len(times) = Len(Shown(plot))
                      /\ \A i \in 1 .. Len(Shown(plot)) : times[i] = Shown(plot)[i].t
    OBVIOUS
  <2>1. Along(s.samples, s.times) /\ ~s.frozen
    BY DEF Sound, Joined, Shown
  <2>2. Along(Append(s.samples, x), given) /\ Append(s.samples, x) \in Seq(Samples)
    BY <1>2, <1>5, <2>1, AppendAlong
  <2>3. Along(trimToMax(Append(s.samples, x), s.span), held)
    <3> HIDE DEF given
    <3> QED
      BY <1>5, <1>7, <2>2, TrimAlong DEF held
  <2>4. Along(Shown(plot), held)
    BY <1>3, <1>4, <2>1, <2>3 DEF Shown
  <2> HIDE DEF held, times
  <2> QED
    BY <1>6, <1>7, <2>4, TrimToLength
<1> HIDE DEF given, held, times
<1>9. /\ mid \in Int /\ mid <= Len(Shown(plot))
  <2>1. plot.span \in Nat \ {0}
    BY <1>4, <1>5
  <2>2. (plot.span + 1) \div 2 \in Nat
    BY <2>1
  <2> QED
    BY <1>6, <2>1, <2>2 DEF midSampleIndex
<1> HIDE DEF mid
<1>10. time \in Int
  BY <1>2, <1>7
<1>11. isNew => /\ mid \in 1 .. Len(Shown(plot)) /\ Shown(plot)[mid] \in Samples
                /\ ~s.mixed => time = Shown(plot)[mid].t
  BY <1>6, <1>8, <1>9
<1> HIDE DEF time
<1>12. isNew \in BOOLEAN
  OBVIOUS
<1> HIDE DEF isNew
<1>13. key \in BOOLEAN /\ of \in Nat /\ last \in Int /\ entry \in Entries
  <2>1. key \in BOOLEAN
    BY <1>5
  <2>2. of \in Nat
    BY <1>5, <1>11 DEF Samples
  <2>3. last \in Int
    BY <1>4, <1>5, <1>10
  <2> HIDE DEF key, of
  <2>4. entry \in Entries
    BY <1>2, <1>5, <2>1, <2>2 DEF Entries
  <2> QED
    BY <2>1, <2>2, <2>3, <2>4
<1>14. /\ f \in Seq(Feeds)
       /\ ~s.mixed => \A i \in 1 .. Len(f) : f[i].time = f[i].sample.t
  <2>1. CASE isNew
    <3> DEFINE e == [sample |-> Shown(plot)[mid], time |-> time]
    <3>1. e \in Feeds /\ (~s.mixed => e.time = e.sample.t)
      BY <1>10, <1>11, <2>1 DEF Feeds
    <3> HIDE DEF e
    <3>2. << e >> \in Seq(Feeds) /\ Len(<< e >>) = 1 /\ << e >>[1] = e
      BY <3>1
    <3>3. f = << e >>
      BY <2>1 DEF e
    <3> QED
      BY <3>1, <3>2, <3>3
  <2>2. CASE ~isNew
    BY <2>2
  <2> QED
    BY <2>1, <2>2
<1> HIDE DEF f
<1>15. entry.id = s.next
  OBVIOUS
<1> HIDE DEF key, of, last, entry
<1>16. /\ taken \in Seq(Entries) /\ Len(taken) <= kMaxCaptureSamples
       /\ Whole(taken)
       /\ s.recording /\ taken # << >> => taken[Len(taken)].id = s.next
  <2>1. CASE ~s.recording
    BY <1>4, <1>5, <2>1 DEF Sound, Sizes, Gapless
  <2>2. CASE s.recording
    <3> DEFINE c == Append(s.capture, entry)
    <3>1. Len(s.capture) \in Nat /\ kMaxCaptureSamples \in Nat \ {0}
      BY <1>5, SpanNat
    <3>2. /\ c \in Seq(Entries) /\ Len(c) = Len(s.capture) + 1 /\ c[Len(c)] = entry
          /\ \A i \in 1 .. Len(s.capture) : c[i] = s.capture[i]
      BY <1>5, <1>13
    <3> HIDE DEF c
    <3>3. \A i \in 1 .. Len(c) - 1 : c[i + 1].id = c[i].id + 1
      <4> SUFFICES ASSUME NEW i \in 1 .. Len(c) - 1 PROVE c[i + 1].id = c[i].id + 1
        OBVIOUS
      <4>1. CASE i = Len(s.capture)
        <5>1. s.capture # << >> /\ s.capture[Len(s.capture)].id = s.next - 1
          BY <1>5, <2>2, <3>1, <3>2, <4>1 DEF Sound, Gapless
        <5>2. c[i + 1] = entry /\ c[i] = s.capture[Len(s.capture)]
          BY <3>1, <3>2, <4>1
        <5> QED
          BY <1>5, <1>15, <5>1, <5>2, SMTT(30)
      <4>2. CASE i \in 1 .. Len(s.capture) - 1
        <5>1. s.capture[i + 1].id = s.capture[i].id + 1
          BY <4>2 DEF Sound, Gapless, Whole
        <5>2. c[i + 1] = s.capture[i + 1] /\ c[i] = s.capture[i]
          BY <3>1, <3>2, <4>2
        <5> QED
          BY <5>1, <5>2
      <4>3. i = Len(s.capture) \/ i \in 1 .. Len(s.capture) - 1
        BY <3>1, <3>2
      <4> QED
        BY <4>1, <4>2, <4>3
    <3>4. taken = trimToMax(c, kMaxCaptureSamples)
      BY <1>4, <2>2 DEF c
    <3> HIDE DEF taken
    <3>5. /\ taken \in Seq(Entries)
          /\ Len(taken) = IF Len(c) > kMaxCaptureSamples THEN kMaxCaptureSamples ELSE Len(c)
          /\ \A i \in 1 .. Len(taken) : taken[i] = c[Len(c) - Len(taken) + i]
      BY <3>1, <3>2, <3>4, TrimIs, SMTT(30)
    <3>6. Len(taken) \in Nat /\ Len(taken) <= kMaxCaptureSamples /\ 1 <= Len(taken)
          /\ Len(taken) <= Len(c)
      BY <3>1, <3>2, <3>5
    <3>7. ASSUME NEW i \in 1 .. Len(taken) - 1 PROVE taken[i + 1].id = taken[i].id + 1
      <4> DEFINE j == Len(c) - Len(taken) + i
      <4>1. j \in 1 .. Len(c) - 1 /\ i + 1 \in 1 .. Len(taken) /\ i \in 1 .. Len(taken)
            /\ Len(c) - Len(taken) + (i + 1) = j + 1
        <5>1. Len(c) \in Nat /\ Len(taken) \in Nat /\ Len(taken) <= Len(c)
          BY <3>1, <3>2, <3>6
        <5> QED
          BY <5>1
      <4> HIDE DEF j
      <4>2. taken[i] = c[j]
        BY <3>5, <4>1 DEF j
      <4>3. taken[i + 1] = c[j + 1]
        BY <3>5, <4>1
      <4> QED
        BY <3>3, <4>1, <4>2, <4>3
    <3>8. taken[Len(taken)] = entry
      <4>1. Len(c) - Len(taken) + Len(taken) = Len(c) /\ Len(taken) \in 1 .. Len(taken)
        BY <3>1, <3>2, <3>6
      <4> QED
        BY <3>2, <3>5, <4>1
    <3> QED
      BY <1>15, <3>5, <3>6, <3>7, <3>8 DEF Whole
  <2> QED
    BY <2>1, <2>2
<1> HIDE DEF taken
<1>17. /\ Fields(u) /\ u.next = s.next + 1 /\ u.times = times /\ u.capture = taken
       /\ u.samples = plot.samples /\ u.snapshot = s.snapshot /\ u.span = s.span
       /\ u.frozen = s.frozen /\ u.playing = s.playing /\ u.recording = s.recording
       /\ u.saved = s.saved /\ u.file = s.file /\ u.index = s.index
       /\ u.start = s.start /\ u.mixed = s.mixed
  <2>1. /\ Fields(u) /\ u.next = plot.next + 1 /\ u.times = times /\ u.capture = taken
        /\ u.samples = plot.samples /\ u.snapshot = plot.snapshot /\ u.span = plot.span
        /\ u.frozen = plot.frozen /\ u.playing = plot.playing
        /\ u.recording = plot.recording /\ u.saved = plot.saved /\ u.file = plot.file
        /\ u.index = plot.index /\ u.start = plot.start /\ u.mixed = plot.mixed
    <3>1. Takeable(plot, now, times, last, key, of, taken)
      BY <1>2, <1>3, <1>7, <1>13, <1>16 DEF Takeable
    <3>2. u = Takes(plot, now, times, last, key, of, taken)
      BY DEF Takes
    <3> HIDE DEF u
    <3> QED
      BY <3>1, <3>2, StateTakes DEF Follows
  <2> HIDE DEF u
  <2> QED
    BY <1>4, <2>1
<1> HIDE DEF u
<1>18. Sizes(u)
  BY <1>3, <1>16, <1>17 DEF Sound, Sizes
<1>19. Joined(u)
  <2>1. Shown(u) = Shown(plot)
    BY <1>4, <1>17 DEF Shown
  <2> QED
    BY <1>8, <1>17, <2>1 DEF Sound, Joined
<1>20. Gapless(u)
  <2>1. u.next - 1 = s.next
    BY <1>5, <1>17
  <2>2. Whole(u.capture) /\ Whole(u.saved)
    BY <1>16, <1>17 DEF Sound, Gapless
  <2>3. u.recording /\ u.capture # << >> => u.capture[Len(u.capture)].id = u.next - 1
    BY <1>16, <1>17, <2>1
  <2> QED
    BY <2>2, <2>3 DEF Gapless
<1>21. Sound(u) /\ Timely(u, f)
  BY <1>14, <1>17, <1>18, <1>19, <1>20 DEF Sound, Timely
<1> QED
  BY <1>1, <1>17, <1>21
-------------------------------------------------------------------------------
(* Playback.                                                                 *)
\* A set of numbers that is not empty has a least one.
LEMMA LeastNat ==
  ASSUME NEW T \in SUBSET Nat, T # {}
  PROVE  \E m \in T : \A n \in T : m <= n
<1> DEFINE R == OpToRel(<, Nat)
<1>1. IsWellFoundedOn(R, Nat)
  BY NatLessThanWellFounded
<1>2. \A x, y \in Nat : <<x, y>> \in R <=> x < y
  BY DEF OpToRel
<1> HIDE DEF R
<1>3. PICK x \in T : \A y \in T : ~ (<<y, x>> \in R)
  BY <1>1, WFMin
<1>4. \A y \in T : ~ (y < x) /\ y \in Nat
  BY <1>2, <1>3
<1> QED
  BY <1>4

\* Induction over the numbers up to n, for a set of them.
LEMMA UpTo ==
  ASSUME NEW n \in Nat, NEW S, 0 \in S,
         \A i \in 1 .. n : i - 1 \in S => i \in S
  PROVE  0 .. n \subseteq S
<1> SUFFICES ASSUME 0 .. n \ S # {} PROVE FALSE
  OBVIOUS
<1>1. PICK m \in 0 .. n \ S : \A i \in 0 .. n \ S : m <= i
  <2> DEFINE T == 0 .. n \ S
  <2>1. T \in SUBSET Nat /\ T # {}
    OBVIOUS
  <2> HIDE DEF T
  <2>2. \E m \in T : \A i \in T : m <= i
    BY <2>1, LeastNat
  <2> QED
    BY <2>2 DEF T
<1>2. m \in 1 .. n /\ m - 1 \in 0 .. n
  BY <1>1
<1> QED
  BY <1>1, <1>2

\* One more sample after those of r.
Injects(s, wants, r, i) ==
    LET a == appendSample(r.state, s.start + s.file[s.index + i], wants[i])
    IN  [state |-> a.state, fed |-> r.fed \o a.fed]

\* The recursive definition of what is injected defines a function.
LEMMA InjectedIs ==
  ASSUME NEW s, NEW n \in Nat, NEW wants
  PROVE  /\ injected(s, n, wants)[0] = [state |-> s, fed |-> << >>]
         /\ \A i \in 1 .. n :
               injected(s, n, wants)[i] = Injects(s, wants, injected(s, n, wants)[i - 1], i)
<1> DEFINE F(f, i) == IF i = 0 THEN [state |-> s, fed |-> << >>]
                      ELSE Injects(s, wants, f[i - 1], i)
           Works(k, f) == /\ f = [i \in 0 .. k |-> f[i]]
                          /\ \A i \in 0 .. k : f[i] = F(f, i)
           S == {k \in 0 .. n : \E f : Works(k, f)}
<1>1. \A k \in 1 .. n : k \in 0 .. n
  OBVIOUS
<1>2. 0 \in S
  <2>1. Works(0, [i \in 0 .. 0 |-> [state |-> s, fed |-> << >>]])
    OBVIOUS
  <2> HIDE DEF Works
  <2> QED
    BY <2>1
<1>3. \A k \in 1 .. n : k - 1 \in S => k \in S
  <2> SUFFICES ASSUME NEW k \in 1 .. n, k - 1 \in S PROVE \E g : Works(k, g)
    <3> HIDE DEF Works
    <3> QED
      BY <1>1
  <2>1. PICK f : Works(k - 1, f)
    OBVIOUS
  <2> DEFINE g == [i \in 0 .. k |-> IF i = k THEN F(f, k) ELSE f[i]]
  <2>2. \A i \in 0 .. k : g[i] = F(g, i)
    <3> SUFFICES ASSUME NEW i \in 0 .. k PROVE g[i] = F(g, i)
      OBVIOUS
    <3>1. i # 0 => i - 1 \in 0 .. k /\ i - 1 # k /\ g[i - 1] = f[i - 1]
      OBVIOUS
    <3>2. F(g, i) = F(f, i)
      BY <3>1
    <3> HIDE DEF F
    <3>3. g[i] = IF i = k THEN F(f, k) ELSE f[i]
      OBVIOUS
    <3>4. i # k => f[i] = F(f, i)
      BY <2>1
    <3> HIDE DEF g
    <3> QED
      BY <3>2, <3>3, <3>4
  <2>3. g = [i \in 0 .. k |-> g[i]]
    OBVIOUS
  <2> QED
    BY <2>2, <2>3
<1>4. n \in S
  <2> HIDE DEF S
  <2>1. 0 .. n \subseteq S
    BY <1>2, <1>3, UpTo
  <2> QED
    BY <2>1
<1>5. PICK f : Works(n, f)
  BY <1>4
<1>6. f = [i \in 0 .. n |-> F(f, i)]
  BY <1>5
<1>7. injected(s, n, wants) = [i \in 0 .. n |-> F(injected(s, n, wants), i)]
  <2> DEFINE D(h) == h = [i \in 0 .. n |-> F(h, i)]
  <2>1. injected(s, n, wants) = CHOOSE h : D(h)
    BY DEF injected, Injects
  <2>2. D(f)
    BY <1>6
  <2> HIDE DEF D
  <2>3. D(injected(s, n, wants))
    BY <2>1, <2>2
  <2> QED
    BY <2>3 DEF D
<1> DEFINE K == injected(s, n, wants)
<1>8. \A i \in 0 .. n : K[i] = F(K, i)
  BY <1>7
<1> QED
  BY <1>8

\* What a playback leaves as it is.
Kept(s, u) ==
    /\ u.frozen = s.frozen /\ u.snapshot = s.snapshot /\ u.mixed = s.mixed
    /\ u.playing = s.playing /\ u.file = s.file /\ u.index = s.index /\ u.start = s.start

LEMMA InjectedSound ==
  ASSUME NEW s, Sound(s), s.playing, NEW n \in 0 .. MaxPerTick,
         s.index + n <= Len(s.file), NEW wants \in [1 .. MaxPerTick -> BOOLEAN]
  PROVE  LET r == injected(s, n, wants)[n] IN
         Sound(r.state) /\ Timely(r.state, r.fed) /\ Kept(s, r.state)
<1> DEFINE K == injected(s, n, wants)
           Good(r) == Sound(r.state) /\ Timely(r.state, r.fed) /\ Kept(s, r.state)
           S == {i \in 0 .. n : Good(K[i])}
<1>1. n \in Nat /\ n <= MaxPerTick
  BY SpanNat
<1>2. /\ K[0] = [state |-> s, fed |-> << >>]
      /\ \A i \in 1 .. n : K[i] = Injects(s, wants, K[i - 1], i)
  BY <1>1, InjectedIs
<1> HIDE DEF K
<1>3. 0 \in S
  <2>1. Timely(s, << >>) /\ Kept(s, s)
    BY DEF Kept, Timely
  <2>2. Good([state |-> s, fed |-> << >>])
    BY <2>1
  <2> HIDE DEF Good
  <2> QED
    BY <1>1, <1>2, <2>2
<1>4. ASSUME NEW i \in 1 .. n, i - 1 \in S PROVE i \in S
  <2> DEFINE r == K[i - 1]
             t == s.start + s.file[s.index + i]
             a == appendSample(r.state, t, wants[i])
  <2>1. Good(r)
    BY <1>4
  <2>2. t \in Int
    <3>1. s.index \in Nat /\ s.file \in Seq(Int) /\ s.start \in Int
      BY DEF Sound, Fields
    <3>2. s.index + i \in 1 .. Len(s.file)
      BY <1>1, <3>1, SMTT(30)
    <3> DEFINE at == s.index + i
    <3>3. s.file[at] \in Int
      <4> HIDE DEF at
      <4> QED
        BY <3>1, <3>2 DEF at
    <3> DEFINE x == s.file[at]
               b == s.start
    <3>4. x \in Int /\ b \in Int
      BY <3>1, <3>3
    <3> HIDE DEF x, b
    <3>5. b + x \in Int
      BY <3>4
    <3> QED
      BY <3>5 DEF x, b
  <2>3. wants[i] \in BOOLEAN
    BY <1>1, SpanNat
  <2>4. Sound(r.state) /\ (r.state.frozen => r.state.playing)
    BY <2>1 DEF Kept
  <2> HIDE DEF r, t
  <2>5. /\ Sound(a.state) /\ Timely(a.state, a.fed) /\ Kept(r.state, a.state)
    BY <2>2, <2>3, <2>4, AppendSound DEF Kept
  <2> HIDE DEF a
  <2>6. K[i] = [state |-> a.state, fed |-> r.fed \o a.fed]
    BY <1>2 DEF Injects, a, r, t
  <2>7. Timely(a.state, r.fed \o a.fed)
    <3>1. r.fed \in Seq(Feeds) /\ a.fed \in Seq(Feeds) /\ a.state.mixed = r.state.mixed
      BY <2>1, <2>5 DEF Timely, Kept
    <3>2. r.fed \o a.fed \in Seq(Feeds)
      BY <3>1
    <3>3. ASSUME ~a.state.mixed, NEW j \in 1 .. Len(r.fed \o a.fed)
          PROVE  (r.fed \o a.fed)[j].time = (r.fed \o a.fed)[j].sample.t
      <4>1. CASE j \in 1 .. Len(r.fed)
        <5>1. (r.fed \o a.fed)[j] = r.fed[j]
          BY <3>1, <4>1
        <5> QED
          BY <2>1, <3>1, <3>3, <4>1, <5>1 DEF Timely
      <4>2. CASE j \notin 1 .. Len(r.fed)
        <5> DEFINE p == r.fed
                   q == a.fed
        <5>1. (p \o q)[j] = q[j - Len(p)] /\ j - Len(p) \in 1 .. Len(q)
          <6>1. p \in Seq(Feeds) /\ q \in Seq(Feeds) /\ j \in 1 .. Len(p \o q)
                /\ j \notin 1 .. Len(p)
            BY <3>1, <3>3, <4>2
          <6> HIDE DEF p, q
          <6>2. Len(p \o q) = Len(p) + Len(q) /\ Len(p) \in Nat /\ Len(q) \in Nat
            BY <6>1
          <6> QED
            BY <6>1, <6>2
        <5> QED
          BY <2>5, <3>3, <5>1 DEF Timely
      <4> QED
        BY <4>1, <4>2
    <3> QED
      BY <3>2, <3>3 DEF Timely
  <2>8. Kept(s, a.state)
    BY <2>1, <2>5 DEF Kept
  <2>9. Good(K[i])
    BY <2>5, <2>6, <2>7, <2>8
  <2> HIDE DEF Good
  <2> QED
    BY <1>1, <2>9
<1>5. 0 .. n \subseteq S
  <2> HIDE DEF S
  <2> QED
    BY <1>1, <1>3, <1>4, UpTo
<1> QED
  BY <1>1, <1>5 DEF K

\* No tick injects more than the file holds, nor more than a tick may.
LEMMA DueIs ==
  ASSUME NEW s, Fields(s), s.index <= Len(s.file), NEW now \in Int
  PROVE  Due(s, now) \in 0 .. MaxPerTick /\ s.index + Due(s, now) <= Len(s.file)
<1> DEFINE due == {i \in s.index + 1 .. Len(s.file) :
                      \A j \in s.index + 1 .. i : s.file[j] <= now - s.start}
<1>1. s.index \in Nat /\ Len(s.file) \in Nat
  BY DEF Fields
<1>2. due \subseteq s.index + 1 .. Len(s.file)
  OBVIOUS
<1>3. /\ IsFiniteSet(s.index + 1 .. Len(s.file))
      /\ Cardinality(s.index + 1 .. Len(s.file))
            = IF s.index + 1 > Len(s.file) THEN 0 ELSE Len(s.file) - (s.index + 1) + 1
  <2> DEFINE lo == s.index + 1
             hi == Len(s.file)
  <2>1. lo \in Int /\ hi \in Int
    BY <1>1
  <2> HIDE DEF lo, hi
  <2>2. IsFiniteSet(lo .. hi) /\ Cardinality(lo .. hi) = IF lo > hi THEN 0 ELSE hi - lo + 1
    BY <2>1, FS_Interval
  <2> QED
    BY <2>2 DEF lo, hi
<1>4. Due(s, now) = IF Cardinality(due) > MaxPerTick THEN MaxPerTick ELSE Cardinality(due)
  BY DEF Due
<1> HIDE DEF due
<1>5. IsFiniteSet(due) /\ Cardinality(due) <= Cardinality(s.index + 1 .. Len(s.file))
  BY <1>2, <1>3, FS_Subset
<1>6. Cardinality(due) \in Nat
  BY <1>5, FS_CardinalityType
<1>7. Cardinality(due) <= Len(s.file) - s.index
  BY <1>1, <1>3, <1>5, <1>6
<1> QED
  BY <1>1, <1>4, <1>6, <1>7, SpanNat

\* A playback goes on, or has come to its end.
Moved(s, playing, index, file) ==
    [s EXCEPT !.playing = playing, !.index = index, !.file = file]

Movable(s, playing, index, file) ==
    /\ Sound(s) /\ playing \in BOOLEAN /\ index \in Nat /\ file \in Seq(Int)
    /\ playing => s.playing /\ index <= Len(file)

\* A state that is as sound, and shows the plot the same way.
Landed(s, u) == Sound(u) /\ u.frozen = s.frozen /\ u.snapshot = s.snapshot /\ u.mixed = s.mixed

LEMMA PlaybackMoves ==
  ASSUME NEW s, NEW playing, NEW index, NEW file, Movable(s, playing, index, file)
  PROVE  Landed(s, Moved(s, playing, index, file))
<1> DEFINE u == Moved(s, playing, index, file)
<1> USE DEF Movable
<1>1. Fields(u)
  BY DEF Sound, Fields, Moved
<1>2. /\ u.samples = s.samples /\ u.snapshot = s.snapshot /\ u.times = s.times
      /\ u.span = s.span /\ u.capture = s.capture /\ u.saved = s.saved
      /\ u.frozen = s.frozen /\ u.mixed = s.mixed /\ u.recording = s.recording
      /\ u.next = s.next /\ u.playing = playing /\ u.index = index /\ u.file = file
  BY DEF Sound, Fields, Moved
<1> HIDE DEF u
<1>3. Sizes(u)
  BY <1>2 DEF Sound, Sizes
<1>4. Joined(u)
  BY <1>2 DEF Sound, Joined, Shown
<1>5. Gapless(u)
  BY <1>2 DEF Sound, Gapless
<1>6. Sound(u)
  BY <1>1, <1>3, <1>4, <1>5 DEF Sound
<1>7. Landed(s, u)
  BY <1>2, <1>6 DEF Landed
<1> QED
  BY <1>7 DEF u

LEMMA TickSound ==
  ASSUME NEW s, Sound(s), s.playing, NEW now \in Int,
         NEW wants \in [1 .. MaxPerTick -> BOOLEAN]
  PROVE  LET r == onPlaybackTick(s, now, wants) IN
         /\ Sound(r.state) /\ Timely(r.state, r.fed)
         /\ r.state.frozen = s.frozen /\ r.state.snapshot = s.snapshot
<1> DEFINE n    == Due(s, now)
           play == injected(s, n, wants)[n]
           done == [play.state EXCEPT !.index = s.index + n]
           end  == [done EXCEPT !.playing = FALSE, !.file = << >>]
           u    == IF Finished(done) THEN end ELSE done
<1>1. onPlaybackTick(s, now, wants) = [state |-> u, fed |-> play.fed]
  BY DEF onPlaybackTick
<1>2. n \in 0 .. MaxPerTick /\ s.index + n <= Len(s.file) /\ s.index + n \in Nat
  <2>1. Fields(s) /\ s.index <= Len(s.file) /\ s.index \in Nat
    BY DEF Sound, Sizes, Fields
  <2>2. n \in 0 .. MaxPerTick /\ s.index + n <= Len(s.file)
    BY <2>1, DueIs
  <2> QED
    BY <2>1, <2>2, SpanNat
<1> HIDE DEF n
<1>3. Sound(play.state) /\ Timely(play.state, play.fed) /\ Kept(s, play.state)
  BY <1>2, InjectedSound
<1> HIDE DEF play
<1>4. /\ play.state.file \in Seq(Int) /\ play.state.playing = TRUE
      /\ play.state.file = s.file
  BY <1>3 DEF Kept, Sound, Fields
<1>5. /\ done = Moved(play.state, TRUE, s.index + n, play.state.file)
      /\ end = Moved(play.state, FALSE, s.index + n, << >>)
  BY <1>3, <1>4 DEF Sound, Fields, Moved
<1> HIDE DEF done, end
<1> DEFINE p   == play.state
           on  == TRUE
           off == FALSE
           at  == s.index + n
           f   == play.state.file
<1>6. Landed(p, done)
  <2>1. Movable(p, on, at, f)
    BY <1>2, <1>3, <1>4 DEF Movable
  <2>2. done = Moved(p, on, at, f)
    BY <1>5
  <2> HIDE DEF p, on, at, f
  <2> QED
    BY <2>1, <2>2, PlaybackMoves
<1>7. Landed(p, end)
  <2> DEFINE no == << >>
  <2>1. Movable(p, off, at, no)
    BY <1>2, <1>3 DEF Movable
  <2>2. end = Moved(p, off, at, no)
    BY <1>5
  <2> HIDE DEF p, off, at, no
  <2> QED
    BY <2>1, <2>2, PlaybackMoves
<1>8. /\ Sound(u) /\ u.frozen = s.frozen /\ u.snapshot = s.snapshot
      /\ u.mixed = play.state.mixed
  BY <1>3, <1>6, <1>7 DEF Kept, Landed
<1> QED
  BY <1>1, <1>3, <1>8 DEF Timely
-------------------------------------------------------------------------------
(* Clicks and buttons.                                                       *)
\* Nothing that soundness depends on is another.
Same(s, u) ==
    /\ Fields(u) /\ u.samples = s.samples /\ u.snapshot = s.snapshot /\ u.times = s.times
    /\ u.span = s.span /\ u.capture = s.capture /\ u.saved = s.saved
    /\ u.frozen = s.frozen /\ u.mixed = s.mixed /\ u.recording = s.recording
    /\ u.next = s.next /\ u.playing = s.playing /\ u.index = s.index /\ u.file = s.file

\* What a handler may make of a sound state.
Step(s, u) == Sound(u) /\ (s.frozen /\ u.frozen => Shown(u) = Shown(s))

LEMMA FieldsShape ==
  ASSUME NEW s
  PROVE  Fields(s) <=> s \in Shape(BOOLEAN, Seq(Samples), Seq(Entries), Seq(Int), Int, Nat)
BY DEF Fields, Shape

LEMMA SameSound ==
  ASSUME NEW s, Sound(s), NEW u, Same(s, u)
  PROVE  Step(s, u)
<1> USE DEF Same
<1>1. Fields(u) /\ Shown(u) = Shown(s)
  BY DEF Shown
<1>2. Sizes(u) /\ Gapless(u)
  BY DEF Sound, Sizes, Gapless
<1>3. Joined(u)
  BY <1>1 DEF Sound, Joined
<1> QED
  BY <1>1, <1>2, <1>3 DEF Sound, Step

LEMMA VisibleSame ==
  ASSUME NEW s, Sound(s), NEW b \in BOOLEAN
  PROVE  Same(s, [s EXCEPT !.visible = b])
<1> DEFINE u == [s EXCEPT !.visible = b]
<1>1. Fields(u)
  BY DEF Sound, Fields
<1>2. Same(s, u)
  BY <1>1 DEF Sound, Fields, Same
<1> QED
  BY <1>2

\* To freeze and to resume show the same plot as before.
FreezeSet(s, b, u) == /\ Step(s, u) /\ u.frozen = b
                      /\ u.recording = s.recording /\ u.capture = s.capture

LEMMA FrozenSet ==
  ASSUME NEW s, Sound(s), NEW b \in BOOLEAN
  PROVE  FreezeSet(s, b, setFrozen(s, b))
<1> DEFINE u == setFrozen(s, b)
<1>1. CASE b /\ ~s.frozen
  <2>1. u = [s EXCEPT !.frozen = TRUE, !.snapshot = s.samples, !.mixed = @ \/ s.playing]
    BY <1>1 DEF setFrozen
  <2> HIDE DEF u
  <2> DEFINE mix == s.mixed \/ s.playing
  <2>6. mix \in BOOLEAN /\ u = [s EXCEPT !.frozen = TRUE, !.snapshot = s.samples, !.mixed = mix]
    <3>1. s.mixed \in BOOLEAN /\ s.playing \in BOOLEAN
      BY DEF Sound, Fields
    <3> QED
      BY <2>1, <3>1
  <2>7. (s.mixed => mix) /\ (s.playing => mix)
    OBVIOUS
  <2> HIDE DEF mix
  <2>2. Fields(u)
    BY <2>6 DEF Sound, Fields
  <2>3. /\ u.frozen = TRUE /\ u.snapshot = s.samples /\ u.mixed = mix
        /\ u.samples = s.samples /\ u.times = s.times /\ u.span = s.span
        /\ u.capture = s.capture /\ u.saved = s.saved /\ u.recording = s.recording
        /\ u.next = s.next /\ u.playing = s.playing /\ u.index = s.index
        /\ u.file = s.file
    BY <2>6 DEF Sound, Fields
  <2>4. Sizes(u) /\ Gapless(u)
    BY <2>3 DEF Sound, Sizes, Gapless
  <2>5. Joined(u)
    <3>1. Shown(u) = Shown(s)
      BY <1>1, <2>3 DEF Shown
    <3> QED
      BY <2>7, <2>3, <3>1 DEF Sound, Joined
  <2> QED
    BY <1>1, <2>2, <2>3, <2>4, <2>5 DEF Sound, Step, FreezeSet, u
<1>2. CASE ~b /\ s.frozen
  <2>1. u = [s EXCEPT !.frozen = FALSE, !.samples = s.snapshot, !.snapshot = << >>]
    BY <1>2 DEF setFrozen
  <2> HIDE DEF u
  <2>2. Fields(u)
    <3> DEFINE B  == BOOLEAN
               QS == Seq(Samples)
               QE == Seq(Entries)
               QI == Seq(Int)
               I  == Int
               N  == Nat
               no == << >>
    <3>1. /\ s \in Shape(B, QS, QE, QI, I, N) /\ FALSE \in B /\ no \in QS
          /\ u = [s EXCEPT !.frozen = FALSE, !.samples = s.snapshot, !.snapshot = no]
      BY <2>1, FieldsShape DEF Sound
    <3> HIDE DEF B, QS, QE, QI, I, N, no
    <3>2. u \in Shape(B, QS, QE, QI, I, N)
      BY <3>1 DEF Shape
    <3> QED
      BY <3>2, FieldsShape DEF B, QS, QE, QI, I, N
  <2>3. /\ u.frozen = FALSE /\ u.snapshot = << >> /\ u.mixed = s.mixed
        /\ u.samples = s.snapshot /\ u.times = s.times /\ u.span = s.span
        /\ u.capture = s.capture /\ u.saved = s.saved /\ u.recording = s.recording
        /\ u.next = s.next /\ u.playing = s.playing /\ u.index = s.index
        /\ u.file = s.file
    BY <2>1 DEF Sound, Fields
  <2>4. Sizes(u) /\ Gapless(u)
    BY <1>2, <2>3 DEF Sound, Sizes, Gapless
  <2>5. Joined(u)
    <3>1. Shown(u) = Shown(s)
      BY <1>2, <2>3 DEF Shown
    <3> QED
      BY <2>3, <3>1 DEF Sound, Joined
  <2> QED
    BY <1>2, <2>2, <2>3, <2>4, <2>5 DEF Sound, Step, FreezeSet, u
<1>3. CASE ~(b /\ ~s.frozen) /\ ~(~b /\ s.frozen)
  <2>1. u = s
    BY <1>3 DEF setFrozen
  <2>2. s.frozen \in BOOLEAN
    BY DEF Sound, Fields
  <2> HIDE DEF u
  <2> QED
    BY <1>3, <2>1, <2>2 DEF Step, FreezeSet, u
<1> QED
  BY <1>1, <1>2, <1>3

LEMMA StopSound ==
  ASSUME NEW s, Sound(s)
  PROVE  Landed(s, stopPlayback(s)) /\ Step(s, stopPlayback(s))
<1> DEFINE off == FALSE
           at  == 0
           no  == << >>
<1>1. stopPlayback(s) = Moved(s, off, at, no) /\ Movable(s, off, at, no)
  BY DEF stopPlayback, Moved, Movable
<1> HIDE DEF off, at, no
<1>2. Landed(s, stopPlayback(s))
  BY <1>1, PlaybackMoves
<1>3. s.frozen => Shown(stopPlayback(s)) = Shown(s)
  BY <1>2 DEF Landed, Shown
<1> QED
  BY <1>2, <1>3 DEF Landed, Step

\* A state that begins anew: no samples, no times, live.
Empty(u) ==
    /\ Fields(u) /\ u.frozen = FALSE /\ u.samples = << >> /\ u.capture = << >>
    /\ u.playing => u.index <= Len(u.file)

LEMMA EmptySound ==
  ASSUME NEW u, Empty(u), Whole(u.saved)
  PROVE  Sound(u)
<1> USE DEF Empty
<1>1. u.span \in Nat /\ u.times \in Seq(Int) /\ kMaxCaptureSamples \in Nat
  <2>1. u.span \in Spans /\ u.times \in Seq(Int)
    BY DEF Fields
  <2> QED
    BY <2>1, SpanNat
<1>2. Len(<< >>) = 0 /\ Whole(<< >>)
  BY DEF Whole
<1>3. Sizes(u)
  BY <1>1, <1>2 DEF Sizes
<1>4. Joined(u)
  <2>1. Along(<< >>, u.times)
    BY <1>1, <1>2 DEF Along
  <2> QED
    BY <2>1 DEF Joined, Shown
<1>5. Gapless(u)
  BY <1>2 DEF Gapless
<1> QED
  BY <1>3, <1>4, <1>5 DEF Sound

\* A click, and the clear button.
LEMMA TargetSound ==
  ASSUME NEW s, Sound(s)
  PROVE  Sound(setTarget(s)) /\ setTarget(s).frozen = FALSE
<1> DEFINE b == FALSE
           v == setFrozen(s, b)
           u == setTarget(s)
<1>1. Sound(v) /\ v.frozen = FALSE
  <2>1. b \in BOOLEAN
    OBVIOUS
  <2>2. Sound(v) /\ v.frozen = b
    <3> HIDE DEF b
    <3> QED
      BY <2>1, FrozenSet DEF FreezeSet, Step
  <2> QED
    BY <2>2
<1>2. u = [[v EXCEPT !.samples = << >>]
             EXCEPT !.target = TRUE, !.key = FALSE, !.last = -1, !.clock = -1, !.times = << >>,
                    !.capture = << >>, !.mixed = FALSE]
  BY <1>1 DEF setTarget, plotClear
<1> HIDE DEF v, u
<1>3. Fields(u)
  <2> DEFINE B  == BOOLEAN
             QS == Seq(Samples)
             QE == Seq(Entries)
             QI == Seq(Int)
             I  == Int
             N  == Nat
             no == << >>
             one == -1
             yes == TRUE
             off == FALSE
  <2>1. /\ v \in Shape(B, QS, QE, QI, I, N) /\ off \in B /\ yes \in B /\ one \in I
        /\ no \in QS /\ no \in QE /\ no \in QI
        /\ u = [[v EXCEPT !.samples = no]
                  EXCEPT !.target = yes, !.key = off, !.last = one, !.clock = one, !.times = no,
                         !.capture = no, !.mixed = off]
    BY <1>1, <1>2, FieldsShape DEF Sound
  <2> HIDE DEF B, QS, QE, QI, I, N, no, one, yes, off
  <2>2. u \in Shape(B, QS, QE, QI, I, N)
    BY <2>1 DEF Shape
  <2> QED
    BY <2>2, FieldsShape DEF B, QS, QE, QI, I, N
<1>4. /\ u.frozen = FALSE /\ u.samples = << >> /\ u.capture = << >> /\ u.saved = v.saved
      /\ u.playing = v.playing /\ u.index = v.index /\ u.file = v.file
  BY <1>1, <1>2 DEF Sound, Fields
<1>5. Empty(u) /\ Whole(u.saved)
  BY <1>1, <1>3, <1>4 DEF Sound, Sizes, Gapless, Empty
<1> QED
  BY <1>4, <1>5, EmptySound DEF u

LEMMA ClearSound ==
  ASSUME NEW s, Sound(s)
  PROVE  Sound(clearTrace(s)) /\ clearTrace(s).frozen = FALSE
<1> DEFINE b == FALSE
           w == stopPlayback(s)
           v == setFrozen(w, b)
           u == clearTrace(s)
<1>1. Sound(v) /\ v.frozen = FALSE
  <2>1. b \in BOOLEAN /\ Sound(w)
    BY StopSound DEF Step
  <2>2. Sound(v) /\ v.frozen = b
    <3> HIDE DEF b, w
    <3> QED
      BY <2>1, FrozenSet DEF FreezeSet, Step
  <2> QED
    BY <2>2
<1>2. u = [[v EXCEPT !.samples = << >>]
             EXCEPT !.times = << >>, !.capture = << >>, !.mixed = FALSE]
  BY <1>1 DEF clearTrace, plotClear
<1> HIDE DEF v, u
<1>3. Fields(u)
  <2> DEFINE B  == BOOLEAN
             QS == Seq(Samples)
             QE == Seq(Entries)
             QI == Seq(Int)
             I  == Int
             N  == Nat
             no == << >>
             off == FALSE
  <2>1. /\ v \in Shape(B, QS, QE, QI, I, N) /\ off \in B
        /\ no \in QS /\ no \in QE /\ no \in QI
        /\ u = [[v EXCEPT !.samples = no] EXCEPT !.times = no, !.capture = no, !.mixed = off]
    BY <1>1, <1>2, FieldsShape DEF Sound
  <2> HIDE DEF B, QS, QE, QI, I, N, no, off
  <2>2. u \in Shape(B, QS, QE, QI, I, N)
    BY <2>1 DEF Shape
  <2> QED
    BY <2>2, FieldsShape DEF B, QS, QE, QI, I, N
<1>4. /\ u.frozen = FALSE /\ u.samples = << >> /\ u.capture = << >> /\ u.saved = v.saved
      /\ u.playing = v.playing /\ u.index = v.index /\ u.file = v.file
  BY <1>1, <1>2 DEF Sound, Fields
<1>5. Empty(u) /\ Whole(u.saved)
  BY <1>1, <1>3, <1>4 DEF Sound, Sizes, Gapless, Empty
<1> QED
  BY <1>4, <1>5, EmptySound DEF u

\* Samples of another list take the place of those the plot holds.
Replaces(s, u) ==
    /\ Fields(u) /\ u.frozen = s.frozen /\ u.mixed = s.mixed
    /\ Len(u.samples) <= u.span /\ Along(u.samples, u.times)
    /\ u.capture = s.capture /\ u.saved = s.saved /\ u.recording = s.recording
    /\ u.next = s.next /\ u.playing = s.playing /\ u.index = s.index /\ u.file = s.file

LEMMA ReplacesSound ==
  ASSUME NEW s, Sound(s), ~s.frozen, NEW u, Replaces(s, u)
  PROVE  Step(s, u)
<1> USE DEF Replaces
<1>1. Sizes(u) /\ Gapless(u)
  BY DEF Sound, Sizes, Gapless
<1>2. Joined(u)
  BY DEF Joined, Shown
<1> QED
  BY <1>1, <1>2 DEF Sound, Step

LEMMA SeedSound ==
  ASSUME NEW s, Sound(s), NEW n \in Nat, NEW now \in Int
  PROVE  Step(s, seedHistory(s, n, now)) /\ seedHistory(s, n, now).frozen = s.frozen
<1> DEFINE h  == [i \in 1 .. n |-> [id |-> 0, t |-> now - (n - i)]]
           ts == [i \in 1 .. n |-> h[i].t]
           q  == trimToMax(h, s.span)
           u  == [s EXCEPT !.samples = q, !.times = ts]
<1>1. CASE ~s.target \/ s.frozen
  <2>1. seedHistory(s, n, now) = s
    BY <1>1 DEF seedHistory
  <2> QED
    BY <2>1 DEF Step
<1>2. CASE s.target /\ ~s.frozen
  <2>1. seedHistory(s, n, now) = u
    BY <1>2 DEF seedHistory
  <2>2. h \in Seq(Samples) /\ Len(h) = n /\ ts \in Seq(Int) /\ Len(ts) = n
    <3>1. \A i \in 1 .. n : [id |-> 0, t |-> now - (n - i)] \in Samples
      BY DEF Samples
    <3>2. h \in Seq(Samples) /\ Len(h) = n
      BY <3>1
    <3>3. \A i \in 1 .. n : h[i].t \in Int
      BY <3>1
    <3> QED
      BY <3>2, <3>3
  <2>3. Along(h, ts)
    <3>1. \A i \in 1 .. n : Len(ts) - Len(h) + i = i
      BY <2>2
    <3> HIDE DEF h
    <3> QED
      BY <2>2, <3>1 DEF Along
  <2> HIDE DEF h, ts
  <2>4. s.span \in Nat
    <3>1. s.span \in Spans
      BY DEF Sound, Fields
    <3> QED
      BY <3>1, SpanNat
  <2>5. q \in Seq(Samples) /\ Len(q) <= s.span /\ Along(q, ts)
    <3>1. q \in Seq(Samples) /\ Len(q) = IF Len(h) > s.span THEN s.span ELSE Len(h)
      BY <2>2, <2>4, TrimIs
    <3>2. Along(q, ts)
      BY <2>2, <2>3, <2>4, TrimAlong
    <3> QED
      BY <2>2, <2>4, <3>1, <3>2
  <2> HIDE DEF q
  <2>6. Fields(u)
    BY <2>2, <2>5 DEF Sound, Fields
  <2>7. Replaces(s, u)
    BY <2>2, <2>5, <2>6 DEF Sound, Fields, Replaces
  <2> HIDE DEF u
  <2>8. Step(s, u)
    BY <1>2, <2>7, ReplacesSound
  <2> QED
    BY <2>1, <2>7, <2>8 DEF Replaces
<1>3. s.target \in BOOLEAN /\ s.frozen \in BOOLEAN
  BY DEF Sound, Fields
<1> QED
  BY <1>1, <1>2, <1>3

\* The sliders clear the plot before they seed it.
LEMMA PlotClears ==
  ASSUME NEW s, Sound(s)
  PROVE  Step(s, plotClear(s)) /\ plotClear(s).frozen = s.frozen
<1>1. CASE s.frozen
  BY <1>1 DEF plotClear, Step
<1>2. CASE ~s.frozen
  <2> DEFINE no == << >>
             u  == [s EXCEPT !.samples = no]
  <2>1. plotClear(s) = u
    BY <1>2 DEF plotClear
  <2>2. no \in Seq(Samples) /\ Len(no) = 0
    OBVIOUS
  <2>3. Along(no, s.times) /\ s.span \in Nat
    <3>1. s.times \in Seq(Int) /\ s.span \in Spans
      BY DEF Sound, Fields
    <3>2. s.span \in Nat
      BY <3>1, SpanNat
    <3>3. Len(s.times) \in Nat
      BY <3>1
    <3> HIDE DEF no
    <3> QED
      BY <2>2, <3>2, <3>3 DEF Along
  <2> HIDE DEF no
  <2>4. Replaces(s, u)
    <3>1. Fields(u)
      BY <2>2 DEF Sound, Fields
    <3> QED
      BY <2>2, <2>3, <3>1 DEF Sound, Fields, Replaces
  <2> HIDE DEF u
  <2> QED
    BY <1>2, <2>1, <2>4, ReplacesSound DEF Replaces
<1> QED
  BY <1>1, <1>2

LEMMA SpanSound ==
  ASSUME NEW s, Sound(s), ~s.frozen, NEW n \in Spans
  PROVE  Step(s, [s EXCEPT !.span = n, !.samples = trimToMax(@, n)])
<1> DEFINE q == trimToMax(s.samples, n)
           u == [s EXCEPT !.span = n, !.samples = q]
<1>1. s.samples \in Seq(Samples) /\ s.times \in Seq(Int) /\ n \in Nat
  BY SpanNat DEF Sound, Fields
<1>2. q \in Seq(Samples) /\ Len(q) <= n
  <2>1. q \in Seq(Samples) /\ Len(q) = IF Len(s.samples) > n THEN n ELSE Len(s.samples)
    BY <1>1, TrimIs
  <2> QED
    BY <1>1, <2>1
<1>3. ~s.mixed => Along(q, s.times)
  <2>1. ~s.mixed => Along(s.samples, s.times)
    BY DEF Sound, Joined, Shown
  <2> QED
    BY <1>1, <2>1, TrimAlong
<1> HIDE DEF q
<1>4. Fields(u)
  BY <1>2 DEF Sound, Fields
<1>5. /\ u.samples = q /\ u.span = n /\ u.times = s.times /\ u.frozen = s.frozen
      /\ u.mixed = s.mixed /\ u.capture = s.capture /\ u.saved = s.saved
      /\ u.recording = s.recording /\ u.next = s.next /\ u.playing = s.playing
      /\ u.index = s.index /\ u.file = s.file
  BY DEF Sound, Fields
<1>6. u = [s EXCEPT !.span = n, !.samples = trimToMax(@, n)]
  BY DEF q
<1> HIDE DEF u
<1>7. Sizes(u) /\ Gapless(u)
  BY <1>2, <1>5 DEF Sound, Sizes, Gapless
<1>8. Joined(u)
  BY <1>3, <1>5 DEF Sound, Joined, Shown
<1>9. Step(s, u)
  BY <1>4, <1>5, <1>7, <1>8 DEF Sound, Step
<1> QED
  BY <1>6, <1>9

\* The record button.
Recorded(s, u) ==
    /\ Fields(u) /\ u.samples = s.samples /\ u.snapshot = s.snapshot /\ u.times = s.times
    /\ u.span = s.span /\ u.frozen = s.frozen /\ u.mixed = s.mixed
    /\ u.next = s.next /\ u.playing = s.playing /\ u.index = s.index /\ u.file = s.file
    /\ \/ u.capture = << >> /\ u.saved = s.saved
       \/ ~u.recording /\ u.capture = s.capture /\ u.saved \in {s.saved, s.capture}

LEMMA RecordedSound ==
  ASSUME NEW s, Sound(s), NEW u, Recorded(s, u)
  PROVE  Step(s, u)
<1> USE DEF Recorded
<1>1. Fields(u) /\ Shown(u) = Shown(s)
  BY DEF Shown
<1>2. Len(<< >>) = 0 /\ Whole(<< >>) /\ kMaxCaptureSamples \in Nat
  BY SpanNat DEF Whole
<1>3. Sizes(u)
  BY <1>2 DEF Sound, Sizes
<1>4. Gapless(u)
  BY <1>2 DEF Sound, Gapless
<1>5. Joined(u)
  BY <1>1 DEF Sound, Joined
<1> QED
  BY <1>1, <1>3, <1>4, <1>5 DEF Sound, Step

LEMMA StartSound ==
  ASSUME NEW s, Sound(s)
  PROVE  Step(s, startRecording(s))
<1>1. CASE s.recording
  BY <1>1 DEF startRecording, Step
<1>2. CASE ~s.recording
  <2> DEFINE b == FALSE
             v == setFrozen(s, b)
             u == [v EXCEPT !.recording = TRUE, !.capture = << >>]
  <2>1. Step(s, v) /\ v.frozen = FALSE
    <3>1. b \in BOOLEAN
      OBVIOUS
    <3>2. Step(s, v) /\ v.frozen = b
      <4> HIDE DEF b
      <4> QED
        BY <3>1, FrozenSet DEF FreezeSet
    <3> QED
      BY <3>2
  <2>2. startRecording(s) = u
    BY <1>2 DEF startRecording
  <2> HIDE DEF v
  <2>3. Recorded(v, u)
    <3>1. Fields(u)
      <4> DEFINE no == << >>
      <4>1. no \in Seq(Entries) /\ Fields(v) /\ u = [v EXCEPT !.recording = TRUE, !.capture = no]
        BY <2>1 DEF Step, Sound
      <4> HIDE DEF no
      <4> QED
        BY <4>1 DEF Fields
    <3> QED
      BY <2>1, <3>1 DEF Step, Sound, Fields, Recorded
  <2>4. u.frozen = FALSE
    BY <2>1, <2>3 DEF Recorded
  <2> HIDE DEF u
  <2>5. Step(v, u)
    BY <2>1, <2>3, RecordedSound DEF Step
  <2> QED
    BY <2>2, <2>4, <2>5 DEF Step
<1> QED
  BY <1>1, <1>2

LEMMA StopsSound ==
  ASSUME NEW s, Sound(s)
  PROVE  Step(s, stopRecording(s))
<1>1. CASE ~s.recording
  BY <1>1 DEF stopRecording, Step
<1>2. CASE s.recording
  <2> DEFINE r == [s EXCEPT !.recording = FALSE]
             b == TRUE
             v == setFrozen(r, b)
             u == [v EXCEPT !.visible = TRUE]
             w == saveCapture(u)
  <2>1. Recorded(s, r) /\ r.recording = FALSE
    <3>1. Fields(r)
      BY DEF Sound, Fields
    <3> QED
      BY <3>1 DEF Sound, Fields, Recorded
  <2> HIDE DEF r
  <2>2. Step(s, r) /\ r.frozen = s.frozen
    BY <2>1, RecordedSound DEF Recorded
  <2>3. Step(r, v) /\ v.frozen = TRUE /\ v.recording = FALSE
    <3>1. b \in BOOLEAN /\ Sound(r)
      BY <2>2 DEF Step
    <3>2. Step(r, v) /\ v.frozen = b /\ v.recording = r.recording
      <4> HIDE DEF b
      <4> QED
        BY <3>1, FrozenSet DEF FreezeSet
    <3> QED
      BY <2>1, <3>2
  <2> HIDE DEF v
  <2>4. Same(v, u) /\ u.recording = FALSE
    <3>1. Sound(v)
      BY <2>3 DEF Step
    <3>2. Same(v, u)
      <4> DEFINE yes == TRUE
      <4>1. yes \in BOOLEAN
        OBVIOUS
      <4>2. Same(v, [v EXCEPT !.visible = yes])
        <5> HIDE DEF yes
        <5> QED
          BY <3>1, <4>1, VisibleSame
      <4> QED
        BY <4>2
    <3> QED
      BY <2>3, <3>2 DEF Same
  <2> HIDE DEF u
  <2>5. Step(v, u) /\ u.frozen = TRUE
    BY <2>3, <2>4, SameSound DEF Same, Step
  <2>6. Recorded(u, w)
    <3>1. w = [u EXCEPT !.saved = u.capture]
      BY DEF saveCapture
    <3> HIDE DEF w
    <3>2. Fields(w)
      BY <2>5, <3>1 DEF Step, Sound, Fields
    <3> QED
      BY <2>4, <2>5, <3>1, <3>2 DEF Step, Sound, Fields, Recorded
  <2>7. Step(u, w) /\ w.frozen = TRUE
    <3> HIDE DEF w
    <3> QED
      BY <2>5, <2>6, RecordedSound DEF Recorded, Step
  <2>8. stopRecording(s) = IF Len(s.capture) >= 2 THEN w ELSE u
    BY <1>2 DEF stopRecording, r, v, u
  <2> HIDE DEF w
  <2>9. Step(s, u) /\ Step(s, w)
    BY <2>2, <2>3, <2>5, <2>7 DEF Step
  <2> QED
    BY <2>8, <2>9
<1> QED
  BY <1>1, <1>2

\* A playback gets a span that there is.
LEMMA SpanForIs ==
  ASSUME NEW f
  PROVE  spanFor(f) \in Spans
<1> DEFINE fit == {n \in Spans : n >= Last(f) + 2}
<1>1. spanFor(f) = IF fit = {} THEN Longest ELSE CHOOSE n \in fit : \A m \in fit : n <= m
  BY DEF spanFor
<1>2. fit \subseteq Spans /\ fit \in SUBSET Nat
  BY SpanNat
<1> HIDE DEF fit
<1>3. CASE fit = {}
  BY <1>1, <1>3, SpanNat
<1>4. CASE fit # {}
  <2>1. \E m \in fit : \A n \in fit : m <= n
    BY <1>2, <1>4, LeastNat
  <2> QED
    BY <1>1, <1>2, <1>4, <2>1
<1> QED
  BY <1>3, <1>4

\* A playback starts live, and its first samples are injected at once.
LEMMA PlaySound ==
  ASSUME NEW s, Sound(s), NEW f \in Seq(Int), NEW now \in Int,
         NEW wants \in [1 .. MaxPerTick -> BOOLEAN]
  PROVE  LET r == startPlayback(s, f, now, wants) IN
         Sound(r.state) /\ Timely(r.state, r.fed) /\ r.state.frozen = FALSE
<1> DEFINE b == FALSE
           w == stopPlayback(s)
           v == setFrozen(w, b)
           n == spanFor(f)
           u == [v EXCEPT !.target = TRUE, !.recording = FALSE, !.capture = << >>,
                          !.samples = << >>, !.times = << >>, !.key = FALSE, !.last = -1,
                          !.clock = -1, !.mixed = FALSE, !.span = n, !.file = f,
                          !.index = 0, !.playing = TRUE, !.start = now]
<1>1. Sound(v) /\ v.frozen = FALSE
  <2>1. b \in BOOLEAN /\ Sound(w)
    BY StopSound DEF Step
  <2>2. Sound(v) /\ v.frozen = b
    <3> HIDE DEF b, w
    <3> QED
      BY <2>1, FrozenSet DEF FreezeSet, Step
  <2> QED
    BY <2>2
<1>2. startPlayback(s, f, now, wants) = onPlaybackTick(u, now, wants)
  BY DEF startPlayback
<1>3. n \in Spans
  BY SpanForIs
<1> HIDE DEF v, n
<1>4. Fields(u)
  <2> DEFINE B  == BOOLEAN
             QS == Seq(Samples)
             QE == Seq(Entries)
             QI == Seq(Int)
             I  == Int
             N  == Nat
             no == << >>
             one == -1
             nil == 0
             yes == TRUE
             off == FALSE
  <2>1. /\ v \in Shape(B, QS, QE, QI, I, N) /\ off \in B /\ yes \in B /\ one \in I
        /\ no \in QS /\ no \in QE /\ no \in QI /\ nil \in N /\ f \in QI /\ now \in I
        /\ u = [v EXCEPT !.target = yes, !.recording = off, !.capture = no,
                         !.samples = no, !.times = no, !.key = off, !.last = one,
                         !.clock = one, !.mixed = off, !.span = n, !.file = f,
                         !.index = nil, !.playing = yes, !.start = now]
    BY <1>1, FieldsShape DEF Sound
  <2> HIDE DEF B, QS, QE, QI, I, N, no, one, yes, off, nil, u
  <2>2. u \in Shape(B, QS, QE, QI, I, N)
    BY <1>3, <2>1 DEF Shape
  <2> QED
    BY <2>2, FieldsShape DEF B, QS, QE, QI, I, N
<1>5. /\ u.frozen = FALSE /\ u.samples = << >> /\ u.capture = << >> /\ u.saved = v.saved
      /\ u.playing = TRUE /\ u.index = 0 /\ u.file = f
  BY <1>1 DEF Sound, Fields
<1> HIDE DEF u
<1>6. Empty(u) /\ Whole(u.saved)
  <2>1. Len(f) \in Nat /\ Whole(v.saved)
    BY <1>1 DEF Sound, Gapless
  <2> QED
    BY <1>4, <1>5, <2>1 DEF Empty
<1>7. Sound(u)
  BY <1>6, EmptySound
<1> QED
  BY <1>2, <1>5, <1>7, TickSound

LEMMA CapturesAre ==
  ASSUME Fields(scope), NEW f \in Captures
  PROVE  f \in Seq(Int)
<1>1. CASE f \in Files
  <2>1. f \in Seq(Nat)
    BY <1>1, WindowsAssumption DEF TraceAssumption
  <2> QED
    BY <2>1
<1>2. CASE f = loadCwTraceFile(scope.saved)
  <2>1. scope.saved \in Seq(Entries)
    BY DEF Fields
  <2>2. ASSUME NEW i \in 1 .. Len(scope.saved)
        PROVE  scope.saved[i].t - scope.saved[1].t \in Int
    <3>1. scope.saved[i] \in Entries /\ scope.saved[1] \in Entries
      BY <2>1
    <3> QED
      BY <3>1 DEF Entries
  <2> QED
    BY <1>2, <2>1, <2>2 DEF loadCwTraceFile
<1> QED
  BY <1>1, <1>2 DEF Captures
-------------------------------------------------------------------------------
(* Every step.                                                               *)
LEMMA InitInv ==
  ASSUME Init
  PROVE  IInv
<1>1. Fields(scope)
  BY SpanNat DEF Init, Fields
<1>2. /\ scope.frozen = FALSE /\ scope.samples = << >> /\ scope.capture = << >>
      /\ scope.playing = FALSE /\ scope.saved = << >>
  BY DEF Init
<1>3. Empty(scope) /\ Whole(scope.saved)
  BY <1>1, <1>2 DEF Empty, Whole
<1>4. Sound(scope)
  BY <1>3, EmptySound
<1>5. Timely(scope, fed)
  BY DEF Init, Timely
<1>6. wall \in 0 .. MaxWall /\ asks \in 0 .. MaxAsks
  BY SpanNat DEF Init
<1> QED
  BY <1>4, <1>5, <1>6 DEF IInv

Moves == /\ Step(scope, scope') /\ Timely(scope', fed')
         /\ wall' \in 0 .. MaxWall /\ asks' \in 0 .. MaxAsks

LEMMA NextMoves ==
  ASSUME IInv, Next
  PROVE  Moves
<1>1. Sound(scope) /\ wall \in Int /\ MaxWall \in Nat /\ MaxAsks \in Nat
      /\ wall \in 0 .. MaxWall /\ asks \in 0 .. MaxAsks
  BY SpanNat DEF IInv
<1>2. Fields(scope) /\ scope.frozen \in BOOLEAN /\ scope.playing \in BOOLEAN
  BY <1>1 DEF Sound, Fields
<1>3. \A u : Timely(u, << >>)
  BY DEF Timely
<1>4. ASSUME NEW u, Step(scope, u), Do(u)
      PROVE  Moves
  BY <1>1, <1>3, <1>4 DEF Do, Asked, Moves
<1>5. CASE Column
  <2>1. PICK wantHigh \in BOOLEAN :
             LET r == appendSample(scope, -1, wantHigh) IN scope' = r.state /\ fed' = r.fed
    BY <1>5 DEF Column
  <2>2. ~scope.frozen /\ -1 \in Int
    BY <1>5 DEF Column, Live
  <2> DEFINE r   == appendSample(scope, -1, wantHigh)
             one == -1
  <2>3. Sound(r.state) /\ Timely(r.state, r.fed) /\ r.state.frozen = scope.frozen
    <3>1. one \in Int
      OBVIOUS
    <3> DEFINE q == appendSample(scope, one, wantHigh)
    <3> HIDE DEF one
    <3>2. Sound(q.state) /\ Timely(q.state, q.fed) /\ q.state.frozen = scope.frozen
      BY <1>1, <2>2, <3>1, AppendSound
    <3> QED
      BY <3>2 DEF one
  <2>4. scope' = r.state /\ fed' = r.fed /\ wall' = wall /\ asks' = asks
    BY <1>5, <2>1 DEF Column
  <2> HIDE DEF r
  <2> QED
    BY <1>1, <2>2, <2>3, <2>4 DEF Moves, Step
<1>6. CASE Tick
  <2>1. PICK wants \in [1 .. MaxPerTick -> BOOLEAN] :
             LET r == onPlaybackTick(scope, wall, wants) IN scope' = r.state /\ fed' = r.fed
    BY <1>6 DEF Tick
  <2> DEFINE r == onPlaybackTick(scope, wall, wants)
  <2>2. scope.playing
    BY <1>6 DEF Tick
  <2>3. /\ Sound(r.state) /\ Timely(r.state, r.fed)
        /\ r.state.frozen = scope.frozen /\ r.state.snapshot = scope.snapshot
    BY <1>1, <2>2, TickSound
  <2>4. scope' = r.state /\ fed' = r.fed /\ wall' = wall /\ asks' = asks
    BY <1>6, <2>1 DEF Tick
  <2> HIDE DEF r
  <2> QED
    BY <1>1, <2>3, <2>4 DEF Moves, Step, Shown
<1>7. CASE Clock
  BY <1>1, <1>3, <1>7 DEF Clock, Moves, Step
<1>8. CASE \E n \in Histories : onSignalTraceRequested(n) \/ onFreqSliderChanged(n)
  <2>1. PICK n \in Histories : onSignalTraceRequested(n) \/ onFreqSliderChanged(n)
    BY <1>8
  <2>2. n \in Nat
    BY SpanNat
  <2>3. CASE onSignalTraceRequested(n)
    <3> DEFINE v   == setTarget(scope)
               nil == 0
               yes == TRUE
               u   == seedHistory(v, n, nil)
               w   == [u EXCEPT !.visible = yes]
    <3>1. Sound(v) /\ v.frozen = FALSE
      BY <1>1, TargetSound
    <3>2. nil \in Int /\ yes \in BOOLEAN
      OBVIOUS
    <3>3. Step(v, u) /\ u.frozen = FALSE
      <4> HIDE DEF v, nil
      <4> QED
        BY <2>2, <3>1, <3>2, SeedSound
    <3>4. scope' = w /\ fed' = << >> /\ wall' = 0 /\ asks' = asks + 1 /\ asks < MaxAsks
      BY <2>3 DEF onSignalTraceRequested, Asked
    <3> HIDE DEF u
    <3>5. Sound(w) /\ w.frozen = FALSE
      <4> HIDE DEF yes
      <4>1. Sound(u)
        BY <3>3 DEF Step
      <4>2. Same(u, w)
        BY <3>2, <4>1, VisibleSame
      <4> HIDE DEF w
      <4> QED
        BY <3>3, <4>1, <4>2, SameSound DEF Step, Same
    <3> HIDE DEF w
    <3> QED
      BY <1>1, <1>3, <3>4, <3>5 DEF Moves, Step
  <2>4. CASE onFreqSliderChanged(n)
    <3> DEFINE v == plotClear(scope)
               u == seedHistory(v, n, wall)
    <3>1. ~scope.frozen /\ Do(u)
      BY <2>4 DEF onFreqSliderChanged, reseedTraceFromWaterfall
    <3>2. Sound(v) /\ v.frozen = scope.frozen
      BY <1>1, PlotClears DEF Step
    <3>3. Sound(u)
      <4> HIDE DEF v
      <4> QED
        BY <1>1, <2>2, <3>2, SeedSound DEF Step
    <3> HIDE DEF u
    <3> QED
      BY <1>4, <3>1, <3>3 DEF Step
  <2> QED
    BY <2>1, <2>3, <2>4
<1>9. CASE \E n \in Spans : onSpanChanged(n)
  <2>1. PICK n \in Spans : onSpanChanged(n)
    BY <1>9
  <2> DEFINE u == [scope EXCEPT !.span = n, !.samples = trimToMax(@, n)]
  <2>2. ~scope.frozen /\ Do(u)
    BY <2>1 DEF onSpanChanged
  <2>3. Step(scope, u)
    BY <1>1, <2>2, SpanSound
  <2> HIDE DEF u
  <2> QED
    BY <1>4, <2>2, <2>3
<1>10. CASE \E f \in Captures : Play(f)
  <2>1. PICK f \in Captures : Play(f)
    BY <1>10
  <2>2. f \in Seq(Int)
    BY <1>2, CapturesAre
  <2> DEFINE yes == TRUE
             s   == [scope EXCEPT !.visible = yes]
  <2>3. Sound(s)
    <3>1. yes \in BOOLEAN
      OBVIOUS
    <3> HIDE DEF yes
    <3>2. Same(scope, s)
      BY <1>1, <3>1, VisibleSame
    <3> HIDE DEF s
    <3> QED
      BY <1>1, <3>2, SameSound DEF Step
  <2>4. PICK wants \in [1 .. MaxPerTick -> BOOLEAN] :
             LET r == startPlayback(s, f, wall, wants) IN scope' = r.state /\ fed' = r.fed
    BY <2>1 DEF Play
  <2> DEFINE r == startPlayback(s, f, wall, wants)
  <2>5. Sound(r.state) /\ Timely(r.state, r.fed) /\ r.state.frozen = FALSE
    <3> HIDE DEF s
    <3> QED
      BY <1>1, <2>2, <2>3, PlaySound
  <2>6. scope' = r.state /\ fed' = r.fed /\ wall' = wall /\ asks' = asks + 1 /\ asks < MaxAsks
    BY <2>1, <2>4 DEF Play, Asked
  <2> HIDE DEF r
  <2> QED
    BY <1>1, <2>5, <2>6 DEF Moves, Step
<1>11. CASE PlayFails \/ closeEvent
  <2> DEFINE u == stopPlayback(scope)
  <2>1. Sound(u) /\ Step(scope, u) /\ u.frozen = scope.frozen
    BY <1>1, StopSound DEF Landed, Step
  <2>2. PICK b \in BOOLEAN : Do([u EXCEPT !.visible = b])
    BY <1>11 DEF PlayFails, closeEvent
  <2> DEFINE w == [u EXCEPT !.visible = b]
  <2> HIDE DEF u
  <2>3. Same(u, w)
    BY <2>1, VisibleSame
  <2>4. Do(w)
    BY <2>2
  <2> HIDE DEF w
  <2>5. Step(u, w) /\ w.frozen = u.frozen
    BY <2>1, <2>3, SameSound DEF Same
  <2>6. Step(scope, w)
    BY <2>1, <2>5 DEF Step
  <2> QED
    BY <1>4, <2>4, <2>6
<1>12. CASE onFreezeToggled
  <2> DEFINE b == ~scope.frozen
             u == setFrozen(scope, b)
  <2>1. b \in BOOLEAN /\ Do(u)
    BY <1>2, <1>12 DEF onFreezeToggled
  <2> HIDE DEF b
  <2>2. Step(scope, u)
    BY <1>1, <2>1, FrozenSet DEF FreezeSet
  <2> HIDE DEF u
  <2> QED
    BY <1>4, <2>1, <2>2
<1>13. CASE onClearClicked
  <2> DEFINE u == clearTrace(scope)
  <2>1. Do(u) /\ Step(scope, u)
    BY <1>1, <1>13, ClearSound DEF onClearClicked, Step
  <2> HIDE DEF u
  <2> QED
    BY <1>4, <2>1
<1>14. CASE onRecordToggled
  <2> DEFINE v == stopRecording(scope)
             w == startRecording(scope)
             u == IF scope.recording THEN v ELSE w
  <2>1. Do(u)
    BY <1>14 DEF onRecordToggled
  <2>2. Step(scope, v) /\ Step(scope, w)
    BY <1>1, StartSound, StopsSound
  <2> HIDE DEF v, w
  <2>3. Step(scope, u)
    BY <2>2
  <2> HIDE DEF u
  <2> QED
    BY <1>4, <2>1, <2>3
<1>15. CASE onStopPlaybackClicked
  <2> DEFINE u == stopPlayback(scope)
  <2>1. Do(u) /\ Step(scope, u)
    BY <1>1, <1>15, StopSound DEF onStopPlaybackClicked
  <2> HIDE DEF u
  <2> QED
    BY <1>4, <2>1
<1> QED
  BY <1>5, <1>6, <1>7, <1>8, <1>9, <1>10, <1>11, <1>12, <1>13, <1>14, <1>15 DEF Next

LEMMA StutterMoves ==
  ASSUME IInv, UNCHANGED vars
  PROVE  Moves
BY DEF IInv, Moves, Step, Timely, vars

LEMMA MovesInv == Moves => IInv'
<1> SUFFICES ASSUME Moves PROVE IInv'
  OBVIOUS
<1> DEFINE s == scope'
<1>1. Sound(s)
  BY DEF Moves, Step
<1>2. Sound(scope)'
  BY <1>1 DEF Sound, Fields, Sizes, Joined, Gapless, Whole, Along, Shown
<1> QED
  BY <1>2 DEF Moves, IInv, Timely

LEMMA InvWhole ==
  ASSUME IInv
  PROVE  TraceWhole
<1>1. Fields(scope) /\ Sizes(scope) /\ Gapless(scope)
  BY DEF IInv, Sound
<1>2. TypeOK
  <2>1. scope.span \in Spans /\ scope.index \in Nat /\ scope.file \in Seq(Int)
    BY <1>1 DEF Fields
  <2>2. scope.index >= 0 /\ Len(scope.file) \in Nat
    BY <2>1
  <2> QED
    BY <1>1, <2>1, <2>2 DEF IInv, Sizes, TypeOK
<1>3. FedAtItsTime
  BY DEF IInv, Timely, FedAtItsTime
<1>4. RecordingWhole
  BY <1>1 DEF Gapless, RecordingWhole, Last
<1> QED
  BY <1>2, <1>3, <1>4 DEF TraceWhole

(* The decoder is given every sample with the time it came at, unless a       *)
(* freeze during a playback mixed the lists of samples and times, and a       *)
(* recording holds every sample since it began, whatever is clicked, played,  *)
(* seeded, trimmed, frozen and recorded in between.                           *)
THEOREM TraceIsWhole == Spec => []TraceWhole
<1>1. Init => IInv
  BY InitInv
<1>2. IInv /\ [Next]_vars => IInv'
  BY NextMoves, StutterMoves, MovesInv
<1>3. IInv => TraceWhole
  BY InvWhole
<1> QED
  BY <1>1, <1>2, <1>3, PTL DEF Spec

(* What is frozen for copying by hand is touched by nothing until the trace   *)
(* is live again, not by the samples of a playback that goes on either.       *)
THEOREM FrozenIsKept == Spec => FrozenStays
<1>1. Init => IInv
  BY InitInv
<1>2. IInv /\ [Next]_vars => IInv'
  BY NextMoves, StutterMoves, MovesInv
<1>3. IInv /\ [Next]_vars
        => [scope.frozen /\ scope'.frozen => Shown(scope') = Shown(scope)]_vars
  <2> SUFFICES ASSUME IInv, [Next]_vars
               PROVE  scope.frozen /\ scope'.frozen => Shown(scope') = Shown(scope)
    OBVIOUS
  <2>1. Moves
    BY NextMoves, StutterMoves
  <2> QED
    BY <2>1 DEF Moves, Step
<1> QED
  BY <1>1, <1>2, <1>3, PTL DEF Spec, FrozenStays

\* The trace of the windows that run together is one of these.
THEOREM WindowsTrace == WindowsSpec => Spec
<1>1. WindowsInit => Init
  BY DEF WindowsInit
<1>2. [WindowsNext]_all => [Next]_vars
  BY DEF WindowsNext, all, trace, vars
<1> QED
  BY <1>1, <1>2, PTL DEF WindowsSpec, Spec

-------------------------------------------------------------------------------
(* Letters and their marks.                                                  *)
\* A sequence without its zeros rises; those of one precede those of another.
Asc(l) == \A k, n \in 1 .. Len(l) : k < n /\ l[k] # 0 /\ l[n] # 0 => l[k] < l[n]
Before(l, r) ==
    \A k \in 1 .. Len(l), n \in 1 .. Len(r) : l[k] # 0 /\ r[n] # 0 => l[k] < r[n]

Rising(t) == /\ \A i \in 1 .. Len(t) : Asc(t[i])
             /\ \A i, j \in 1 .. Len(t) : i < j => Before(t[i], t[j])

Holds(l, m) == \E k \in 1 .. Len(l) : l[k] = m
MarksOf(t)  == {m \in Nat : \E i \in 1 .. Len(t) : Holds(t[i], m)}

\* What FlattenSeq of the community modules says, where the windows use it.
Flat(t) ==
  IF Len(t) = 0 THEN t ELSE
    LET flatten[i \in 1 .. Len(t)] == IF i = 1 THEN t[i] ELSE flatten[i - 1] \o t[i]
    IN flatten[Len(t)]

LEMMA FlattensAreFlat ==
  ASSUME NEW t
  PROVE  Threshold!FlattenSeq(t) = Flat(t) /\ Mask!FlattenSeq(t) = Flat(t)
BY DEF Threshold!FlattenSeq, Mask!FlattenSeq, Flat

\* f joins the first pieces of t.
Joins(t, f) == /\ f[1] = t[1]
               /\ \A i \in 2 .. Len(t) : f[i] = f[i - 1] \o t[i]

LEMMA FlatJoins ==
  ASSUME NEW t, Len(t) \in Nat \ {0}
  PROVE  \E f : Joins(t, f) /\ Flat(t) = f[Len(t)]
<1> DEFINE n == Len(t)
           F(f, i) == IF i = 1 THEN t[i] ELSE f[i - 1] \o t[i]
           Works(k, f) == /\ f = [i \in 1 .. k |-> f[i]]
                          /\ \A i \in 1 .. k : f[i] = F(f, i)
           S == {k \in 0 .. n : \E f : Works(k, f)}
<1>1. n \in Nat \ {0}
  OBVIOUS
<1> HIDE DEF n
<1>2. 0 \in S
  <2>1. Works(0, [i \in 1 .. 0 |-> t[i]])
    OBVIOUS
  <2> HIDE DEF Works
  <2> QED
    BY <1>1, <2>1
<1>3. \A k \in 1 .. n : k - 1 \in S => k \in S
  <2> SUFFICES ASSUME NEW k \in 1 .. n, k - 1 \in S PROVE \E g : Works(k, g)
    <3> HIDE DEF Works
    <3>1. \A k \in 1 .. n : k \in 0 .. n
      BY <1>1
    <3> QED
      BY <3>1
  <2>1. PICK f : Works(k - 1, f)
    OBVIOUS
  <2> DEFINE g == [i \in 1 .. k |-> IF i = k THEN F(f, k) ELSE f[i]]
  <2>2. \A i \in 1 .. k : g[i] = F(g, i)
    <3> SUFFICES ASSUME NEW i \in 1 .. k PROVE g[i] = F(g, i)
      OBVIOUS
    <3>1. i # 1 => i - 1 \in 1 .. k /\ i - 1 # k /\ g[i - 1] = f[i - 1]
      BY <1>1
    <3>2. F(g, i) = F(f, i)
      BY <3>1
    <3> HIDE DEF F
    <3>3. g[i] = IF i = k THEN F(f, k) ELSE f[i]
      OBVIOUS
    <3>4. i # k => f[i] = F(f, i)
      BY <1>1, <2>1
    <3> HIDE DEF g
    <3> QED
      BY <3>2, <3>3, <3>4
  <2>3. g = [i \in 1 .. k |-> g[i]]
    OBVIOUS
  <2> HIDE DEF g, F
  <2> QED
    BY <2>2, <2>3
<1>4. n \in S
  <2> HIDE DEF S
  <2>1. 0 .. n \subseteq S
    BY <1>1, <1>2, <1>3, UpTo
  <2> QED
    BY <1>1, <2>1
<1>5. PICK f : Works(n, f)
  BY <1>4
<1>6. f = [i \in 1 .. n |-> F(f, i)]
  BY <1>5
<1> DEFINE D(h) == h = [i \in 1 .. n |-> F(h, i)]
           K == CHOOSE h : D(h)
<1>7. Flat(t) = K[n]
  BY <1>1 DEF Flat, n
<1>8. D(K)
  <2>1. D(f)
    BY <1>6
  <2> HIDE DEF D
  <2> QED
    BY <2>1
<1> HIDE DEF K
<1>9. \A i \in 1 .. n : K[i] = F(K, i)
  BY <1>8
<1>10. K[1] = t[1] /\ \A i \in 2 .. n : K[i] = K[i - 1] \o t[i]
  <2>1. 1 \in 1 .. n
    BY <1>1
  <2>2. \A i \in 2 .. n : i \in 1 .. n /\ i # 1
    BY <1>1
  <2> QED
    BY <1>9, <2>1, <2>2
<1> QED
  BY <1>7, <1>10 DEF n, Joins

\* c has the elements of l, of length a, and behind them those of r.
PartsAt(c, l, r, a, b) ==
    /\ a \in Nat /\ b \in Nat /\ Len(c) = a + b
    /\ \A i \in 1 .. a : i \in 1 .. Len(c) /\ c[i] = l[i]
    /\ \A i \in 1 .. b : a + i \in 1 .. Len(c) /\ c[a + i] = r[i]
    /\ \A i \in 1 .. Len(c) : \/ i \in 1 .. a /\ c[i] = l[i]
                              \/ i - a \in 1 .. b /\ c[i] = r[i - a]
Parts(c, l, r) == PartsAt(c, l, r, Len(l), Len(r))

LEMMA PartsOf ==
  ASSUME NEW S, NEW l \in Seq(S), NEW r \in Seq(S)
  PROVE  l \o r \in Seq(S) /\ Parts(l \o r, l, r)
<1>1. Len(l) \in Nat /\ Len(r) \in Nat
  OBVIOUS
<1>2. /\ l \o r \in Seq(S) /\ Len(l \o r) = Len(l) + Len(r)
      /\ \A i \in 1 .. Len(l) + Len(r) :
             (l \o r)[i] = IF i <= Len(l) THEN l[i] ELSE r[i - Len(l)]
  BY ConcatProperties
<1> DEFINE c == l \o r
           a == Len(l)
           b == Len(r)
<1>3. \A i \in 1 .. a + b : c[i] = IF i <= a THEN l[i] ELSE r[i - a]
  BY <1>2
<1>4. Len(c) = a + b /\ a \in Nat /\ b \in Nat
  BY <1>1, <1>2
<1> HIDE DEF a, b, c
<1>5. \A i \in 1 .. a : i \in 1 .. a + b /\ i <= a
  BY <1>4
<1>6. \A i \in 1 .. b : a + i \in 1 .. a + b /\ ~(a + i <= a) /\ (a + i) - a = i
  BY <1>4
<1>8. \A i \in 1 .. a : i \in 1 .. Len(c) /\ c[i] = l[i]
  BY <1>3, <1>4, <1>5
<1>9. \A i \in 1 .. b : a + i \in 1 .. Len(c) /\ c[a + i] = r[i]
  BY <1>3, <1>4, <1>6
<1>10. ASSUME NEW i \in 1 .. Len(c)
       PROVE  \/ i \in 1 .. a /\ c[i] = l[i]
              \/ i - a \in 1 .. b /\ c[i] = r[i - a]
  <2>1. i \in 1 .. a + b
    BY <1>4
  <2>2. CASE i <= a
    BY <1>3, <1>4, <2>1, <2>2
  <2>3. CASE ~(i <= a)
    BY <1>3, <1>4, <2>1, <2>3
  <2> QED
    BY <2>2, <2>3
<1>11. Parts(c, l, r)
  <2>2. \A i \in 1 .. Len(c) : \/ i \in 1 .. a /\ c[i] = l[i]
                               \/ i - a \in 1 .. b /\ c[i] = r[i - a]
    BY <1>10
  <2>1. PartsAt(c, l, r, a, b)
    BY <1>4, <1>8, <1>9, <2>2 DEF PartsAt
  <2> QED
    BY <2>1 DEF a, b, Parts
<1> QED
  BY <1>2, <1>11 DEF c

\* What is said of two sequences put together.
LEMMA AscJoined ==
  ASSUME NEW l \in Seq(Nat), NEW r \in Seq(Nat), Asc(l), Asc(r), Before(l, r)
  PROVE  Asc(l \o r)
<1> DEFINE c == l \o r
           a == Len(l)
           b == Len(r)
<1>1. /\ a \in Nat /\ b \in Nat /\ Len(c) \in Nat /\ Len(c) = a + b
      /\ \A i \in 1 .. a : i \in 1 .. Len(c) /\ c[i] = l[i]
      /\ \A i \in 1 .. b : a + i \in 1 .. Len(c) /\ c[a + i] = r[i]
      /\ \A i \in 1 .. Len(c) : \/ i \in 1 .. a /\ c[i] = l[i]
                                \/ i - a \in 1 .. b /\ c[i] = r[i - a]
  <2> HIDE DEF c
  <2>1. Parts(c, l, r)
    BY PartsOf DEF c
  <2> QED
    BY <2>1 DEF Parts, PartsAt
<1>2. \A k, n \in 1 .. a : k < n /\ l[k] # 0 /\ l[n] # 0 => l[k] < l[n]
  BY DEF Asc
<1>3. \A k, n \in 1 .. b : k < n /\ r[k] # 0 /\ r[n] # 0 => r[k] < r[n]
  BY DEF Asc
<1>4. \A k \in 1 .. a, n \in 1 .. b : l[k] # 0 /\ r[n] # 0 => l[k] < r[n]
  BY DEF Before
<1> HIDE DEF a, b, c
<1>6. ASSUME NEW k \in 1 .. Len(c), NEW n \in 1 .. Len(c), k < n, c[k] # 0, c[n] # 0
      PROVE  c[k] < c[n]
  <2>1. CASE k \in 1 .. a /\ c[k] = l[k] /\ n \in 1 .. a /\ c[n] = l[n]
    BY <1>2, <1>6, <2>1
  <2>2. CASE k \in 1 .. a /\ c[k] = l[k] /\ n - a \in 1 .. b /\ c[n] = r[n - a]
    BY <1>4, <1>6, <2>2
  <2>3. CASE k - a \in 1 .. b /\ c[k] = r[k - a] /\ n \in 1 .. a /\ c[n] = l[n]
    BY <1>1, <1>6, <2>3
  <2>4. CASE k - a \in 1 .. b /\ c[k] = r[k - a] /\ n - a \in 1 .. b /\ c[n] = r[n - a]
    <3>1. k - a < n - a
      BY <1>1, <1>6
    <3> QED
      BY <1>3, <1>6, <2>4, <3>1
  <2> QED
    BY <1>1, <2>1, <2>2, <2>3, <2>4
<1> QED
  BY <1>6 DEF Asc, c

LEMMA HoldsJoined ==
  ASSUME NEW S, NEW l \in Seq(S), NEW r \in Seq(S), NEW m
  PROVE  Holds(l \o r, m) <=> Holds(l, m) \/ Holds(r, m)
<1> DEFINE c == l \o r
           a == Len(l)
           b == Len(r)
<1>1. /\ a \in Nat /\ b \in Nat /\ Len(c) \in Nat /\ Len(c) = a + b
      /\ \A i \in 1 .. a : i \in 1 .. Len(c) /\ c[i] = l[i]
      /\ \A i \in 1 .. b : a + i \in 1 .. Len(c) /\ c[a + i] = r[i]
      /\ \A i \in 1 .. Len(c) : \/ i \in 1 .. a /\ c[i] = l[i]
                                \/ i - a \in 1 .. b /\ c[i] = r[i - a]
  <2> HIDE DEF c
  <2>1. Parts(c, l, r)
    BY PartsOf DEF c
  <2> QED
    BY <2>1 DEF Parts, PartsAt
<1>2. /\ Holds(c, m) <=> \E k \in 1 .. Len(c) : c[k] = m
      /\ Holds(l, m) <=> \E k \in 1 .. a : l[k] = m
      /\ Holds(r, m) <=> \E k \in 1 .. b : r[k] = m
  BY DEF Holds
<1> HIDE DEF a, b, c
<1> QED
  BY <1>1, <1>2 DEF c

\* One more piece joins those before.
LEMMA RisingJoined ==
  ASSUME NEW t \in Seq(Seq(Nat)), NEW u \in Seq(Seq(Nat)), Rising(t), Rising(u),
         \A i \in 1 .. Len(t), j \in 1 .. Len(u) : Before(t[i], u[j])
  PROVE  Rising(t \o u)
<1> DEFINE c == t \o u
           a == Len(t)
           b == Len(u)
<1>1. /\ a \in Nat /\ b \in Nat /\ Len(c) \in Nat /\ Len(c) = a + b
      /\ \A i \in 1 .. a : i \in 1 .. Len(c) /\ c[i] = t[i]
      /\ \A i \in 1 .. b : a + i \in 1 .. Len(c) /\ c[a + i] = u[i]
      /\ \A i \in 1 .. Len(c) : \/ i \in 1 .. a /\ c[i] = t[i]
                                \/ i - a \in 1 .. b /\ c[i] = u[i - a]
  <2> HIDE DEF c
  <2>1. Parts(c, t, u)
    BY PartsOf DEF c
  <2> QED
    BY <2>1 DEF Parts, PartsAt
<1>2. /\ \A i \in 1 .. a : Asc(t[i])
      /\ \A i, j \in 1 .. a : i < j => Before(t[i], t[j])
      /\ \A i \in 1 .. b : Asc(u[i])
      /\ \A i, j \in 1 .. b : i < j => Before(u[i], u[j])
      /\ \A i \in 1 .. a, j \in 1 .. b : Before(t[i], u[j])
  BY DEF Rising
<1> HIDE DEF a, b, c
<1>3. ASSUME NEW i \in 1 .. Len(c) PROVE Asc(c[i])
  BY <1>1, <1>2
<1>4. ASSUME NEW i \in 1 .. Len(c), NEW j \in 1 .. Len(c), i < j PROVE Before(c[i], c[j])
  <2>1. CASE i \in 1 .. a /\ c[i] = t[i] /\ j \in 1 .. a /\ c[j] = t[j]
    BY <1>2, <1>4, <2>1
  <2>2. CASE i \in 1 .. a /\ c[i] = t[i] /\ j - a \in 1 .. b /\ c[j] = u[j - a]
    BY <1>2, <2>2
  <2>3. CASE i - a \in 1 .. b /\ j \in 1 .. a
    BY <1>1, <1>4, <2>3
  <2>4. CASE i - a \in 1 .. b /\ c[i] = u[i - a] /\ j - a \in 1 .. b /\ c[j] = u[j - a]
    <3>1. i - a < j - a
      BY <1>1, <1>4
    <3> QED
      BY <1>2, <2>4, <3>1
  <2> QED
    BY <1>1, <2>1, <2>2, <2>3, <2>4
<1> QED
  BY <1>3, <1>4 DEF Rising, c

LEMMA MarksJoined ==
  ASSUME NEW t \in Seq(Seq(Nat)), NEW u \in Seq(Seq(Nat))
  PROVE  MarksOf(t \o u) = MarksOf(t) \cup MarksOf(u)
<1> DEFINE c == t \o u
           a == Len(t)
           b == Len(u)
<1>1. /\ a \in Nat /\ b \in Nat /\ Len(c) \in Nat /\ Len(c) = a + b
      /\ \A i \in 1 .. a : i \in 1 .. Len(c) /\ c[i] = t[i]
      /\ \A i \in 1 .. b : a + i \in 1 .. Len(c) /\ c[a + i] = u[i]
      /\ \A i \in 1 .. Len(c) : \/ i \in 1 .. a /\ c[i] = t[i]
                                \/ i - a \in 1 .. b /\ c[i] = u[i - a]
  <2> HIDE DEF c
  <2>1. Parts(c, t, u)
    BY PartsOf DEF c
  <2> QED
    BY <2>1 DEF Parts, PartsAt
<1>2. /\ MarksOf(c) = {m \in Nat : \E i \in 1 .. Len(c) : Holds(c[i], m)}
      /\ MarksOf(t) = {m \in Nat : \E i \in 1 .. a : Holds(t[i], m)}
      /\ MarksOf(u) = {m \in Nat : \E i \in 1 .. b : Holds(u[i], m)}
  BY DEF MarksOf
<1> HIDE DEF a, b, c
<1>5. ASSUME NEW m \in Nat
      PROVE  m \in MarksOf(c) <=> m \in MarksOf(t) \/ m \in MarksOf(u)
  BY <1>1, <1>2
<1>6. MarksOf(c) \subseteq Nat /\ MarksOf(t) \subseteq Nat /\ MarksOf(u) \subseteq Nat
  BY <1>2
<1> QED
  BY <1>5, <1>6 DEF c

\* What is known of t when its pieces are joined.
FlatFacts(t, s) ==
    /\ s \in Seq(Nat)
    /\ \A m \in Nat : Holds(s, m) <=> m \in MarksOf(t)
    /\ Rising(t) => Asc(s)

LEMMA FlatIs ==
  ASSUME NEW t \in Seq(Seq(Nat))
  PROVE  FlatFacts(t, Flat(t))
<1> DEFINE n == Len(t)
<1>1. n \in Nat /\ \A i \in 1 .. n : t[i] \in Seq(Nat)
  OBVIOUS
<1>2. CASE n = 0
  <2>1. Flat(t) = t /\ t = << >>
    BY <1>2, EmptySeq DEF Flat
  <2>2. << >> \in Seq(Nat) /\ Len(<< >>) = 0
    BY EmptySeq
  <2> QED
    BY <1>2, <2>1, <2>2 DEF FlatFacts, Holds, MarksOf, Asc
<1>3. CASE n # 0
  <2>1. PICK f : Joins(t, f) /\ Flat(t) = f[n]
    BY <1>1, <1>3, FlatJoins
  <2>2. f[1] = t[1] /\ \A i \in 2 .. n : f[i] = f[i - 1] \o t[i]
    BY <2>1 DEF Joins
  <2> DEFINE Good(i) == /\ f[i] \in Seq(Nat)
                        /\ \A m \in Nat : Holds(f[i], m) <=> \E j \in 1 .. i : Holds(t[j], m)
                        /\ Rising(t) => Asc(f[i])
             S == {i \in 0 .. n : i = 0 \/ Good(i)}
  <2>3. \A i \in 1 .. n : i - 1 \in S => i \in S
    <3> SUFFICES ASSUME NEW i \in 1 .. n, i = 1 \/ Good(i - 1) PROVE Good(i)
      <4> HIDE DEF Good, n
      <4>1. \A i \in 1 .. n : i \in 0 .. n /\ (i - 1 = 0 <=> i = 1)
        BY <1>1
      <4> QED
        BY <4>1
    <3> HIDE DEF n
    <3>1. i \in Nat /\ i >= 1 /\ i <= n
      BY <1>1
    <3>2. CASE i = 1
      <4>1. \A j \in 1 .. i : j = 1
        BY <3>2
      <4>2. f[i] = t[1] /\ t[1] \in Seq(Nat)
        BY <1>1, <1>3, <2>2, <3>2
      <4>3. Rising(t) => Asc(t[1])
        BY <1>1, <1>3 DEF Rising, n
      <4>4. 1 \in 1 .. i
        BY <3>2
      <4> QED
        BY <4>1, <4>2, <4>3, <4>4
    <3>3. CASE i # 1
      <4>1. i \in 2 .. n /\ Good(i - 1)
        BY <3>1, <3>3
      <4> DEFINE g == f[i - 1]
                 k == i - 1
      <4>2. f[i] = g \o t[i] /\ t[i] \in Seq(Nat) /\ g \in Seq(Nat)
        BY <1>1, <2>2, <4>1
      <4>3. \A m \in Nat : Holds(g, m) <=> \E j \in 1 .. k : Holds(t[j], m)
        BY <4>1
      <4>4. Rising(t) => Asc(g)
        BY <4>1
      <4> HIDE DEF g
      <4>5. f[i] \in Seq(Nat)
        <5>1. g \o t[i] \in Seq(Nat)
          BY <4>2, PartsOf
        <5> QED
          BY <4>2, <5>1
      <4>6. \A j : j \in 1 .. i <=> j \in 1 .. k \/ j = i
        BY <3>1, <3>3
      <4>7. \A m : Holds(g \o t[i], m) <=> Holds(g, m) \/ Holds(t[i], m)
        BY <4>2, HoldsJoined
      <4> HIDE DEF k
      <4>8. \A m \in Nat : Holds(f[i], m) <=> \E j \in 1 .. i : Holds(t[j], m)
        BY <4>2, <4>3, <4>6, <4>7
      <4>9. ASSUME Rising(t) PROVE Asc(f[i])
        <5>1. \A j \in 1 .. k : Before(t[j], t[i]) /\ t[j] \in Seq(Nat)
          <6>1. \A j \in 1 .. k : j \in 1 .. n /\ j < i
            BY <1>1, <3>1 DEF k
          <6> QED
            BY <1>1, <4>9, <6>1 DEF Rising, n
        <5>2. Asc(t[i])
          BY <4>9 DEF Rising, n
        <5>3. Before(g, t[i])
          <6> SUFFICES ASSUME NEW p \in 1 .. Len(g), NEW q \in 1 .. Len(t[i]),
                              g[p] # 0, t[i][q] # 0
                       PROVE  g[p] < t[i][q]
            BY DEF Before
          <6>1. g[p] \in Nat /\ Holds(g, g[p])
            <7>1. g[p] \in Nat
              BY <4>2, ElementOfSeq
            <7> QED
              BY <7>1 DEF Holds
          <6>2. PICK j \in 1 .. k : Holds(t[j], g[p])
            BY <4>3, <6>1
          <6>3. PICK r \in 1 .. Len(t[j]) : t[j][r] = g[p]
            BY <6>2 DEF Holds
          <6> QED
            BY <5>1, <6>3 DEF Before
        <5>4. Asc(g \o t[i])
          BY <4>2, <4>4, <4>9, <5>2, <5>3, AscJoined
        <5> QED
          BY <4>2, <5>4
      <4> QED
        BY <4>5, <4>8, <4>9
    <3> QED
      BY <3>2, <3>3
  <2>4. 0 \in S
    BY <1>1
  <2>5. n \in S
    <3> HIDE DEF S, n
    <3>1. 0 .. n \subseteq S
      BY <1>1, <2>3, <2>4, UpTo
    <3> QED
      BY <1>1, <3>1
  <2>6. Good(n)
    BY <1>3, <2>5
  <2> QED
    BY <2>1, <2>6 DEF FlatFacts, MarksOf
<1> QED
  BY <1>2, <1>3

-------------------------------------------------------------------------------
(* Texts that lose their beginning or their superfluous spaces.              *)
Blank == << >>

NoTwoBlanks(t) == \A i \in 1 .. Len(t) - 1 : ~(t[i] = Blank /\ t[i + 1] = Blank)

\* The marks of t are less than those of the letter l.
Under(t, l) == \A m \in MarksOf(t), k \in 1 .. Len(l) : m # 0 /\ l[k] # 0 => m < l[k]

LEMMA UnderBefore ==
  ASSUME NEW t \in Seq(Seq(Nat)), NEW l, Under(t, l), NEW i \in 1 .. Len(t)
  PROVE  Before(t[i], l)
<1> SUFFICES ASSUME NEW p \in 1 .. Len(t[i]), NEW q \in 1 .. Len(l), t[i][p] # 0, l[q] # 0
             PROVE  t[i][p] < l[q]
  BY DEF Before
<1>1. t[i] \in Seq(Nat)
  BY ElementOfSeq
<1>2. t[i][p] \in Nat
  BY <1>1, ElementOfSeq
<1>3. t[i][p] \in MarksOf(t)
  BY <1>2 DEF MarksOf, Holds
<1> QED
  BY <1>3 DEF Under

LEMMA OneLetter ==
  ASSUME NEW S, NEW l \in S
  PROVE  << l >> \in Seq(S) /\ Len(<< l >>) = 1 /\ << l >>[1] = l
OBVIOUS

\* One more letter.
LEMMA LetterJoined ==
  ASSUME NEW t \in Seq(Seq(Nat)), NEW l \in Seq(Nat)
  PROVE  /\ t \o << l >> \in Seq(Seq(Nat))
         /\ Rising(t) /\ Asc(l) /\ Under(t, l) => Rising(t \o << l >>)
         /\ \A m \in Nat : m \in MarksOf(t \o << l >>) <=> m \in MarksOf(t) \/ Holds(l, m)
<1> DEFINE u == << l >>
<1>1. u \in Seq(Seq(Nat)) /\ Len(u) = 1 /\ u[1] = l
  OBVIOUS
<1>2. \A j : j \in 1 .. Len(u) <=> j = 1
  BY <1>1
<1> HIDE DEF u
<1>3. t \o u \in Seq(Seq(Nat))
  BY <1>1, PartsOf
<1>4. ASSUME Rising(t), Asc(l), Under(t, l) PROVE Rising(t \o u)
  <2>1. Rising(u)
    BY <1>1, <1>2, <1>4 DEF Rising
  <2>2. \A i \in 1 .. Len(t), j \in 1 .. Len(u) : Before(t[i], u[j])
    BY <1>1, <1>2, <1>4, UnderBefore
  <2> QED
    BY <1>1, <1>4, <2>1, <2>2, RisingJoined
<1>5. MarksOf(t \o u) = MarksOf(t) \cup MarksOf(u)
  BY <1>1, MarksJoined
<1>6. \A m \in Nat : m \in MarksOf(u) <=> Holds(l, m)
  BY <1>1, <1>2 DEF MarksOf
<1> QED
  BY <1>3, <1>4, <1>5, <1>6 DEF u

LEMMA AppendJoins ==
  ASSUME NEW S, NEW q \in Seq(S), NEW e \in S
  PROVE  Append(q, e) = q \o << e >>
OBVIOUS

\* What is squeezed out of t.
Squeezed(t, s) ==
    /\ s \in Seq(Seq(Nat)) /\ NoTwoBlanks(s)
    /\ \A m \in Nat : m \in MarksOf(s) <=> m \in MarksOf(t)
    /\ Rising(t) => Rising(s)

LEMMA SqueezeRecursion ==
  ASSUME NEW t, Len(t) \in Nat
  PROVE  \E f : /\ f[0] = << >> /\ Threshold!Squeeze(t) = f[Len(t)]
                /\ \A i \in 1 .. Len(t) :
                      f[i] = IF t[i] = Blank /\ (i = 1 \/ t[i - 1] = Blank) THEN f[i - 1]
                             ELSE Append(f[i - 1], t[i])
<1> DEFINE n == Len(t)
           F(f, i) == IF i = 0 THEN << >>
                      ELSE IF t[i] = Blank /\ (i = 1 \/ t[i - 1] = Blank) THEN f[i - 1]
                      ELSE Append(f[i - 1], t[i])
           Works(k, f) == /\ f = [i \in 0 .. k |-> f[i]]
                          /\ \A i \in 0 .. k : f[i] = F(f, i)
           S == {k \in 0 .. n : \E f : Works(k, f)}
<1>1. n \in Nat
  OBVIOUS
<1> HIDE DEF n
<1>2. 0 \in S
  <2>1. Works(0, [i \in 0 .. 0 |-> << >>])
    OBVIOUS
  <2> HIDE DEF Works
  <2> QED
    BY <1>1, <2>1
<1>3. \A k \in 1 .. n : k - 1 \in S => k \in S
  <2> SUFFICES ASSUME NEW k \in 1 .. n, k - 1 \in S PROVE \E g : Works(k, g)
    <3> HIDE DEF Works
    <3>1. \A k \in 1 .. n : k \in 0 .. n
      BY <1>1
    <3> QED
      BY <3>1
  <2>1. PICK f : Works(k - 1, f)
    OBVIOUS
  <2> DEFINE g == [i \in 0 .. k |-> IF i = k THEN F(f, k) ELSE f[i]]
  <2>2. \A i \in 0 .. k : g[i] = F(g, i)
    <3> SUFFICES ASSUME NEW i \in 0 .. k PROVE g[i] = F(g, i)
      OBVIOUS
    <3>1. i # 0 => i - 1 \in 0 .. k /\ i - 1 # k /\ g[i - 1] = f[i - 1]
      BY <1>1
    <3>2. F(g, i) = F(f, i)
      BY <3>1
    <3> HIDE DEF F
    <3>3. g[i] = IF i = k THEN F(f, k) ELSE f[i]
      OBVIOUS
    <3>4. i # k => f[i] = F(f, i)
      BY <1>1, <2>1
    <3> HIDE DEF g
    <3> QED
      BY <3>2, <3>3, <3>4
  <2>3. g = [i \in 0 .. k |-> g[i]]
    OBVIOUS
  <2> HIDE DEF g, F
  <2> QED
    BY <2>2, <2>3
<1>4. n \in S
  <2> HIDE DEF S
  <2>1. 0 .. n \subseteq S
    BY <1>1, <1>2, <1>3, UpTo
  <2> QED
    BY <1>1, <2>1
<1>5. PICK f : Works(n, f)
  BY <1>4
<1>6. f = [i \in 0 .. n |-> F(f, i)]
  BY <1>5
<1> DEFINE D(h) == h = [i \in 0 .. n |-> F(h, i)]
           K == CHOOSE h : D(h)
<1>7. Threshold!Squeeze(t) = K[n]
  BY DEF Threshold!Squeeze, Threshold!Space, Blank, n
<1>8. D(K)
  <2>1. D(f)
    BY <1>6
  <2> HIDE DEF D
  <2> QED
    BY <2>1
<1> HIDE DEF K
<1>9. \A i \in 0 .. n : K[i] = F(K, i)
  BY <1>8
<1>10. /\ K[0] = << >>
       /\ \A i \in 1 .. n :
              K[i] = IF t[i] = Blank /\ (i = 1 \/ t[i - 1] = Blank) THEN K[i - 1]
                     ELSE Append(K[i - 1], t[i])
  <2>1. 0 \in 0 .. n /\ \A i \in 1 .. n : i \in 0 .. n /\ i # 0
    BY <1>1
  <2> QED
    BY <1>9, <2>1
<1> QED
  BY <1>7, <1>10 DEF n

LEMMA SqueezeIs ==
  ASSUME NEW t \in Seq(Seq(Nat))
  PROVE  Squeezed(t, Threshold!Squeeze(t))
<1> DEFINE n == Len(t)
<1>1. n \in Nat /\ \A i \in 1 .. n : t[i] \in Seq(Nat)
  OBVIOUS
<1>2. PICK f : /\ f[0] = << >> /\ Threshold!Squeeze(t) = f[n]
               /\ \A i \in 1 .. n :
                     f[i] = IF t[i] = Blank /\ (i = 1 \/ t[i - 1] = Blank) THEN f[i - 1]
                            ELSE Append(f[i - 1], t[i])
  BY <1>1, SqueezeRecursion
<1> DEFINE Good(i) == /\ f[i] \in Seq(Seq(Nat)) /\ NoTwoBlanks(f[i])
                      /\ \A m \in Nat : m \in MarksOf(f[i]) <=> \E j \in 1 .. i : Holds(t[j], m)
                      /\ Rising(t) => Rising(f[i])
                      /\ i # 0 /\ t[i] # Blank =>
                            Len(f[i]) # 0 /\ f[i][Len(f[i])] # Blank
           S == {i \in 0 .. n : Good(i)}
<1>3. 0 \in S
  <2>1. f[0] = << >> /\ << >> \in Seq(Seq(Nat)) /\ Len(<< >>) = 0
    BY <1>2, EmptySeq
  <2>2. NoTwoBlanks(f[0])
    BY <2>1 DEF NoTwoBlanks
  <2>3. \A m \in Nat : m \notin MarksOf(f[0])
    BY <2>1 DEF MarksOf
  <2>4. Rising(f[0])
    BY <2>1 DEF Rising
  <2>5. 0 \in 0 .. n /\ \A j : j \notin 1 .. 0
    BY <1>1
  <2> HIDE DEF n
  <2> QED
    BY <2>1, <2>2, <2>3, <2>4, <2>5
<1>4. \A i \in 1 .. n : i - 1 \in S => i \in S
  <2> SUFFICES ASSUME NEW i \in 1 .. n, Good(i - 1) PROVE Good(i)
    <3> HIDE DEF Good, n
    <3>1. \A i \in 1 .. n : i \in 0 .. n
      BY <1>1
    <3> QED
      BY <3>1
  <2> HIDE DEF n
  <2> DEFINE k == i - 1
             g == f[k]
             l == t[i]
  <2>1. i \in Nat /\ i >= 1 /\ i <= n /\ k \in Nat /\ (i # 1 => k \in 1 .. n)
    BY <1>1
  <2>2. /\ g \in Seq(Seq(Nat)) /\ NoTwoBlanks(g)
        /\ \A m \in Nat : m \in MarksOf(g) <=> \E j \in 1 .. k : Holds(t[j], m)
        /\ Rising(t) => Rising(g)
        /\ k # 0 /\ t[k] # Blank => Len(g) # 0 /\ g[Len(g)] # Blank
    OBVIOUS
  <2>3. l \in Seq(Nat) /\ f[i] = IF l = Blank /\ (i = 1 \/ t[k] = Blank) THEN g ELSE Append(g, l)
    BY <1>1, <1>2
  <2>4. \A j : j \in 1 .. i <=> j \in 1 .. k \/ j = i
    BY <2>1
  <2>5. i = 1 => f[i] = IF l = Blank THEN g ELSE Append(g, l)
    BY <2>3
  <2>6. i # 1 => k # 0
    BY <2>1
  <2>7. i = 1 => g = << >>
    BY <1>2
  <2>8. \A j \in 1 .. k : j \in 1 .. n /\ j < i
    BY <1>1, <2>1
  <2> HIDE DEF k, g
  <2>9. CASE l = Blank /\ (i = 1 \/ t[k] = Blank)
    <3>1. f[i] = g
      BY <2>3, <2>9
    <3>2. \A m \in Nat : ~Holds(l, m)
      BY <2>9 DEF Holds, Blank
    <3>3. \A m \in Nat : m \in MarksOf(f[i]) <=> \E j \in 1 .. i : Holds(t[j], m)
      BY <2>2, <2>4, <3>1, <3>2
    <3> QED
      BY <2>2, <2>9, <3>1, <3>3
  <2>10. CASE ~(l = Blank /\ (i = 1 \/ t[k] = Blank))
    <3>1. f[i] = g \o << l >>
      BY <2>2, <2>3, <2>10, AppendJoins
    <3> DEFINE c == g \o << l >>
    <3>2. /\ c \in Seq(Seq(Nat))
          /\ Rising(g) /\ Asc(l) /\ Under(g, l) => Rising(c)
          /\ \A m \in Nat : m \in MarksOf(c) <=> m \in MarksOf(g) \/ Holds(l, m)
      BY <2>2, <2>3, LetterJoined
    <3>3. /\ Len(g) \in Nat /\ Len(c) = Len(g) + 1 /\ c[Len(g) + 1] = l
          /\ \A j \in 1 .. Len(g) : c[j] = g[j]
      <4> DEFINE u == << l >>
      <4>1. u \in Seq(Seq(Nat)) /\ Len(u) = 1 /\ u[1] = l
        BY <2>3, OneLetter
      <4> HIDE DEF u, c
      <4>2. Parts(g \o u, g, u)
        BY <2>2, <4>1, PartsOf
      <4>3. Parts(c, g, u)
        BY <4>2 DEF c, u
      <4>4. 1 \in 1 .. Len(u)
        BY <4>1
      <4> QED
        BY <4>1, <4>3, <4>4 DEF Parts, PartsAt
    <3> HIDE DEF c
    <3>4. \A m \in Nat : m \in MarksOf(c) <=> \E j \in 1 .. i : Holds(t[j], m)
      BY <2>2, <2>4, <3>2
    <3>5. ASSUME Rising(t) PROVE Rising(c)
      <4>1. Asc(l) /\ \A j \in 1 .. k : Before(t[j], l)
        BY <2>8, <3>5 DEF Rising, n
      <4>2. Under(g, l)
        <5> SUFFICES ASSUME NEW m \in MarksOf(g), NEW q \in 1 .. Len(l), m # 0, l[q] # 0
                     PROVE  m < l[q]
          BY DEF Under
        <5>1. m \in Nat
          BY DEF MarksOf
        <5>2. PICK j \in 1 .. k : Holds(t[j], m)
          BY <2>2, <5>1
        <5>3. PICK p \in 1 .. Len(t[j]) : t[j][p] = m
          BY <5>2 DEF Holds
        <5> QED
          BY <4>1, <5>3 DEF Before
      <4> QED
        BY <2>2, <3>2, <3>5, <4>1, <4>2
    <3>6. NoTwoBlanks(c)
      <4> SUFFICES ASSUME NEW j \in 1 .. Len(c) - 1, c[j] = Blank, c[j + 1] = Blank
                   PROVE  FALSE
        BY DEF NoTwoBlanks
      <4>1. j \in 1 .. Len(g)
        BY <3>3
      <4>2. CASE j = Len(g)
        <5>1. l = Blank /\ g[Len(g)] = Blank /\ Len(g) # 0
          BY <3>3, <4>1, <4>2
        <5>2. i # 1 /\ t[k] # Blank
          BY <2>10, <5>1
        <5> QED
          BY <2>2, <2>6, <5>1, <5>2
      <4>3. CASE j # Len(g)
        <5>1. j \in 1 .. Len(g) - 1 /\ j + 1 \in 1 .. Len(g)
          BY <3>3, <4>1, <4>3
        <5> QED
          BY <2>2, <3>3, <4>1, <5>1 DEF NoTwoBlanks
      <4> QED
        BY <4>2, <4>3
    <3>7. l # Blank => Len(c) # 0 /\ c[Len(c)] # Blank
      BY <3>3
    <3>8. f[i] = c
      BY <3>1 DEF c
    <3> QED
      BY <3>2, <3>4, <3>5, <3>6, <3>7, <3>8
  <2> QED
    BY <2>9, <2>10
<1>5. n \in S
  <2> HIDE DEF S, n
  <2>1. 0 .. n \subseteq S
    BY <1>1, <1>3, <1>4, UpTo
  <2> QED
    BY <1>1, <2>1
<1>6. Good(n)
  BY <1>5
<1> QED
  BY <1>2, <1>6 DEF Squeezed, MarksOf

\* A part of a sequence.
LEMMA SubSeqIs ==
  ASSUME NEW S, NEW q \in Seq(S), NEW m \in 1 .. Len(q) + 1, NEW n \in m - 1 .. Len(q)
  PROVE  /\ SubSeq(q, m, n) \in Seq(S) /\ Len(SubSeq(q, m, n)) = n - m + 1
         /\ \A i \in 1 .. n - m + 1 : SubSeq(q, m, n)[i] = q[m + i - 1]
BY SubSeqProperties

SuffixOf(s, t) ==
    /\ s \in Seq(Seq(Nat)) /\ (Rising(t) => Rising(s))
    /\ NoTwoBlanks(t) => NoTwoBlanks(s)
    /\ MarksOf(s) \subseteq MarksOf(t)
    /\ \A i \in 1 .. Len(s) : \E j \in 1 .. Len(t) : s[i] = t[j]

LEMMA SuffixIs ==
  ASSUME NEW t \in Seq(Seq(Nat)), NEW k \in 1 .. Len(t) + 1
  PROVE  /\ SuffixOf(SubSeq(t, k, Len(t)), t)
         /\ Len(SubSeq(t, k, Len(t))) = Len(t) - k + 1
<1> DEFINE n == Len(t)
           s == SubSeq(t, k, n)
           h == n - k + 1
<1>1. n \in Nat /\ k \in 1 .. n + 1 /\ n \in k - 1 .. n
  OBVIOUS
<1>2. s \in Seq(Seq(Nat)) /\ Len(s) = h /\ \A i \in 1 .. h : s[i] = t[k + i - 1]
  BY <1>1, SubSeqIs
<1> DEFINE At(i) == k + i - 1
<1>3. /\ h \in Nat /\ \A i \in 1 .. h : At(i) \in 1 .. n /\ s[i] = t[At(i)]
      /\ \A i, j \in 1 .. h : i < j => At(i) < At(j)
      /\ \A i \in 1 .. h - 1 : At(i) \in 1 .. n - 1 /\ At(i + 1) = At(i) + 1 /\ i \in 1 .. h /\ i + 1 \in 1 .. h
  <2> HIDE DEF s, n
  <2> QED
    BY <1>1, <1>2
<1>4. Len(s) = h
  BY <1>2
<1> HIDE DEF At, s, h
<1>5. ASSUME Rising(t) PROVE Rising(s)
  BY <1>3, <1>4, <1>5 DEF Rising
<1>6. ASSUME NoTwoBlanks(t) PROVE NoTwoBlanks(s)
  <2> SUFFICES ASSUME NEW i \in 1 .. h - 1, s[i] = Blank, s[i + 1] = Blank PROVE FALSE
    BY <1>4 DEF NoTwoBlanks
  <2>1. /\ At(i) \in 1 .. n - 1 /\ At(i + 1) = At(i) + 1
        /\ i \in 1 .. h /\ i + 1 \in 1 .. h
    BY <1>3
  <2>2. t[At(i)] = Blank /\ t[At(i) + 1] = Blank
    BY <1>3, <2>1
  <2> QED
    BY <1>6, <2>1, <2>2 DEF NoTwoBlanks
<1>7. MarksOf(s) \subseteq MarksOf(t)
  BY <1>3, <1>4 DEF MarksOf
<1>8. \A i \in 1 .. Len(s) : \E j \in 1 .. n : s[i] = t[j]
  BY <1>3, <1>4
<1> QED
  BY <1>2, <1>4, <1>5, <1>6, <1>7, <1>8 DEF SuffixOf, s, h

\* Least and greatest numbers.
LEMMA LeastOf ==
  ASSUME NEW T \in SUBSET Nat, T # {}
  PROVE  Threshold!Min(T) \in T
<1>1. PICK m \in T : \A n \in T : m <= n
  BY LeastNat
<1> QED
  BY <1>1 DEF Threshold!Min

LEMMA LesserOf ==
  ASSUME NEW a \in Int, NEW b \in Int
  PROVE  /\ Threshold!Min({a, b}) = (IF a <= b THEN a ELSE b)
         /\ Mask!Min({a, b}) = (IF a <= b THEN a ELSE b)
<1> DEFINE m == IF a <= b THEN a ELSE b
<1>1. m \in {a, b} /\ \A y \in {a, b} : m =< y
  OBVIOUS
<1>2. ASSUME NEW x \in {a, b}, \A y \in {a, b} : x =< y PROVE x = m
  BY <1>2
<1> HIDE DEF m
<1>3. (CHOOSE x \in {a, b} : \A y \in {a, b} : x =< y) = m
  BY <1>1, <1>2
<1> QED
  BY <1>3 DEF Threshold!Min, Mask!Min, m

LEMMA GreatestNat ==
  ASSUME NEW n \in Nat, NEW T \in SUBSET (0 .. n), T # {}
  PROVE  \E m \in T : \A k \in T : k <= m
<1> DEFINE U == {n - k : k \in T}
<1>1. U \in SUBSET Nat /\ U # {}
  <2>1. \A k \in T : n - k \in Nat
    OBVIOUS
  <2> QED
    BY <2>1
<1>2. PICK u \in U : \A v \in U : u <= v
  <2> HIDE DEF U
  <2> QED
    BY <1>1, LeastNat
<1>3. PICK m \in T : u = n - m
  OBVIOUS
<1>4. ASSUME NEW k \in T PROVE k <= m
  <2>1. n - m <= n - k
    BY <1>2, <1>3
  <2>2. k \in 0 .. n /\ m \in 0 .. n
    OBVIOUS
  <2> QED
    BY <2>1, <2>2
<1> QED
  BY <1>4

LEMMA GreatestOf ==
  ASSUME NEW n \in Nat, NEW T \in SUBSET (0 .. n), T # {}
  PROVE  /\ Threshold!Max(T) \in T /\ \A k \in T : k <= Threshold!Max(T)
         /\ Mask!Max(T) = Threshold!Max(T)
<1>1. PICK m \in T : \A k \in T : k <= m
  BY GreatestNat
<1>2. \A k \in T : m >= k
  BY <1>1
<1>3. \A x \in T : (\A k \in T : x >= k) => \A k \in T : k <= x
  OBVIOUS
<1>4. Mask!Max(T) = Threshold!Max(T)
  BY DEF Threshold!Max, Mask!Max
<1>5. Threshold!Max(T) \in T /\ \A k \in T : Threshold!Max(T) >= k
  BY <1>2 DEF Threshold!Max
<1> QED
  BY <1>3, <1>4, <1>5

-------------------------------------------------------------------------------
(* The threshold window: text.                                               *)
LEMMA ThresholdConstants ==
  /\ Units \subseteq Nat \ {0} /\ IsFiniteSet(Units) /\ SeedUnit \in Units
  /\ Columns \subseteq Nat /\ MaxScroll \in Nat \ {0}
  /\ {UncalLetter, UncalWord, Quiet, MaxOpen, MaxScroll, MaxMarks, LongMark, MaxButtons} \subseteq Nat
<1>1. Threshold!ThresholdAssumption
  BY WindowsAssumption
<1>2. IsFiniteSet(Units)
  BY <1>1 DEF Threshold!ThresholdAssumption, Threshold!IsFiniteSet, IsFiniteSet
<1> QED
  BY <1>1, <1>2 DEF Threshold!ThresholdAssumption

\* The marks of a text as a set of the model.
LEMMA MarksAre ==
  ASSUME NEW t \in Seq(Seq(Nat))
  PROVE  Threshold!Marks(t) = MarksOf(t) /\ Mask!Elements(t) = MarksOf(t)
<1> DEFINE s == Flat(t)
<1>1. FlatFacts(t, s)
  BY FlatIs
<1>2. Threshold!FlattenSeq(t) = s /\ Mask!FlattenSeq(t) = s
  BY FlattensAreFlat
<1> HIDE DEF s
<1>3. s \in Seq(Nat) /\ \A m \in Nat : Holds(s, m) <=> m \in MarksOf(t)
  BY <1>1 DEF FlatFacts
<1>4. DOMAIN s = 1 .. Len(s) /\ \A i \in 1 .. Len(s) : s[i] \in Nat
  BY <1>3
<1>5. {s[i] : i \in DOMAIN s} = MarksOf(t)
  <2>1. MarksOf(t) \subseteq Nat
    BY DEF MarksOf
  <2>2. \A m \in Nat : m \in {s[i] : i \in DOMAIN s} <=> Holds(s, m)
    BY <1>4 DEF Holds
  <2>3. {s[i] : i \in DOMAIN s} \subseteq Nat
    BY <1>4
  <2> QED
    BY <1>3, <2>1, <2>2, <2>3
<1> QED
  BY <1>2, <1>5 DEF Threshold!Marks, Mask!Elements, Threshold!ToSet, Mask!ToSet

LEMMA ThresholdTrims ==
  ASSUME NEW t \in Seq(Seq(Nat))
  PROVE  /\ SuffixOf(Threshold!trimScrollBuffer(t), t)
         /\ Len(Threshold!trimScrollBuffer(t)) <= MaxScroll
<1> DEFINE s == Threshold!trimScrollBuffer(t)
           n == Len(t)
           drop == n - MaxScroll + 1
           near == {i \in drop .. n - 1 : t[i] = Threshold!Space}
           k == (IF near = {} THEN drop ELSE Threshold!Min(near)) + 1
<1>1. n \in Nat /\ MaxScroll \in Nat \ {0}
  BY ThresholdConstants
<1>2. CASE n <= MaxScroll
  <2>1. s = t
    BY <1>2 DEF Threshold!trimScrollBuffer
  <2> QED
    BY <1>2, <2>1 DEF SuffixOf
<1>3. CASE ~(n <= MaxScroll)
  <2>1. s = SubSeq(t, k, n)
    BY <1>3 DEF Threshold!trimScrollBuffer
  <2>2. drop \in 2 .. n
    BY <1>1, <1>3
  <2>3. near # {} => Threshold!Min(near) \in near
    <3> HIDE DEF drop
    <3>1. near \in SUBSET Nat
      BY <1>1, <2>2
    <3> HIDE DEF near
    <3> QED
      BY <3>1, LeastOf
  <2>4. k \in drop + 1 .. n + 1
    <3> HIDE DEF drop
    <3>1. near \subseteq drop .. n - 1
      OBVIOUS
    <3> HIDE DEF near
    <3> DEFINE least == Threshold!Min(near)
    <3>2. near # {} => least \in drop .. n - 1
      BY <2>3, <3>1
    <3> HIDE DEF least
    <3>3. k = (IF near = {} THEN drop ELSE least) + 1
      BY DEF least
    <3> QED
      BY <1>1, <2>2, <3>2, <3>3
  <2>5. k \in 1 .. n + 1 /\ n - k + 1 <= MaxScroll
    <3> HIDE DEF k
    <3> QED
      BY <1>1, <2>2, <2>4
  <2> HIDE DEF k
  <2>6. SuffixOf(SubSeq(t, k, Len(t)), t) /\ Len(SubSeq(t, k, Len(t))) = Len(t) - k + 1
    BY <2>5, SuffixIs
  <2> QED
    BY <2>1, <2>5, <2>6
<1> QED
  BY <1>2, <1>3

\* The fields of the window; nothing is said of the gaps and of what is out.
WinFields(LM, LT, w) ==
    w \in [has : BOOLEAN, high : BOOLEAN, run : Int, valley : Int, have : BOOLEAN, pen : Int,
           marks : LM, gaps : {w.gaps}, emitted : BOOLEAN, unit : Units, slider : Units,
           calibrated : BOOLEAN, auto : BOOLEAN, open : BOOLEAN, play : BOOLEAN, text : LT,
           next : Nat, out : {w.out}]

IsWin(w) == WinFields(Seq(Nat), Seq(Seq(Nat)), w)

\* v is w with another text, and marks taken for noise or scrolled away.
OnlyText(w, v) ==
    /\ IsWin(v) /\ v.has = w.has /\ v.high = w.high /\ v.run = w.run /\ v.valley = w.valley
    /\ v.have = w.have /\ v.pen = w.pen /\ v.marks = w.marks /\ v.gaps = w.gaps
    /\ v.emitted = w.emitted /\ v.unit = w.unit /\ v.slider = w.slider
    /\ v.calibrated = w.calibrated /\ v.auto = w.auto /\ v.open = w.open
    /\ v.play = w.play /\ v.next = w.next

TextGiven(w, text, out, v) == v = [w EXCEPT !.text = text, !.out = out]

LEMMA TextSet ==
  ASSUME NEW w, IsWin(w), NEW text, text \in Seq(Seq(Nat)), NEW out, NEW v,
         TextGiven(w, text, out, v)
  PROVE  OnlyText(w, v) /\ v.text = text /\ v.out = out
<1> DEFINE LM == Seq(Nat)
           LT == Seq(Seq(Nat))
<1>1. WinFields(LM, LT, w) /\ text \in LT
  BY DEF IsWin
<1> HIDE DEF LM, LT
<1>2. /\ WinFields(LM, LT, v) /\ v.text = text /\ v.out = out
      /\ v.has = w.has /\ v.high = w.high /\ v.run = w.run /\ v.valley = w.valley
      /\ v.have = w.have /\ v.pen = w.pen /\ v.marks = w.marks /\ v.gaps = w.gaps
      /\ v.emitted = w.emitted /\ v.unit = w.unit /\ v.slider = w.slider
      /\ v.calibrated = w.calibrated /\ v.auto = w.auto /\ v.open = w.open
      /\ v.play = w.play /\ v.next = w.next
  BY <1>1 DEF WinFields, TextGiven
<1>3. IsWin(v)
  BY <1>2 DEF IsWin, LM, LT
<1> QED
  BY <1>2, <1>3 DEF OnlyText

\* What Grow makes of the text t.
Grown(w, t, noise, v) ==
    /\ OnlyText(w, v) /\ (Rising(t) => Rising(v.text))
    /\ NoTwoBlanks(v.text) /\ Len(v.text) <= MaxScroll
    /\ MarksOf(v.text) \subseteq MarksOf(t)
    /\ MarksOf(t) \cup noise \cup w.out \subseteq MarksOf(v.text) \cup v.out

LEMMA GrowIs ==
  ASSUME NEW w, IsWin(w), NEW t \in Seq(Seq(Nat)), NEW noise
  PROVE  Grown(w, t, noise, Threshold!Grow(w, t, noise))
<1> DEFINE s == Threshold!Squeeze(t)
           kept == Threshold!trimScrollBuffer(s)
           v == Threshold!Grow(w, t, noise)
<1>1. Squeezed(t, s)
  BY SqueezeIs
<1>2. v = [w EXCEPT !.text = kept, !.out = @ \cup noise \cup (Threshold!Marks(t) \ Threshold!Marks(kept))]
  BY DEF Threshold!Grow
<1> HIDE DEF s
<1>3. s \in Seq(Seq(Nat)) /\ NoTwoBlanks(s) /\ (Rising(t) => Rising(s))
  BY <1>1 DEF Squeezed
<1>4. MarksOf(s) = MarksOf(t)
  BY <1>1 DEF Squeezed, MarksOf
<1>5. SuffixOf(kept, s) /\ Len(kept) <= MaxScroll
  BY <1>3, ThresholdTrims
<1> HIDE DEF kept, v
<1>6. /\ kept \in Seq(Seq(Nat)) /\ NoTwoBlanks(kept) /\ (Rising(t) => Rising(kept))
      /\ MarksOf(kept) \subseteq MarksOf(t)
  BY <1>3, <1>4, <1>5 DEF SuffixOf
<1> DEFINE out == w.out \cup noise \cup (Threshold!Marks(t) \ Threshold!Marks(kept))
<1>7. TextGiven(w, kept, out, v)
  BY <1>2 DEF TextGiven
<1>8. Threshold!Marks(t) = MarksOf(t) /\ Threshold!Marks(kept) = MarksOf(kept)
  BY <1>6, MarksAre
<1>9. MarksOf(t) \cup noise \cup w.out \subseteq MarksOf(kept) \cup out
  BY <1>8
<1> HIDE DEF out
<1>10. OnlyText(w, v) /\ v.text = kept /\ v.out = out
  <2>1. kept \in Seq(Seq(Nat))
    BY <1>6
  <2> QED
    BY <1>7, <2>1, TextSet
<1>11. Grown(w, t, noise, v)
  BY <1>5, <1>6, <1>9, <1>10 DEF Grown
<1> QED
  BY <1>11 DEF v

\* A letter with what may be put around it.
PieceOf(u, l) == /\ u \in Seq(Seq(Nat)) /\ Rising(u)
                 /\ \A m \in Nat : m \in MarksOf(u) => Holds(l, m)

LEMMA NoPiece ==
  ASSUME NEW l
  PROVE  PieceOf(<< >>, l)
<1>1. << >> \in Seq(Seq(Nat)) /\ Len(<< >>) = 0
  BY EmptySeq
<1> QED
  BY <1>1 DEF PieceOf, Rising, MarksOf

LEMMA BlankIs == Blank \in Seq(Nat) /\ Asc(Blank) /\ \A m : ~Holds(Blank, m)
<1>1. << >> \in Seq(Nat) /\ Len(<< >>) = 0
  BY EmptySeq
<1> QED
  BY <1>1 DEF Blank, Asc, Holds

LEMMA BlankJoined ==
  ASSUME NEW u \in Seq(Seq(Nat)), NEW l, PieceOf(u, l)
  PROVE  PieceOf(u \o << Blank >>, l) /\ MarksOf(u \o << Blank >>) = MarksOf(u)
<1> DEFINE b == Blank
<1>1. b \in Seq(Nat) /\ Asc(b) /\ \A m : ~Holds(b, m)
  BY BlankIs
<1>2. Under(u, b)
  BY DEF Under, Blank
<1> HIDE DEF b
<1> DEFINE c == u \o << b >>
<1>3. /\ c \in Seq(Seq(Nat)) /\ (Rising(u) => Rising(c))
      /\ \A m \in Nat : m \in MarksOf(c) <=> m \in MarksOf(u)
  BY <1>1, <1>2, LetterJoined
<1> HIDE DEF c
<1>4. PieceOf(c, l) /\ MarksOf(c) = MarksOf(u)
  BY <1>3 DEF PieceOf, MarksOf
<1> QED
  BY <1>4 DEF c, b

\* What emitOneLetter gives for a letter.
LEMMA EmitOneIs ==
  ASSUME NEW l \in Seq(Nat), Asc(l), NEW c
  PROVE  /\ PieceOf(Threshold!emitOneLetter(l, c), l)
         /\ ~(Len(l) = 1 /\ c.noise = "lone") =>
               \A m \in Nat : Holds(l, m) => m \in MarksOf(Threshold!emitOneLetter(l, c))
<1> DEFINE u == Threshold!emitOneLetter(l, c)
           pre == Threshold!maybeInsertProtocolSpace(c)
<1>1. CASE Len(l) = 1 /\ c.noise = "lone"
  <2>1. u = << >>
    BY <1>1 DEF Threshold!emitOneLetter
  <2> QED
    BY <1>1, <2>1, NoPiece
<1>2. CASE ~(Len(l) = 1 /\ c.noise = "lone")
  <2>1. u = pre \o << l >>
    BY <1>2 DEF Threshold!emitOneLetter
  <2>2. pre \in Seq(Seq(Nat)) /\ Rising(pre) /\ \A m \in Nat : m \notin MarksOf(pre)
    <3>1. CASE pre = << >>
      <4>1. << >> \in Seq(Seq(Nat)) /\ Len(<< >>) = 0
        BY EmptySeq
      <4> QED
        BY <3>1, <4>1 DEF Rising, MarksOf
    <3>2. CASE pre = << Blank >>
      <4> DEFINE b == << Blank >>
      <4>1. b \in Seq(Seq(Nat)) /\ Len(b) = 1 /\ b[1] = Blank
        BY BlankIs, OneLetter
      <4> HIDE DEF b
      <4>2. Rising(b) /\ \A m \in Nat : m \notin MarksOf(b)
        BY <4>1, BlankIs DEF Rising, MarksOf
      <4> QED
        BY <3>2, <4>1, <4>2 DEF b
    <3> QED
      BY <3>1, <3>2 DEF Threshold!maybeInsertProtocolSpace, Threshold!Space, Blank
  <2> HIDE DEF pre
  <2>3. Under(pre, l)
    BY <2>2 DEF Under, MarksOf
  <2> DEFINE j == pre \o << l >>
  <2>4. /\ j \in Seq(Seq(Nat)) /\ Rising(j)
        /\ \A m \in Nat : m \in MarksOf(j) <=> Holds(l, m)
    BY <2>2, <2>3, LetterJoined
  <2> HIDE DEF j
  <2>5. PieceOf(j, l)
    BY <2>4 DEF PieceOf
  <2> QED
    BY <2>1, <2>4, <2>5 DEF j
<1> QED
  BY <1>1, <1>2

\* Texts that are joined, each above those before it.
Above(T) ==
    /\ \A i \in 1 .. Len(T) : Rising(T[i])
    /\ \A i, j \in 1 .. Len(T) : i < j =>
           \A p \in MarksOf(T[i]), q \in MarksOf(T[j]) : p # 0 /\ q # 0 => p < q

LEMMA TextsJoined ==
  ASSUME NEW T \in Seq(Seq(Seq(Nat))), Len(T) # 0, Above(T)
  PROVE  /\ Flat(T) \in Seq(Seq(Nat)) /\ Rising(Flat(T))
         /\ \A m \in Nat : m \in MarksOf(Flat(T)) <=> \E i \in 1 .. Len(T) : m \in MarksOf(T[i])
<1> DEFINE n == Len(T)
           LT == Seq(Seq(Nat))
<1>1. n \in Nat /\ n # 0 /\ \A i \in 1 .. n : T[i] \in LT /\ Rising(T[i])
  <2>1. T \in Seq(LT)
    OBVIOUS
  <2> HIDE DEF LT
  <2>2. n \in Nat /\ \A i \in 1 .. n : T[i] \in LT
    BY <2>1, ElementOfSeq
  <2> QED
    BY <2>2 DEF Above
<1>2. PICK f : Joins(T, f) /\ Flat(T) = f[n]
  BY <1>1, FlatJoins
<1>3. f[1] = T[1] /\ \A i \in 2 .. n : f[i] = f[i - 1] \o T[i]
  BY <1>2 DEF Joins
<1> DEFINE Good(i) == /\ f[i] \in LT /\ Rising(f[i])
                      /\ \A m \in Nat : m \in MarksOf(f[i]) <=> \E j \in 1 .. i : m \in MarksOf(T[j])
           S == {i \in 0 .. n : i = 0 \/ Good(i)}
<1>4. \A i \in 1 .. n : i - 1 \in S => i \in S
  <2> SUFFICES ASSUME NEW i \in 1 .. n, i = 1 \/ Good(i - 1) PROVE Good(i)
    <3> HIDE DEF Good, n
    <3>1. \A i \in 1 .. n : i \in 0 .. n /\ (i - 1 = 0 <=> i = 1)
      BY <1>1
    <3> QED
      BY <3>1
  <2> HIDE DEF n
  <2>1. i \in Nat /\ i >= 1 /\ i <= n
    BY <1>1
  <2>2. CASE i = 1
    <3>1. \A j : j \in 1 .. i <=> j = 1
      BY <2>2
    <3>2. f[i] = T[1]
      BY <1>3, <2>2
    <3> HIDE DEF LT
    <3> QED
      BY <1>1, <2>2, <3>1, <3>2
  <2>3. CASE i # 1
    <3> DEFINE k == i - 1
               g == f[k]
               u == T[i]
    <3>1. f[i] = g \o u
      <4>1. i \in 2 .. n
        BY <1>1, <2>1, <2>3
      <4> QED
        BY <1>3, <4>1
    <3>2. /\ g \in LT /\ Rising(g)
          /\ \A m \in Nat : m \in MarksOf(g) <=> \E j \in 1 .. k : m \in MarksOf(T[j])
      BY <2>3
    <3>3. u \in LT /\ Rising(u)
      BY <1>1
    <3>4. \A j : j \in 1 .. i <=> j \in 1 .. k \/ j = i
      BY <2>1
    <3>5. \A j \in 1 .. k : j \in 1 .. n /\ j < i
      BY <1>1, <2>1
    <3> HIDE DEF g, k
    <3>6. MarksOf(g \o u) = MarksOf(g) \cup MarksOf(u)
      BY <3>2, <3>3, MarksJoined
    <3>7. ASSUME NEW x \in 1 .. Len(g), NEW y \in 1 .. Len(u) PROVE Before(g[x], u[y])
      <4> SUFFICES ASSUME NEW p \in 1 .. Len(g[x]), NEW q \in 1 .. Len(u[y]),
                          g[x][p] # 0, u[y][q] # 0
                   PROVE  g[x][p] < u[y][q]
        BY DEF Before
      <4> DEFINE a == g[x][p]
                 b == u[y][q]
      <4>1. g[x] \in Seq(Nat) /\ u[y] \in Seq(Nat)
        BY <3>2, <3>3, ElementOfSeq
      <4>2. a \in Nat /\ b \in Nat
        BY <4>1, ElementOfSeq
      <4>3. a \in MarksOf(g) /\ b \in MarksOf(u)
        BY <4>2 DEF MarksOf, Holds
      <4> HIDE DEF a, b, u
      <4>4. PICK j \in 1 .. k : a \in MarksOf(T[j])
        BY <3>2, <4>2, <4>3
      <4>5. a < b
        <5>1. j \in 1 .. n /\ j < i
          BY <3>5
        <5>2. b \in MarksOf(T[i]) /\ a # 0 /\ b # 0
          BY <4>3 DEF u, a, b
        <5> QED
          BY <4>4, <5>1, <5>2 DEF Above, n
      <4> QED
        BY <4>5 DEF a, b
    <3>8. Rising(g \o u)
      BY <3>2, <3>3, <3>7, RisingJoined
    <3>9. g \o u \in LT
      <4>1. g \o u \in Seq(Seq(Nat))
        BY <3>2, <3>3, PartsOf
      <4> QED
        BY <4>1
    <3>10. \A m \in Nat : m \in MarksOf(f[i]) <=> \E j \in 1 .. i : m \in MarksOf(T[j])
      BY <3>1, <3>2, <3>4, <3>6
    <3> HIDE DEF LT
    <3> QED
      BY <3>1, <3>8, <3>9, <3>10
  <2> QED
    BY <2>2, <2>3
<1>5. n \in S
  <2> HIDE DEF S, n
  <2>1. 0 \in S
    BY <1>1 DEF S
  <2>2. 0 .. n \subseteq S
    BY <1>1, <1>4, <2>1, UpTo
  <2> QED
    BY <1>1, <2>2
<1>6. Good(n)
  BY <1>1, <1>5
<1> QED
  BY <1>2, <1>6

\* The marks of a letter, or of a text and a letter.
Ids(l) == {m \in Nat : Holds(l, m)}

\* Marks joined to the text: letters, or noise.
Emitted(w, marks, v) ==
    /\ OnlyText(w, v) /\ Rising(v.text)
    /\ NoTwoBlanks(v.text) /\ Len(v.text) <= MaxScroll
    /\ MarksOf(v.text) \subseteq MarksOf(w.text) \cup Ids(marks)
    /\ MarksOf(w.text) \cup Ids(marks) \cup w.out \subseteq MarksOf(v.text) \cup v.out

\* cuts that end with the last mark, and where the group that a cut ends begins.
From(cuts, i) == Threshold!Max({0} \cup {j \in cuts : j < i}) + 1

LEMMA FromIs ==
  ASSUME NEW n \in Nat, NEW cuts \in SUBSET (1 .. n), NEW i \in 1 .. n
  PROVE  /\ From(cuts, i) \in 1 .. i
         /\ \A j \in cuts : j < i => j < From(cuts, i)
         /\ \A k \in 1 .. i : (\A j \in cuts : j < i => j < k) => From(cuts, i) <= k
<1> DEFINE B == {0} \cup {j \in cuts : j < i}
           m == Threshold!Max(B)
<1>1. B \in SUBSET (0 .. n) /\ B # {}
  <2>1. 0 \in 0 .. n /\ \A j \in cuts : j \in 0 .. n
    OBVIOUS
  <2> QED
    BY <2>1
<1>2. From(cuts, i) = m + 1
  BY DEF From
<1>3. (\A j \in cuts : j < i => j \in B) /\ \A b \in B : b = 0 \/ (b \in cuts /\ b < i)
  OBVIOUS
<1> HIDE DEF B
<1>4. Threshold!Max(B) \in B /\ \A k \in B : k <= Threshold!Max(B)
  BY <1>1, GreatestOf
<1>5. m \in B /\ \A k \in B : k <= m
  BY <1>4
<1> HIDE DEF m
<1>6. m \in Nat /\ m < i
  BY <1>1, <1>3, <1>5
<1> QED
  BY <1>2, <1>3, <1>5, <1>6

LEMMA CutAfter ==
  ASSUME NEW n \in Nat, NEW cuts \in SUBSET (1 .. n), NEW k \in 1 .. n, n \in cuts
  PROVE  \E j \in cuts : k <= j /\ From(cuts, j) <= k
<1> DEFINE B == {j \in cuts : k <= j}
<1>1. B \in SUBSET Nat /\ B # {}
  <2>1. \A j \in cuts : j \in Nat
    OBVIOUS
  <2>2. n \in B
    OBVIOUS
  <2> QED
    BY <2>1, <2>2
<1>2. PICK j \in B : \A i \in B : j <= i
  <2> HIDE DEF B
  <2> QED
    BY <1>1, LeastNat
<1>3. j \in 1 .. n /\ j \in cuts /\ k <= j /\ k \in 1 .. j
  OBVIOUS
<1>4. \A i \in cuts : i < j => i < k
  BY <1>2
<1>5. From(cuts, j) <= k
  BY <1>3, <1>4, FromIs
<1> QED
  BY <1>3, <1>5

\* The letter that is a part of the marks.
LEMMA PartIs ==
  ASSUME NEW marks \in Seq(Nat), NEW b \in 1 .. Len(marks), NEW a \in 1 .. b
  PROVE  /\ SubSeq(marks, a, b) \in Seq(Nat) /\ Len(SubSeq(marks, a, b)) = b - a + 1
         /\ Asc(marks) => Asc(SubSeq(marks, a, b))
         /\ \A k \in a .. b : Holds(SubSeq(marks, a, b), marks[k])
         /\ \A m : Holds(SubSeq(marks, a, b), m) => \E k \in a .. b : marks[k] = m
<1> DEFINE n == Len(marks)
           l == SubSeq(marks, a, b)
           h == b - a + 1
<1>1. n \in Nat /\ a \in 1 .. n + 1 /\ b \in a - 1 .. n /\ b \in 1 .. n /\ a \in 1 .. b
  OBVIOUS
<1>2. l \in Seq(Nat) /\ Len(l) = h /\ \A i \in 1 .. h : l[i] = marks[a + i - 1]
  BY <1>1, SubSeqIs
<1> DEFINE At(i) == a + i - 1
           Back(k) == k - a + 1
<1>3. /\ h \in Nat /\ \A i \in 1 .. h : At(i) \in a .. b /\ At(i) \in 1 .. n /\ l[i] = marks[At(i)]
      /\ \A i, j \in 1 .. h : i < j => At(i) < At(j)
      /\ \A k \in a .. b : Back(k) \in 1 .. h /\ At(Back(k)) = k
  <2> HIDE DEF l, n
  <2> QED
    BY <1>1, <1>2
<1>4. Len(l) = h
  BY <1>2
<1> HIDE DEF At, Back, l, h
<1>5. ASSUME Asc(marks) PROVE Asc(l)
  BY <1>3, <1>4, <1>5 DEF Asc
<1>6. \A k \in a .. b : Holds(l, marks[k])
  BY <1>3, <1>4 DEF Holds
<1>7. \A m : Holds(l, m) => \E k \in a .. b : marks[k] = m
  BY <1>3, <1>4 DEF Holds
<1> QED
  BY <1>2, <1>5, <1>6, <1>7 DEF l, h

\* One piece of EmitGroups: the letter, and the space that may be behind it.
Spaced(b, u) == u \o (IF b THEN <<Threshold!Space>> ELSE << >>)

LEMMA SpacedIs ==
  ASSUME NEW u \in Seq(Seq(Nat)), NEW l, PieceOf(u, l), NEW b
  PROVE  PieceOf(Spaced(b, u), l) /\ MarksOf(Spaced(b, u)) = MarksOf(u)
<1>1. CASE b
  <2>1. Spaced(b, u) = u \o << Blank >>
    BY <1>1 DEF Spaced, Threshold!Space, Blank
  <2> QED
    BY <2>1, BlankJoined
<1>2. CASE ~b
  <2>1. Spaced(b, u) = u
    BY <1>2 DEF Spaced
  <2> QED
    BY <2>1
<1> QED
  BY <1>1, <1>2

\* What the marks of an open letter are, and the text they are joined to.
Joinable(w, marks) ==
    /\ IsWin(w) /\ Rising(w.text) /\ marks \in Seq(Nat) /\ Asc(marks) /\ Under(w.text, marks)
    /\ \A k \in 1 .. Len(marks) : marks[k] # 0

WordBehind(w, gaps, c, i) == i <= Len(gaps) /\ 10 * gaps[i] >= Threshold!wordCutForGaps(w, gaps, c)
GroupAt(w, marks, gaps, c, cuts, i) ==
    Spaced(WordBehind(w, gaps, c, i), Threshold!emitOneLetter(SubSeq(marks, From(cuts, i), i), c))
Groups(w, marks, gaps, c, cuts) ==
    [i \in 1 .. Len(marks) |-> IF i \in cuts THEN GroupAt(w, marks, gaps, c, cuts, i) ELSE << >>]
Noise(marks, c, cuts) ==
    IF c.noise = "lone" THEN {marks[i] : i \in {j \in cuts : From(cuts, j) = j}} ELSE {}

LEMMA EmitGroupsIs ==
  ASSUME NEW w, NEW marks, NEW gaps, NEW split, NEW c
  PROVE  LET cuts == Threshold!Boundaries(split, marks, gaps)
         IN  Threshold!EmitGroups(w, marks, gaps, split, c)
                = Threshold!Grow(w, Flat(<<w.text>> \o Groups(w, marks, gaps, c, cuts)), Noise(marks, c, cuts))
<1> DEFINE cuts == Threshold!Boundaries(split, marks, gaps)
           FromHere(i) == Threshold!Max({0} \cup {j \in cuts : j < i}) + 1
           Piece(i) == Threshold!emitOneLetter(SubSeq(marks, FromHere(i), i), c)
                       \o (IF i <= Len(gaps) /\ 10 * gaps[i] >= Threshold!wordCutForGaps(w, gaps, c)
                           THEN <<Threshold!Space>> ELSE << >>)
           G == [i \in 1 .. Len(marks) |-> IF i \in cuts THEN Piece(i) ELSE << >>]
           N == IF c.noise = "lone" THEN {marks[i] : i \in {j \in cuts : FromHere(j) = j}} ELSE {}
<1>1. Threshold!EmitGroups(w, marks, gaps, split, c) = Threshold!Grow(w, Threshold!FlattenSeq(<<w.text>> \o G), N)
  BY DEF Threshold!EmitGroups
<1>2. G = Groups(w, marks, gaps, c, cuts)
  BY DEF Groups, GroupAt, Spaced, WordBehind, From
<1>3. N = Noise(marks, c, cuts)
  BY DEF Noise, From
<1> HIDE DEF G, N, cuts
<1>4. Threshold!FlattenSeq(<<w.text>> \o G) = Flat(<<w.text>> \o G)
  BY FlattensAreFlat
<1> QED
  BY <1>1, <1>2, <1>3, <1>4 DEF cuts

LEMMA GroupIs ==
  ASSUME NEW w, NEW marks, Joinable(w, marks), NEW gaps, NEW c,
         NEW cuts \in SUBSET (1 .. Len(marks)), NEW i \in cuts
  PROVE  LET g == GroupAt(w, marks, gaps, c, cuts, i)
         IN  /\ g \in Seq(Seq(Nat)) /\ Rising(g)
             /\ \A m \in MarksOf(g) : \E k \in From(cuts, i) .. i : marks[k] = m
             /\ \A k \in From(cuts, i) .. i :
                    marks[k] \in MarksOf(g) \cup Noise(marks, c, cuts)
<1> DEFINE n == Len(marks)
           a == From(cuts, i)
           l == SubSeq(marks, a, i)
           u == Threshold!emitOneLetter(l, c)
           b == WordBehind(w, gaps, c, i)
           g == GroupAt(w, marks, gaps, c, cuts, i)
<1>1. marks \in Seq(Nat) /\ Asc(marks)
  BY DEF Joinable
<1>2. n \in Nat /\ i \in 1 .. n /\ i \in 1 .. Len(marks) /\ \A k \in 1 .. n : marks[k] \in Nat
  BY <1>1
<1>3. a \in 1 .. i
  <2> HIDE DEF a
  <2>1. From(cuts, i) \in 1 .. i
    <3>1. cuts \in SUBSET (1 .. n)
      OBVIOUS
    <3> HIDE DEF n
    <3> QED
      BY <1>2, <3>1, FromIs
  <2> QED
    BY <2>1 DEF a
<1>4. g = Spaced(b, u)
  BY DEF GroupAt
<1> HIDE DEF g, b
<1>5. /\ SubSeq(marks, a, i) \in Seq(Nat) /\ Len(SubSeq(marks, a, i)) = i - a + 1
      /\ Asc(marks) => Asc(SubSeq(marks, a, i))
      /\ \A k \in a .. i : Holds(SubSeq(marks, a, i), marks[k])
      /\ \A m : Holds(SubSeq(marks, a, i), m) => \E k \in a .. i : marks[k] = m
  <2> HIDE DEF a, n
  <2> QED
    BY <1>1, <1>2, <1>3, PartIs
<1>6. /\ l \in Seq(Nat) /\ Len(l) = i - a + 1 /\ Asc(l)
      /\ \A k \in a .. i : Holds(l, marks[k])
      /\ \A m : Holds(l, m) => \E k \in a .. i : marks[k] = m
  BY <1>1, <1>5
<1> HIDE DEF l
<1>7. /\ PieceOf(u, l)
      /\ ~(Len(l) = 1 /\ c.noise = "lone") => \A m \in Nat : Holds(l, m) => m \in MarksOf(u)
  BY <1>6, EmitOneIs
<1> HIDE DEF u
<1>8. u \in Seq(Seq(Nat))
  BY <1>7 DEF PieceOf
<1>9. PieceOf(g, l) /\ MarksOf(g) = MarksOf(u)
  BY <1>4, <1>7, <1>8, SpacedIs
<1>10. g \in Seq(Seq(Nat)) /\ Rising(g) /\ \A m \in MarksOf(g) : Holds(l, m)
  BY <1>9 DEF PieceOf, MarksOf
<1>11. ASSUME NEW k \in a .. i PROVE marks[k] \in MarksOf(g) \cup Noise(marks, c, cuts)
  <2>1. k \in 1 .. n
    <3> HIDE DEF a, n
    <3> QED
      BY <1>2, <1>3
  <2>2. CASE Len(l) = 1 /\ c.noise = "lone"
    <3>1. a = i /\ k = i
      <4> HIDE DEF a, n
      <4>1. i - a + 1 = 1
        BY <1>6, <2>2
      <4>2. a = i
        BY <1>2, <1>3, <4>1
      <4> QED
        BY <1>2, <4>2
    <3>2. marks[i] \in Noise(marks, c, cuts)
      BY <2>2, <3>1 DEF Noise
    <3> QED
      BY <3>1, <3>2
  <2>3. CASE ~(Len(l) = 1 /\ c.noise = "lone")
    <3> HIDE DEF a, n
    <3> QED
      BY <1>2, <1>6, <1>7, <1>9, <2>1, <2>3
  <2> QED
    BY <2>2, <2>3
<1>12. \A m \in MarksOf(g) : \E k \in a .. i : marks[k] = m
  BY <1>6, <1>10
<1> QED
  BY <1>10, <1>11, <1>12 DEF g

\* The text and all the groups, as EmitGroups joins them.
LEMMA GroupsAre ==
  ASSUME NEW w, NEW marks, Joinable(w, marks), NEW gaps, NEW c,
         NEW cuts \in SUBSET (1 .. Len(marks)), Len(marks) # 0 => Len(marks) \in cuts
  PROVE  LET J == Flat(<<w.text>> \o Groups(w, marks, gaps, c, cuts))
         IN  /\ J \in Seq(Seq(Nat)) /\ Rising(J)
             /\ MarksOf(J) \subseteq MarksOf(w.text) \cup Ids(marks)
             /\ MarksOf(w.text) \cup Ids(marks) \subseteq MarksOf(J) \cup Noise(marks, c, cuts)
<1> DEFINE n == Len(marks)
           LT == Seq(Seq(Nat))
           P == Groups(w, marks, gaps, c, cuts)
           G(i) == GroupAt(w, marks, gaps, c, cuts, i)
           X == Noise(marks, c, cuts)
           F(i) == From(cuts, i)
<1>1. marks \in Seq(Nat) /\ Asc(marks) /\ Rising(w.text) /\ Under(w.text, marks) /\ w.text \in LT
      /\ \A k \in 1 .. Len(marks) : marks[k] # 0
  BY DEF Joinable, IsWin, WinFields
<1>2. n \in Nat /\ \A k \in 1 .. n : marks[k] \in Nat
  BY <1>1
<1>3. ASSUME NEW i \in cuts
      PROVE  /\ G(i) \in LT /\ Rising(G(i))
             /\ \A m \in MarksOf(G(i)) : \E k \in F(i) .. i : marks[k] = m
             /\ \A k \in F(i) .. i : marks[k] \in MarksOf(G(i)) \cup X
  BY GroupIs
<1>4. ASSUME NEW i \in cuts
      PROVE  F(i) \in 1 .. i /\ \A j \in cuts : j < i => j < F(i)
  <2>1. cuts \in SUBSET (1 .. n) /\ i \in 1 .. n
    OBVIOUS
  <2> HIDE DEF n
  <2> QED
    BY <1>2, <2>1, FromIs
<1>5. /\ Len(P) = n
      /\ \A i \in 1 .. n : P[i] = IF i \in cuts THEN G(i) ELSE << >>
  BY <1>2 DEF Groups
<1>6. << >> \in LT /\ Rising(<< >>) /\ \A m : m \notin MarksOf(<< >>)
  BY EmptySeq DEF Rising, MarksOf
<1>7. \A i \in 1 .. n : P[i] \in LT
  <2> HIDE DEF G, P, LT, n
  <2> QED
    BY <1>3, <1>5, <1>6
<1>8. P \in Seq(LT)
  <2>1. P = [i \in 1 .. n |-> P[i]]
    BY DEF Groups
  <2> HIDE DEF P, LT, n
  <2>2. [i \in 1 .. n |-> P[i]] \in Seq(LT)
    BY <1>2, <1>7
  <2> QED
    BY <2>1, <2>2
<1> DEFINE o == <<w.text>>
           T == o \o P
<1>9. o \in Seq(LT) /\ Len(o) = 1 /\ o[1] = w.text
  <2> HIDE DEF LT
  <2> QED
    BY <1>1, OneLetter
<1>10. T \in Seq(LT) /\ PartsAt(T, o, P, Len(o), Len(P))
  <2> HIDE DEF o, P, LT
  <2> QED
    BY <1>8, <1>9, PartsOf DEF Parts
<1>11. PartsAt(T, o, P, 1, n)
  BY <1>5, <1>9, <1>10
<1> DEFINE E(i) == IF i = 1 THEN w.text ELSE IF i - 1 \in cuts THEN G(i - 1) ELSE << >>
<1>12. Len(T) = n + 1 /\ \A i \in 1 .. n + 1 : T[i] = E(i)
  <2> HIDE DEF G, T, P, o, n
  <2>1. Len(T) = 1 + n
    BY <1>11 DEF PartsAt
  <2>2. \A i \in 1 .. n + 1 : \/ i \in 1 .. 1 /\ T[i] = o[i]
                              \/ i - 1 \in 1 .. n /\ T[i] = P[i - 1]
    BY <1>2, <1>11, <2>1 DEF PartsAt
  <2>3. ASSUME NEW i \in 1 .. n + 1 PROVE T[i] = E(i)
    <3>1. CASE i = 1
      BY <1>2, <1>9, <2>2, <3>1
    <3>2. CASE i # 1
      <4>1. i - 1 \in 1 .. n /\ T[i] = P[i - 1]
        BY <1>2, <2>2, <3>2
      <4> QED
        BY <1>5, <3>2, <4>1
    <3> QED
      BY <3>1, <3>2
  <2> QED
    BY <1>2, <2>1, <2>3
<1> HIDE DEF T, P, o
<1>13. Above(T)
  <2>1. ASSUME NEW i \in 1 .. n + 1 PROVE Rising(E(i))
    <3> HIDE DEF G
    <3> QED
      BY <1>1, <1>3, <1>6
  <2>2. ASSUME NEW i \in 1 .. n + 1, NEW j \in 1 .. n + 1, i < j,
               NEW p \in MarksOf(E(i)), NEW q \in MarksOf(E(j)), p # 0, q # 0
        PROVE  p < q
    <3> HIDE DEF G
    <3>1. j # 1 /\ j - 1 \in cuts /\ q \in MarksOf(G(j - 1))
      <4> HIDE DEF n
      <4>1. j # 1
        BY <1>2, <2>2
      <4>2. E(j) = IF j - 1 \in cuts THEN G(j - 1) ELSE << >>
        BY <4>1
      <4> HIDE DEF E
      <4> QED
        BY <1>6, <2>2, <4>1, <4>2
    <3>2. PICK y \in F(j - 1) .. j - 1 : marks[y] = q
      BY <1>3, <3>1
    <3>3. F(j - 1) \in 1 .. j - 1 /\ j - 1 \in 1 .. n
      BY <1>4, <3>1
    <3>4. y \in 1 .. n
      <4> HIDE DEF F, n
      <4> QED
        BY <1>2, <3>2, <3>3
    <3>5. CASE i = 1
      <4>1. p \in MarksOf(w.text)
        BY <2>2, <3>5
      <4> QED
        BY <1>1, <2>2, <3>2, <3>4, <4>1 DEF Under
    <3>6. CASE i # 1
      <4>1. i - 1 \in cuts /\ p \in MarksOf(G(i - 1))
        <5>1. E(i) = IF i - 1 \in cuts THEN G(i - 1) ELSE << >>
          BY <3>6
        <5> HIDE DEF E
        <5> QED
          BY <1>6, <2>2, <5>1
      <4>2. PICK x \in F(i - 1) .. i - 1 : marks[x] = p
        BY <1>3, <4>1
      <4>3. F(i - 1) \in 1 .. i - 1 /\ i - 1 \in 1 .. n
        BY <1>4, <4>1
      <4>4. i - 1 < F(j - 1)
        <5>1. i - 1 < j - 1
          <6> HIDE DEF n
          <6> QED
            BY <1>2, <2>2
        <5> QED
          BY <1>4, <3>1, <4>1, <5>1
      <4>5. x \in 1 .. n /\ x < y
        <5> HIDE DEF F, n
        <5> QED
          BY <1>2, <3>2, <3>3, <4>2, <4>3, <4>4
      <4> QED
        BY <1>1, <2>2, <3>2, <3>4, <4>2, <4>5 DEF Asc
    <3> QED
      BY <3>5, <3>6
  <2> HIDE DEF E
  <2> QED
    BY <1>12, <2>1, <2>2 DEF Above
<1> DEFINE J == Flat(T)
<1>14. /\ J \in LT /\ Rising(J)
       /\ \A m \in Nat : m \in MarksOf(J) <=> \E i \in 1 .. Len(T) : m \in MarksOf(T[i])
  <2>1. T \in Seq(Seq(Seq(Nat))) /\ Len(T) # 0
    <3>1. Len(T) # 0
      <4> HIDE DEF n
      <4> QED
        BY <1>2, <1>12
    <3> QED
      BY <1>10, <3>1
  <2> QED
    BY <1>13, <2>1, TextsJoined
<1> HIDE DEF J
<1>15. \A m \in Nat : m \in MarksOf(J) <=> \E i \in 1 .. n + 1 : m \in MarksOf(E(i))
  <2> HIDE DEF E
  <2> QED
    BY <1>12, <1>14
<1> HIDE DEF LT
<1>16. ASSUME NEW m \in MarksOf(J) PROVE m \in MarksOf(w.text) \cup Ids(marks)
  <2>1. m \in Nat
    BY DEF MarksOf
  <2> HIDE DEF E
  <2>2. PICK i \in 1 .. n + 1 : m \in MarksOf(E(i))
    BY <1>15, <2>1
  <2> USE DEF E
  <2>3. CASE i = 1
    BY <2>2, <2>3
  <2>4. CASE i # 1
    <3> HIDE DEF G
    <3>1. i - 1 \in cuts /\ m \in MarksOf(G(i - 1))
      <4>1. E(i) = IF i - 1 \in cuts THEN G(i - 1) ELSE << >>
        BY <2>4
      <4> HIDE DEF E
      <4> QED
        BY <1>6, <2>2, <4>1
    <3>2. PICK x \in F(i - 1) .. i - 1 : marks[x] = m
      BY <1>3, <3>1
    <3>3. F(i - 1) \in 1 .. i - 1 /\ i - 1 \in 1 .. n
      BY <1>4, <3>1
    <3>4. x \in 1 .. n
      <4> HIDE DEF F, n
      <4> QED
        BY <1>2, <3>2, <3>3
    <3>5. m \in Ids(marks)
      BY <2>1, <3>2, <3>4 DEF Ids, Holds
    <3> QED
      BY <3>5
  <2> QED
    BY <2>3, <2>4
<1>17. ASSUME NEW m \in MarksOf(w.text) PROVE m \in MarksOf(J)
  <2>1. m \in Nat
    BY DEF MarksOf
  <2>2. 1 \in 1 .. n + 1 /\ E(1) = w.text
    BY <1>2
  <2> HIDE DEF E, n
  <2> QED
    BY <1>15, <2>1, <2>2
<1>18. ASSUME NEW m \in Ids(marks) PROVE m \in MarksOf(J) \cup X
  <2>1. PICK k \in 1 .. n : marks[k] = m
    BY DEF Ids, Holds
  <2>2. m \in Nat
    BY DEF Ids
  <2>3. PICK j \in cuts : k <= j /\ From(cuts, j) <= k
    <3>1. n \in cuts /\ cuts \in SUBSET (1 .. n)
      BY <1>2
    <3> HIDE DEF n
    <3> QED
      BY <1>2, <3>1, CutAfter
  <2>4. j \in 1 .. n /\ F(j) \in 1 .. j
    BY <1>4
  <2>5. k \in F(j) .. j
    <3>1. F(j) <= k
      BY <2>3
    <3> HIDE DEF F, n
    <3> QED
      BY <1>2, <2>3, <2>4, <3>1
  <2>6. m \in MarksOf(G(j)) \cup X
    <3> HIDE DEF G, X, F
    <3> QED
      BY <1>3, <2>1, <2>5
  <2>7. j + 1 \in 1 .. n + 1 /\ E(j + 1) = G(j)
    <3>1. j \in Nat /\ j + 1 \in 1 .. n + 1 /\ j + 1 # 1 /\ (j + 1) - 1 = j
      <4> HIDE DEF n
      <4> QED
        BY <1>2, <2>4
    <3> HIDE DEF G
    <3> QED
      BY <3>1
  <2> HIDE DEF E, G, X
  <2> QED
    BY <1>15, <2>2, <2>6, <2>7
<1> QED
  <2>1. J \in Seq(Seq(Nat)) /\ Rising(J)
    BY <1>14 DEF LT
  <2>2. /\ MarksOf(J) \subseteq MarksOf(w.text) \cup Ids(marks)
        /\ MarksOf(w.text) \cup Ids(marks) \subseteq MarksOf(J) \cup X
    <3> HIDE DEF X
    <3> QED
      BY <1>16, <1>17, <1>18
  <2> QED
    BY <2>1, <2>2 DEF J, T, o, P

LEMMA EmitsAre ==
  ASSUME NEW w, NEW marks, Joinable(w, marks), NEW gaps, NEW split, NEW c
  PROVE  Emitted(w, marks, Threshold!EmitGroups(w, marks, gaps, split, c))
<1> DEFINE cuts == Threshold!Boundaries(split, marks, gaps)
           J == Flat(<<w.text>> \o Groups(w, marks, gaps, c, cuts))
           X == Noise(marks, c, cuts)
           v == Threshold!EmitGroups(w, marks, gaps, split, c)
<1>1. IsWin(w) /\ marks \in Seq(Nat)
  BY DEF Joinable
<1>2. cuts \in SUBSET (1 .. Len(marks)) /\ (Len(marks) # 0 => Len(marks) \in cuts)
  <2>1. Len(marks) \in Nat
    BY <1>1
  <2>2. Len(marks) # 0 => Len(marks) \in 1 .. Len(marks)
    BY <2>1
  <2> QED
    BY <2>2 DEF Threshold!Boundaries
<1>3. v = Threshold!Grow(w, J, X)
  BY EmitGroupsIs
<1> HIDE DEF cuts, v
<1>4. /\ J \in Seq(Seq(Nat)) /\ Rising(J)
      /\ MarksOf(J) \subseteq MarksOf(w.text) \cup Ids(marks)
      /\ MarksOf(w.text) \cup Ids(marks) \subseteq MarksOf(J) \cup X
  BY <1>2, GroupsAre
<1> HIDE DEF J, X
<1>5. Grown(w, J, X, Threshold!Grow(w, J, X))
  BY <1>1, <1>4, GrowIs
<1>6. Grown(w, J, X, v)
  BY <1>3, <1>5
<1>7. Emitted(w, marks, v)
  BY <1>4, <1>6 DEF Grown, Emitted
<1> QED
  BY <1>7 DEF v

\* A finite set of numbers has a greatest.
LEMMA Bounded ==
  ASSUME NEW T \in SUBSET Nat, IsFiniteSet(T)
  PROVE  \E n \in Nat : T \subseteq 0 .. n
<1>1. PICK q \in Seq(T) : \A s \in T : \E n \in 1 .. Len(q) : q[n] = s
  BY DEF IsFiniteSet
<1> DEFINE n == Len(q)
           S == {k \in 0 .. n : \E b \in Nat : \A i \in 1 .. k : q[i] <= b}
<1>2. n \in Nat /\ \A i \in 1 .. n : q[i] \in Nat
  <2>1. \A i \in 1 .. n : q[i] \in T
    BY ElementOfSeq
  <2>2. n \in Nat
    BY LenProperties
  <2> QED
    BY <2>1, <2>2
<1> HIDE DEF n
<1>3. 0 \in S
  BY <1>2
<1>4. \A k \in 1 .. n : k - 1 \in S => k \in S
  <2> SUFFICES ASSUME NEW k \in 1 .. n, NEW b \in Nat, \A i \in 1 .. k - 1 : q[i] <= b
               PROVE  \E d \in Nat : \A i \in 1 .. k : q[i] <= d
    <3>1. \A k \in 1 .. n : k \in 0 .. n
      BY <1>2
    <3> QED
      BY <3>1
  <2> DEFINE d == IF q[k] <= b THEN b ELSE q[k]
  <2>1. d \in Nat /\ b <= d /\ q[k] <= d
    BY <1>2
  <2> HIDE DEF d
  <2>2. \A i \in 1 .. k : i = k \/ (i \in 1 .. k - 1 /\ i \in 1 .. n)
    BY <1>2
  <2>3. \A i \in 1 .. k : q[i] <= d
    BY <1>2, <2>1, <2>2
  <2> QED
    BY <2>1, <2>3
<1>5. n \in S
  <2> HIDE DEF S
  <2>1. 0 .. n \subseteq S
    BY <1>2, <1>3, <1>4, UpTo
  <2> QED
    BY <1>2, <2>1
<1>6. PICK b \in Nat : \A i \in 1 .. n : q[i] <= b
  BY <1>5
<1>7. ASSUME NEW s \in T PROVE s \in 0 .. b
  <2>1. PICK i \in 1 .. n : q[i] = s
    BY <1>1 DEF n
  <2> QED
    BY <1>2, <1>6, <2>1
<1> QED
  BY <1>7

LEMMA MostOf ==
  ASSUME NEW T \in SUBSET Nat, IsFiniteSet(T), T # {}
  PROVE  /\ Threshold!Max(T) \in T /\ \A k \in T : k <= Threshold!Max(T)
         /\ Mask!Max(T) = Threshold!Max(T)
<1>1. PICK n \in Nat : T \subseteq 0 .. n
  BY Bounded
<1> QED
  BY <1>1, GreatestOf

LEMMA GreaterOf ==
  ASSUME NEW a \in Int, NEW b \in Int
  PROVE  /\ Threshold!Max({a, b}) = (IF a >= b THEN a ELSE b)
         /\ Mask!Max({a, b}) = (IF a >= b THEN a ELSE b)
<1> DEFINE m == IF a >= b THEN a ELSE b
<1>1. m \in {a, b} /\ \A y \in {a, b} : m >= y
  OBVIOUS
<1>2. ASSUME NEW x \in {a, b}, \A y \in {a, b} : x >= y PROVE x = m
  BY <1>2
<1> HIDE DEF m
<1>3. (CHOOSE x \in {a, b} : \A y \in {a, b} : x >= y) = m
  BY <1>1, <1>2
<1> QED
  BY <1>3 DEF Threshold!Max, Mask!Max, m

LEMMA ThresholdCap == Threshold!Cap \in Nat \ {0}
<1> DEFINE f == 4 * Threshold!Max(Units)
           o == {UncalWord, Quiet, LongMark, f}
           T == Units \cup o
<1>1. /\ Units \in SUBSET Nat /\ IsFiniteSet(Units) /\ Units # {}
      /\ UncalWord \in Nat /\ Quiet \in Nat /\ LongMark \in Nat
  BY ThresholdConstants
<1>2. Threshold!Max(Units) \in Nat
  BY <1>1, MostOf
<1>3. f \in Nat
  BY <1>2
<1> HIDE DEF f
<1>4. T \in SUBSET Nat /\ T # {}
  BY <1>1, <1>3
<1>5. IsFiniteSet(T)
  <2>1. IsFiniteSet({UncalWord}) /\ IsFiniteSet({Quiet}) /\ IsFiniteSet({LongMark}) /\ IsFiniteSet({f})
    BY FS_Singleton
  <2>2. IsFiniteSet({UncalWord} \cup {Quiet})
    BY <2>1, FS_Union
  <2>3. IsFiniteSet(({UncalWord} \cup {Quiet}) \cup {LongMark})
    BY <2>1, <2>2, FS_Union
  <2>4. IsFiniteSet((({UncalWord} \cup {Quiet}) \cup {LongMark}) \cup {f})
    BY <2>1, <2>3, FS_Union
  <2>5. o = (({UncalWord} \cup {Quiet}) \cup {LongMark}) \cup {f}
    OBVIOUS
  <2> HIDE DEF o
  <2>6. IsFiniteSet(o)
    BY <2>4, <2>5
  <2> QED
    BY <1>1, <2>6, FS_Union
<1>6. Threshold!Cap = Threshold!Max(T) + 1
  BY DEF Threshold!Cap, f
<1> HIDE DEF T
<1>7. Threshold!Max(T) \in Nat
  BY <1>4, <1>5, MostOf
<1> QED
  BY <1>6, <1>7

\* What is true of the marks and the text of a window between two operations.
CopyOK(marks, text, next, open) ==
    /\ next # 0 /\ Asc(marks) /\ Rising(text) /\ Under(text, marks)
    /\ \A k \in 1 .. Len(marks) : marks[k] # 0 /\ marks[k] < next
    /\ \A m \in MarksOf(text) : m < next
    /\ NoTwoBlanks(text) /\ Len(text) <= MaxScroll
    /\ ~open => marks = << >>

Clocks(w) ==
    /\ w.run \in 0 .. Threshold!Cap /\ w.valley \in -1 .. Threshold!Cap
    /\ w.pen \in 0 .. Threshold!Cap

Good(w) == IsWin(w) /\ Clocks(w) /\ CopyOK(w.marks, w.text, w.next, w.open)

\* Where the marks are.
MarksKept(w) == MarksOf(w.text) \cup Ids(w.marks) \cup w.out

\* No mark is lost between w and v.
Keeps(w, v) == /\ MarksKept(w) \subseteq MarksKept(v) /\ w.next <= v.next
               /\ \A m \in Nat : w.next <= m /\ m < v.next => m \in MarksKept(v)

Short(w) == Len(w.marks) <= MaxOpen

Goes(w, v) == Good(v) /\ Keeps(w, v) /\ v.open = w.open /\ (Short(w) => Short(v))

\* Only clocks and flags, and what is known of the dit, are another.
Ticks(w, v) == /\ IsWin(v) /\ Clocks(v) /\ v.marks = w.marks /\ v.text = w.text
               /\ v.next = w.next /\ v.out = w.out /\ v.open = w.open

LEMMA NextIsNat ==
  ASSUME NEW w, IsWin(w)
  PROVE  w.next \in Nat /\ w.marks \in Seq(Nat) /\ w.text \in Seq(Seq(Nat)) /\ w.open \in BOOLEAN
BY DEF IsWin, WinFields

LEMMA TicksGo ==
  ASSUME NEW w, Good(w), NEW v, Ticks(w, v)
  PROVE  Goes(w, v)
<1>1. w.next \in Nat
  BY NextIsNat DEF Good
<1>2. /\ v.marks = w.marks /\ v.text = w.text /\ v.next = w.next /\ v.out = w.out /\ v.open = w.open
      /\ IsWin(v) /\ Clocks(v)
  BY DEF Ticks
<1>3. CopyOK(v.marks, v.text, v.next, v.open)
  BY <1>2 DEF Good
<1>4. MarksKept(v) = MarksKept(w)
  BY <1>2 DEF MarksKept
<1>5. Keeps(w, v)
  BY <1>1, <1>2, <1>4 DEF Keeps
<1> QED
  BY <1>2, <1>3, <1>5 DEF Goes, Good, Short

LEMMA KeepsOn ==
  ASSUME NEW w, NEW v, NEW u, IsWin(w), IsWin(v), IsWin(u), Keeps(w, v), Keeps(v, u)
  PROVE  Keeps(w, u)
<1>1. w.next \in Nat /\ v.next \in Nat /\ u.next \in Nat
  BY NextIsNat
<1>2. MarksKept(w) \subseteq MarksKept(v) /\ MarksKept(v) \subseteq MarksKept(u) /\ w.next <= v.next /\ v.next <= u.next
  BY DEF Keeps
<1>3. ASSUME NEW m \in Nat, w.next <= m, m < u.next PROVE m \in MarksKept(u)
  <2>1. CASE m < v.next
    BY <1>2, <1>3, <2>1 DEF Keeps
  <2>2. CASE ~(m < v.next)
    <3>1. v.next <= m
      BY <1>1, <2>2
    <3> QED
      BY <1>3, <3>1 DEF Keeps
  <2> QED
    BY <2>1, <2>2
<1> QED
  BY <1>1, <1>2, <1>3 DEF Keeps

LEMMA GoesOnTo ==
  ASSUME NEW w, NEW v, NEW u, Good(w), Goes(w, v), Goes(v, u)
  PROVE  Goes(w, u)
<1>1. Good(v) /\ Good(u) /\ u.open = w.open /\ (Short(w) => Short(u)) /\ Keeps(w, v) /\ Keeps(v, u)
  BY DEF Goes
<1>2. IsWin(w) /\ IsWin(v) /\ IsWin(u)
  BY <1>1 DEF Good
<1>3. Keeps(w, u)
  BY <1>1, <1>2, KeepsOn
<1> QED
  BY <1>1, <1>3 DEF Goes

LEMMA GoesNowhere ==
  ASSUME NEW w, Good(w)
  PROVE  Goes(w, w)
<1>1. Ticks(w, w)
  BY DEF Ticks, Good
<1> QED
  BY <1>1, TicksGo

\* The two runs of the estimator.
Choice(c) == c.est[1] \in {0} \cup Units /\ c.est[2] \in {0} \cup Units

LEMMA RecomputeTicks ==
  ASSUME NEW w, Good(w), NEW est, est \in {0} \cup Units
  PROVE  Ticks(w, Threshold!recomputeUnitFromMarks(w, est))
<1> DEFINE LM == Seq(Nat)
           LT == Seq(Seq(Nat))
           v == Threshold!recomputeUnitFromMarks(w, est)
           K == 0 .. Threshold!Cap
           V == -1 .. Threshold!Cap
<1>1. WinFields(LM, LT, w) /\ w.run \in K /\ w.valley \in V /\ w.pen \in K
  BY DEF Good, IsWin, Clocks
<1> HIDE DEF LM, LT, K, V
<1>2. /\ WinFields(LM, LT, v) /\ v.run \in K /\ v.valley \in V /\ v.pen \in K
      /\ v.marks = w.marks /\ v.text = w.text
      /\ v.next = w.next /\ v.out = w.out /\ v.open = w.open
  <2>1. WinFields(LM, LT, v)
    BY <1>1 DEF WinFields, Threshold!recomputeUnitFromMarks
  <2>2. v.run \in K /\ v.valley \in V /\ v.pen \in K /\ v.open = w.open
    BY <1>1 DEF WinFields, Threshold!recomputeUnitFromMarks
  <2>3. v.marks = w.marks /\ v.text = w.text /\ v.next = w.next /\ v.out = w.out
    BY <1>1 DEF WinFields, Threshold!recomputeUnitFromMarks
  <2> QED
    BY <2>1, <2>2, <2>3
<1> QED
  BY <1>2 DEF Ticks, IsWin, Clocks, LM, LT, K, V

\* The marks without one at the front.
LessOf(s, marks) ==
    /\ s \in Seq(Nat) /\ (Asc(marks) => Asc(s)) /\ Ids(s) \subseteq Ids(marks)
    /\ \A k \in 1 .. Len(s) : \E j \in 1 .. Len(marks) : s[k] = marks[j]

LEMMA Stripped ==
  ASSUME NEW marks \in Seq(Nat), NEW c
  PROVE  LessOf(Threshold!StripNoise(marks, c), marks)
<1> DEFINE s == Threshold!StripNoise(marks, c)
           n == Len(marks)
<1>1. CASE c.noise = "leading" /\ n >= 2
  <2>1. s = Tail(marks)
    BY <1>1 DEF Threshold!StripNoise
  <2>2. n \in Nat /\ s \in Seq(Nat) /\ Len(s) = n - 1
    BY <1>1, <2>1
  <2>3. \A k \in 1 .. n - 1 : s[k] = marks[k + 1]
    BY <1>1, <2>1
  <2> HIDE DEF s, n
  <2>4. \A k \in 1 .. Len(s) : k + 1 \in 1 .. n /\ s[k] = marks[k + 1]
    BY <1>1, <2>2, <2>3
  <2>5. \A k, j \in 1 .. Len(s) : k < j => k + 1 < j + 1
    BY <2>2
  <2>6. Asc(marks) => Asc(s)
    BY <2>4, <2>5 DEF Asc, n
  <2>7. Ids(s) \subseteq Ids(marks)
    BY <2>4 DEF Ids, Holds, n
  <2> QED
    BY <2>2, <2>4, <2>6, <2>7 DEF s, n, LessOf
<1>2. CASE ~(c.noise = "leading" /\ n >= 2)
  <2>1. s = marks
    BY <1>2 DEF Threshold!StripNoise
  <2> QED
    BY <2>1 DEF LessOf
<1> QED
  BY <1>1, <1>2

\* A letter is given up to the text.
LEMMA FlushGoes ==
  ASSUME NEW w, Good(w), NEW c, Choice(c)
  PROVE  /\ Goes(w, Threshold!flushPendingLetter(w, c))
         /\ Threshold!flushPendingLetter(w, c).marks = << >>
<1> DEFINE f == Threshold!flushPendingLetter(w, c)
<1>1. CASE w.marks = << >>
  <2>1. f = w
    BY <1>1 DEF Threshold!flushPendingLetter
  <2> QED
    BY <1>1, <2>1, GoesNowhere
<1>2. CASE w.marks # << >>
  <2> DEFINE v == Threshold!recomputeUnitFromMarks(w, c.est[2])
             marks == Threshold!StripNoise(w.marks, c)
             out == w.out \cup (Threshold!ToSet(w.marks) \ Threshold!ToSet(marks))
             x == [v EXCEPT !.marks = << >>, !.gaps = << >>, !.out = out]
  <2>1. f = Threshold!EmitGroups(x, marks, w.gaps, Threshold!splitGapSeconds(v, w.gaps), c)
    BY <1>2 DEF Threshold!flushPendingLetter
  <2> DEFINE LM == Seq(Nat)
             LT == Seq(Seq(Nat))
  <2>2. Ticks(w, v)
    <3>1. c.est[2] \in {0} \cup Units
      BY DEF Choice
    <3> QED
      BY <3>1, RecomputeTicks
  <2> HIDE DEF v, marks, out
  <2>3. /\ WinFields(LM, LT, x) /\ x.run = v.run /\ x.valley = v.valley /\ x.pen = v.pen
        /\ x.marks = << >> /\ x.text = w.text /\ x.next = w.next /\ x.open = w.open /\ x.out = out
    <3>1. WinFields(LM, LT, v) /\ v.text = w.text /\ v.next = w.next /\ v.open = w.open
      BY <2>2 DEF Ticks, IsWin
    <3>2. << >> \in LM
      BY EmptySeq
    <3> HIDE DEF LM, LT
    <3> QED
      BY <3>1, <3>2 DEF WinFields
  <2>4. IsWin(x)
    BY <2>3 DEF IsWin
  <2>5. CopyOK(w.marks, w.text, w.next, w.open) /\ w.marks \in Seq(Nat) /\ w.next \in Nat
    BY NextIsNat DEF Good
  <2>6. /\ marks \in Seq(Nat) /\ Asc(marks) /\ Ids(marks) \subseteq Ids(w.marks)
        /\ \A k \in 1 .. Len(marks) : \E j \in 1 .. Len(w.marks) : marks[k] = w.marks[j]
    <3>1. Asc(w.marks)
      BY <2>5 DEF CopyOK
    <3>2. LessOf(marks, w.marks)
      <4>1. w.marks \in Seq(Nat)
        BY <2>5
      <4> QED
        BY <4>1, Stripped DEF marks
    <3> QED
      BY <3>1, <3>2 DEF LessOf
  <2> HIDE DEF x
  <2>7. Joinable(x, marks)
    <3>1. Rising(w.text) /\ Under(w.text, w.marks)
          /\ \A k \in 1 .. Len(w.marks) : w.marks[k] # 0
      BY <2>5 DEF CopyOK
    <3>2. Under(x.text, marks)
      BY <2>3, <2>6, <3>1 DEF Under
    <3>3. Rising(x.text)
      BY <2>3, <3>1
    <3>4. \A k \in 1 .. Len(marks) : marks[k] # 0
      BY <2>6, <3>1
    <3> QED
      BY <2>4, <2>6, <3>2, <3>3, <3>4 DEF Joinable
  <2>8. Emitted(x, marks, f)
    BY <2>1, <2>7, EmitsAre
  <2> HIDE DEF f
  <2>9. /\ IsWin(f) /\ f.run = x.run /\ f.valley = x.valley /\ f.pen = x.pen /\ f.marks = x.marks
        /\ f.open = x.open /\ f.next = x.next
        /\ Rising(f.text) /\ NoTwoBlanks(f.text) /\ Len(f.text) <= MaxScroll
        /\ MarksOf(f.text) \subseteq MarksOf(x.text) \cup Ids(marks)
        /\ MarksOf(x.text) \cup Ids(marks) \cup x.out \subseteq MarksOf(f.text) \cup f.out
    BY <2>8 DEF Emitted, OnlyText
  <2>10. Clocks(f)
    BY <2>2, <2>3, <2>9 DEF Ticks, Clocks
  <2>11. \A m \in Ids(w.marks) : m < w.next
    BY <2>5 DEF CopyOK, Ids, Holds
  <2>12. \A m \in MarksOf(f.text) : m < w.next
    BY <2>3, <2>5, <2>6, <2>9, <2>11 DEF CopyOK
  <2>13. f.marks = << >> /\ f.next = w.next /\ f.open = w.open
    BY <2>3, <2>9
  <2>14. CopyOK(f.marks, f.text, f.next, f.open)
    <3>1. Len(<< >>) = 0
      BY EmptySeq
    <3>2. Asc(f.marks) /\ Under(f.text, f.marks) /\ Len(f.marks) = 0
      BY <2>13, <3>1 DEF Asc, Under
    <3>3. w.next # 0
      BY <2>5 DEF CopyOK
    <3> QED
      BY <2>9, <2>12, <2>13, <3>2, <3>3 DEF CopyOK
  <2>15. MarksKept(w) \subseteq MarksKept(f)
    <3>1. \A m \in Ids(w.marks) : m \in Ids(marks) \/ m \in out
      <4> SUFFICES ASSUME NEW m \in Ids(w.marks), m \notin out PROVE m \in Ids(marks)
        OBVIOUS
      <4>1. m \in Nat /\ m \in Threshold!ToSet(w.marks)
        <5>1. PICK k \in 1 .. Len(w.marks) : w.marks[k] = m
          BY DEF Ids, Holds
        <5>2. DOMAIN w.marks = 1 .. Len(w.marks)
          BY <2>5
        <5> QED
          BY <5>1, <5>2 DEF Ids, Threshold!ToSet
      <4>2. m \in Threshold!ToSet(marks)
        BY <4>1 DEF out
      <4>3. DOMAIN marks = 1 .. Len(marks)
        BY <2>6
      <4> QED
        BY <4>1, <4>2, <4>3 DEF Threshold!ToSet, Ids, Holds
    <3>2. w.out \subseteq out
      BY DEF out
    <3> QED
      BY <2>3, <2>9, <3>1, <3>2 DEF MarksKept
  <2>16. Keeps(w, f)
    BY <2>5, <2>13, <2>15 DEF Keeps
  <2>17. Short(f)
    <3>1. Len(<< >>) = 0 /\ MaxOpen \in Nat
      BY EmptySeq, ThresholdConstants
    <3> QED
      BY <2>13, <3>1 DEF Short
  <2> QED
    BY <2>9, <2>10, <2>13, <2>14, <2>16, <2>17 DEF Goes, Good, f
<1> QED
  BY <1>1, <1>2

\* Marks in two halves.
Halves(marks, l, r) ==
    /\ l \in Seq(Nat) /\ r \in Seq(Nat) /\ Len(r) <= Len(marks)
    /\ Asc(marks) => Asc(l) /\ Asc(r)
    /\ Asc(marks) /\ (\A k \in 1 .. Len(marks) : marks[k] # 0) =>
          \A k \in 1 .. Len(l), n \in 1 .. Len(r) : l[k] < r[n]
    /\ \A k \in 1 .. Len(l) : \E j \in 1 .. Len(marks) : l[k] = marks[j]
    /\ \A k \in 1 .. Len(r) : \E j \in 1 .. Len(marks) : r[k] = marks[j]
    /\ Ids(marks) \subseteq Ids(l) \cup Ids(r)

LEMMA HalvesAre ==
  ASSUME NEW marks \in Seq(Nat), NEW n \in 1 .. Len(marks)
  PROVE  Halves(marks, SubSeq(marks, 1, n), SubSeq(marks, n + 1, Len(marks)))
<1> DEFINE h == Len(marks)
           l == SubSeq(marks, 1, n)
           r == SubSeq(marks, n + 1, h)
           a == n - 1 + 1
           b == h - (n + 1) + 1
<1>1. h \in Nat /\ n \in 1 .. h /\ \A k \in 1 .. h : marks[k] \in Nat
  OBVIOUS
<1>2. l \in Seq(Nat) /\ Len(l) = a /\ \A i \in 1 .. a : l[i] = marks[1 + i - 1]
  <2>1. 1 \in 1 .. h + 1 /\ n \in 1 - 1 .. h
    <3> HIDE DEF h
    <3> QED
      BY <1>1
  <2> QED
    BY <2>1, SubSeqIs
<1>3. r \in Seq(Nat) /\ Len(r) = b /\ \A i \in 1 .. b : r[i] = marks[(n + 1) + i - 1]
  <2> DEFINE m == n + 1
  <2>1. m \in 1 .. h + 1 /\ h \in m - 1 .. h
    <3> HIDE DEF h
    <3> QED
      BY <1>1
  <2> HIDE DEF m
  <2>2. /\ SubSeq(marks, m, h) \in Seq(Nat) /\ Len(SubSeq(marks, m, h)) = h - m + 1
        /\ \A i \in 1 .. h - m + 1 : SubSeq(marks, m, h)[i] = marks[m + i - 1]
    BY <2>1, SubSeqIs
  <2> QED
    BY <2>2 DEF m
<1> HIDE DEF h, l, r
<1>4. a = n /\ b = h - n /\ n <= h
  BY <1>1
<1> HIDE DEF a, b
<1>5. Len(l) = n /\ \A i \in 1 .. n : i \in 1 .. h /\ l[i] = marks[i]
  <2>1. \A i \in 1 .. n : 1 + i - 1 = i /\ i \in 1 .. h
    BY <1>1
  <2> QED
    BY <1>2, <1>4, <2>1
<1> DEFINE At(i) == n + i
<1>6. Len(r) = h - n /\ \A i \in 1 .. h - n : At(i) \in 1 .. h /\ r[i] = marks[At(i)]
  <2>1. \A i \in 1 .. h - n : (n + 1) + i - 1 = At(i) /\ At(i) \in 1 .. h
    BY <1>1
  <2> HIDE DEF At
  <2> QED
    BY <1>3, <1>4, <2>1
<1>7. /\ \A i, j \in 1 .. h - n : i < j => At(i) < At(j)
      /\ \A i \in 1 .. n, j \in 1 .. h - n : i < At(j)
      /\ \A k \in 1 .. h : k \in 1 .. n \/ (k - n \in 1 .. h - n /\ At(k - n) = k)
  BY <1>1
<1> HIDE DEF At
<1>8. ASSUME Asc(marks) PROVE Asc(l) /\ Asc(r)
  <2>1. \A k, j \in 1 .. h : k < j /\ marks[k] # 0 /\ marks[j] # 0 => marks[k] < marks[j]
    BY <1>8 DEF Asc, h
  <2>2. Asc(l)
    BY <1>5, <2>1 DEF Asc
  <2>3. Asc(r)
    BY <1>6, <1>7, <2>1 DEF Asc
  <2> QED
    BY <2>2, <2>3
<1>9. ASSUME Asc(marks), \A k \in 1 .. h : marks[k] # 0
      PROVE  \A k \in 1 .. Len(l), j \in 1 .. Len(r) : l[k] < r[j]
  <2>1. \A k, j \in 1 .. h : k < j /\ marks[k] # 0 /\ marks[j] # 0 => marks[k] < marks[j]
    BY <1>9 DEF Asc, h
  <2> QED
    BY <1>5, <1>6, <1>7, <1>9, <2>1
<1>10. Ids(marks) \subseteq Ids(l) \cup Ids(r)
  <2> SUFFICES ASSUME NEW m \in Nat, NEW k \in 1 .. h, marks[k] = m
               PROVE  m \in Ids(l) \/ m \in Ids(r)
    BY DEF Ids, Holds, h
  <2>1. CASE k \in 1 .. n
    BY <1>5, <2>1 DEF Ids, Holds
  <2>2. CASE k - n \in 1 .. h - n /\ At(k - n) = k
    BY <1>6, <2>2 DEF Ids, Holds
  <2> QED
    BY <1>7, <2>1, <2>2
<1>11. Len(r) <= h
  BY <1>1, <1>6
<1>12. \A k \in 1 .. Len(l) : \E j \in 1 .. h : l[k] = marks[j]
  BY <1>5
<1>13. \A k \in 1 .. Len(r) : \E j \in 1 .. h : r[k] = marks[j]
  BY <1>6
<1> QED
  BY <1>2, <1>3, <1>8, <1>9, <1>10, <1>11, <1>12, <1>13 DEF Halves, h, l, r

\* The letters that are closed are given up, the open one stays.
LEMMA ReleaseGoes ==
  ASSUME NEW w, Good(w), NEW c
  PROVE  Goes(w, Threshold!releaseClosedLetters(w, c))
<1> DEFINE f == Threshold!releaseClosedLetters(w, c)
           split == Threshold!splitGapSeconds(w, w.gaps)
           closed == {i \in 1 .. Len(w.marks) : i <= Len(w.gaps) /\ 10 * w.gaps[i] >= split}
           stays == w.marks = << >> \/ Len(w.gaps) < Len(w.marks) \/ closed = {}
<1>1. CASE stays
  <2>1. f = w
    BY <1>1 DEF Threshold!releaseClosedLetters
  <2> QED
    BY <2>1, GoesNowhere
<1>2. CASE ~stays
  <2> DEFINE n == Threshold!Max(closed)
             h == Len(w.marks)
             l == SubSeq(w.marks, 1, n)
             r == SubSeq(w.marks, n + 1, h)
             x == [w EXCEPT !.marks = SubSeq(@, n + 1, Len(@)), !.gaps = SubSeq(@, n + 1, Len(@))]
             e == Threshold!EmitGroups(x, l, SubSeq(w.gaps, 1, n), split, c)
             flag == e.emitted \/ e.marks = << >>
  <2>1. f = [e EXCEPT !.emitted = flag]
    BY <1>2 DEF Threshold!releaseClosedLetters
  <2>2. CopyOK(w.marks, w.text, w.next, w.open) /\ w.marks \in Seq(Nat) /\ w.next \in Nat
        /\ w.text \in Seq(Seq(Nat)) /\ w.open \in BOOLEAN /\ IsWin(w) /\ Clocks(w)
    BY NextIsNat DEF Good
  <2>3. n \in 1 .. h
    <3>1. closed \in SUBSET (0 .. h) /\ closed # {} /\ closed \subseteq 1 .. h /\ h \in Nat
      <4>1. \A i \in 1 .. h : i \in 0 .. h
        OBVIOUS
      <4>2. h \in Nat
        BY <2>2
      <4> QED
        BY <1>2, <4>1, <4>2
    <3> HIDE DEF closed, h
    <3>2. Threshold!Max(closed) \in closed
      BY <3>1, GreatestOf
    <3> QED
      BY <3>1, <3>2
  <2> HIDE DEF closed, n
  <2>4. Halves(w.marks, l, r)
    <3> HIDE DEF l, r
    <3>1. n \in 1 .. Len(w.marks)
      BY <2>3
    <3>2. Halves(w.marks, SubSeq(w.marks, 1, n), SubSeq(w.marks, n + 1, Len(w.marks)))
      BY <2>2, <3>1, HalvesAre
    <3> QED
      BY <3>2 DEF l, r
  <2>5. x = [w EXCEPT !.marks = r, !.gaps = SubSeq(@, n + 1, Len(@))]
    OBVIOUS
  <2> HIDE DEF l, r, x
  <2> DEFINE LM == Seq(Nat)
             LT == Seq(Seq(Nat))
  <2>6. /\ WinFields(LM, LT, x) /\ x.run = w.run /\ x.valley = w.valley /\ x.pen = w.pen
        /\ x.marks = r /\ x.text = w.text /\ x.next = w.next /\ x.open = w.open /\ x.out = w.out
    <3>1. WinFields(LM, LT, w)
      BY <2>2 DEF IsWin
    <3>2. r \in LM
      BY <2>4 DEF Halves
    <3> HIDE DEF LM, LT
    <3> QED
      BY <2>5, <3>1, <3>2 DEF WinFields
  <2>7. IsWin(x)
    BY <2>6 DEF IsWin
  <2>8. /\ Asc(w.marks) /\ Rising(w.text) /\ Under(w.text, w.marks) /\ w.next # 0
        /\ \A k \in 1 .. Len(w.marks) : w.marks[k] # 0 /\ w.marks[k] < w.next
        /\ \A m \in MarksOf(w.text) : m < w.next
        /\ w.open
    <3>1. w.marks # << >>
      BY <1>2
    <3> QED
      BY <2>2, <3>1 DEF CopyOK
  <2>9. /\ l \in Seq(Nat) /\ r \in Seq(Nat) /\ Len(r) <= Len(w.marks) /\ Asc(l) /\ Asc(r)
        /\ \A k \in 1 .. Len(l), j \in 1 .. Len(r) : l[k] < r[j]
        /\ \A k \in 1 .. Len(l) : \E j \in 1 .. Len(w.marks) : l[k] = w.marks[j]
        /\ \A k \in 1 .. Len(r) : \E j \in 1 .. Len(w.marks) : r[k] = w.marks[j]
        /\ Ids(w.marks) \subseteq Ids(l) \cup Ids(r)
    BY <2>4, <2>8 DEF Halves
  <2>24. ASSUME NEW k \in 1 .. Len(l) PROVE l[k] # 0 /\ l[k] < w.next
    <3>1. PICK j \in 1 .. Len(w.marks) : l[k] = w.marks[j]
      BY <2>9
    <3> QED
      BY <2>8, <3>1
  <2>25. ASSUME NEW k \in 1 .. Len(r) PROVE r[k] # 0 /\ r[k] < w.next
    <3>1. PICK j \in 1 .. Len(w.marks) : r[k] = w.marks[j]
      BY <2>9
    <3> QED
      BY <2>8, <3>1
  <2>10. Joinable(x, l)
    <3>1. Under(x.text, l)
      BY <2>6, <2>8, <2>9 DEF Under
    <3>2. Rising(x.text)
      BY <2>6, <2>8
    <3> QED
      BY <2>7, <2>9, <2>24, <3>1, <3>2 DEF Joinable
  <2>11. Emitted(x, l, e)
    BY <2>10, EmitsAre
  <2> HIDE DEF e
  <2>12. /\ IsWin(e) /\ e.run = x.run /\ e.valley = x.valley /\ e.pen = x.pen /\ e.marks = x.marks
         /\ e.open = x.open /\ e.next = x.next
         /\ Rising(e.text) /\ NoTwoBlanks(e.text) /\ Len(e.text) <= MaxScroll
         /\ MarksOf(e.text) \subseteq MarksOf(x.text) \cup Ids(l)
         /\ MarksOf(x.text) \cup Ids(l) \cup x.out \subseteq MarksOf(e.text) \cup e.out
    BY <2>11 DEF Emitted, OnlyText
  <2>13. flag \in BOOLEAN
    OBVIOUS
  <2> HIDE DEF flag
  <2>14. /\ WinFields(LM, LT, f) /\ f.run = e.run /\ f.valley = e.valley /\ f.pen = e.pen
         /\ f.marks = e.marks /\ f.text = e.text /\ f.next = e.next /\ f.open = e.open /\ f.out = e.out
    <3>1. WinFields(LM, LT, e)
      BY <2>12 DEF IsWin
    <3> HIDE DEF LM, LT, f
    <3> QED
      BY <2>1, <2>13, <3>1 DEF WinFields
  <2> HIDE DEF f
  <2>15. IsWin(f)
    BY <2>14 DEF IsWin
  <2>16. f.marks = r /\ f.text = e.text /\ f.next = w.next /\ f.open = w.open /\ f.out = e.out
    BY <2>6, <2>12, <2>14
  <2>17. Clocks(f)
    BY <2>2, <2>6, <2>12, <2>14 DEF Clocks
  <2>18. \A m \in Ids(l) : m < w.next /\ m # 0 /\ \A j \in 1 .. Len(r) : m < r[j]
    <3> SUFFICES ASSUME NEW m, NEW k \in 1 .. Len(l), l[k] = m
                 PROVE  m < w.next /\ m # 0 /\ \A j \in 1 .. Len(r) : m < r[j]
      BY DEF Ids, Holds
    <3> QED
      BY <2>9, <2>24
  <2>19. \A m \in MarksOf(f.text) : m \in MarksOf(w.text) \/ m \in Ids(l)
    BY <2>6, <2>12, <2>16
  <2>20. CopyOK(f.marks, f.text, f.next, f.open)
    <3>1. \A m \in MarksOf(f.text) : m < w.next
      BY <2>8, <2>18, <2>19
    <3>2. Under(f.text, r)
      <4> SUFFICES ASSUME NEW m \in MarksOf(f.text), NEW k \in 1 .. Len(r), m # 0, r[k] # 0
                   PROVE  m < r[k]
        BY DEF Under
      <4>1. CASE m \in MarksOf(w.text)
        BY <2>8, <2>9, <4>1 DEF Under
      <4>2. CASE m \in Ids(l)
        BY <2>18, <4>2
      <4> QED
        BY <2>19, <4>1, <4>2
    <3> QED
      BY <2>8, <2>9, <2>12, <2>16, <2>25, <3>1, <3>2 DEF CopyOK
  <2>21. MarksKept(w) \subseteq MarksKept(f)
    BY <2>6, <2>9, <2>12, <2>16 DEF MarksKept
  <2>22. Keeps(w, f)
    BY <2>2, <2>16, <2>21 DEF Keeps
  <2>23. Short(w) => Short(f)
    <3>1. Len(r) \in Nat /\ Len(w.marks) \in Nat /\ MaxOpen \in Nat
      BY <2>2, <2>9, ThresholdConstants
    <3> QED
      BY <2>9, <2>16, <3>1 DEF Short
  <2> QED
    BY <2>15, <2>16, <2>17, <2>20, <2>22, <2>23 DEF Goes, Good, f
<1> QED
  BY <1>1, <1>2

LEMMA DahsAre ==
  ASSUME NEW w, Good(w)
  PROVE  Threshold!Dahs(w) \in Nat \ {0}
<1> DEFINE d == 3 * w.unit
           e == w.pen + w.unit
           y == e \div d
           m == Threshold!Min({5, y})
           x == Threshold!Max({2, m})
<1>1. w.unit \in Units /\ w.pen \in Nat
  BY ThresholdCap DEF Good, IsWin, WinFields, Clocks
<1>2. w.unit \in Nat \ {0}
  BY <1>1, ThresholdConstants
<1>3. d \in Nat \ {0} /\ e \in Nat
  BY <1>1, <1>2
<1> HIDE DEF d, e
<1>4. y \in Int
  BY <1>3
<1> HIDE DEF y
<1>5. m \in Int
  BY <1>4, LesserOf
<1> HIDE DEF m
<1>6. x \in Nat \ {0}
  BY <1>5, GreaterOf
<1> HIDE DEF x
<1>7. Threshold!Dahs(w) \in {1, 3, x}
  BY DEF Threshold!Dahs, x, m, y, d, e
<1> QED
  BY <1>6, <1>7

\* The numbers of the next marks.
LEMMA NewIds ==
  ASSUME NEW n \in Nat, NEW next \in Nat, next # 0
  PROVE  LET l == [i \in 1 .. n |-> next + i - 1]
         IN  /\ l \in Seq(Nat) /\ Len(l) = n /\ Asc(l)
             /\ \A k \in 1 .. n : l[k] # 0 /\ next <= l[k] /\ l[k] < next + n
             /\ \A m \in Nat : next <= m /\ m < next + n => Holds(l, m)
<1> DEFINE l == [i \in 1 .. n |-> next + i - 1]
<1>1. \A k \in 1 .. n : next + k - 1 \in Nat
  OBVIOUS
<1>2. l \in Seq(Nat) /\ Len(l) = n
  BY <1>1
<1>3. \A k \in 1 .. n : l[k] = next + k - 1
  OBVIOUS
<1> HIDE DEF l
<1>4. Asc(l)
  BY <1>2, <1>3 DEF Asc
<1>5. \A k \in 1 .. n : l[k] # 0 /\ next <= l[k] /\ l[k] < next + n
  BY <1>3
<1>6. ASSUME NEW m \in Nat, next <= m, m < next + n PROVE Holds(l, m)
  <2>1. m - next + 1 \in 1 .. n
    BY <1>6
  <2>2. next + (m - next + 1) - 1 = m
    OBVIOUS
  <2>3. l[m - next + 1] = m
    BY <1>3, <2>1, <2>2
  <2> QED
    BY <1>2, <2>1, <2>3 DEF Holds
<1> QED
  BY <1>2, <1>4, <1>5, <1>6 DEF l

\* a is v with n more marks.
MarksAdded(v, n, a) ==
    a = [v EXCEPT !.marks = @ \o [i \in 1 .. n |-> v.next + i - 1], !.next = @ + n]

LEMMA AddedGoes ==
  ASSUME NEW v, Good(v), v.open, NEW n \in Nat, NEW a, MarksAdded(v, n, a)
  PROVE  Good(a) /\ Keeps(v, a) /\ a.open = v.open
<1> DEFINE l == [i \in 1 .. n |-> v.next + i - 1]
           j == v.marks \o l
           next == v.next + n
           LM == Seq(Nat)
           LT == Seq(Seq(Nat))
<1>1. CopyOK(v.marks, v.text, v.next, v.open) /\ v.marks \in Seq(Nat) /\ v.next \in Nat
      /\ v.text \in Seq(Seq(Nat)) /\ IsWin(v) /\ Clocks(v)
  BY NextIsNat DEF Good
<1>2. /\ v.next # 0 /\ Asc(v.marks) /\ Rising(v.text) /\ Under(v.text, v.marks)
      /\ \A k \in 1 .. Len(v.marks) : v.marks[k] # 0 /\ v.marks[k] < v.next
      /\ \A m \in MarksOf(v.text) : m < v.next
      /\ NoTwoBlanks(v.text) /\ Len(v.text) <= MaxScroll
  BY <1>1 DEF CopyOK
<1>3. /\ l \in Seq(Nat) /\ Len(l) = n /\ Asc(l)
      /\ \A k \in 1 .. n : l[k] # 0 /\ v.next <= l[k] /\ l[k] < v.next + n
      /\ \A m \in Nat : v.next <= m /\ m < v.next + n => Holds(l, m)
  BY <1>1, <1>2, NewIds
<1> HIDE DEF l
<1>4. j \in Seq(Nat) /\ Parts(j, v.marks, l)
  BY <1>1, <1>3, PartsOf
<1>5. next \in Nat /\ v.next <= next /\ next # 0
  BY <1>1, <1>2
<1>6. /\ WinFields(LM, LT, a) /\ a.run = v.run /\ a.valley = v.valley /\ a.pen = v.pen
      /\ a.marks = j /\ a.text = v.text /\ a.next = next /\ a.open = v.open /\ a.out = v.out
  <2>1. WinFields(LM, LT, v) /\ j \in LM
    BY <1>1, <1>4 DEF IsWin
  <2>2. a = [v EXCEPT !.marks = j, !.next = next]
    BY DEF MarksAdded, l
  <2> HIDE DEF LM, LT, j, next
  <2> QED
    BY <1>5, <2>1, <2>2 DEF WinFields
<1>7. IsWin(a) /\ Clocks(a)
  BY <1>1, <1>6 DEF IsWin, Clocks
<1>8. Before(v.marks, l)
  <2> SUFFICES ASSUME NEW k \in 1 .. Len(v.marks), NEW i \in 1 .. Len(l) PROVE v.marks[k] < l[i]
    BY DEF Before
  <2>1. v.marks[k] \in Nat /\ l[i] \in Nat
    BY <1>1, <1>3, ElementOfSeq
  <2>2. v.marks[k] < v.next /\ v.next <= l[i]
    BY <1>2, <1>3
  <2> QED
    BY <1>1, <2>1, <2>2
<1>9. Asc(j)
  BY <1>1, <1>2, <1>3, <1>8, AscJoined
<1>10. \A m : Holds(j, m) <=> Holds(v.marks, m) \/ Holds(l, m)
  BY <1>1, <1>3, HoldsJoined
<1>11. ASSUME NEW m \in Nat, Holds(j, m) PROVE m # 0 /\ m < next
  <2>1. CASE Holds(v.marks, m)
    BY <1>1, <1>2, <1>5, <2>1 DEF Holds
  <2>2. CASE Holds(l, m)
    BY <1>3, <2>2 DEF Holds
  <2> QED
    BY <1>10, <1>11, <2>1, <2>2
<1>12. \A k \in 1 .. Len(j) : j[k] \in Nat /\ Holds(j, j[k])
  BY <1>4, ElementOfSeq DEF Holds
<1> HIDE DEF j
<1>13. \A k \in 1 .. Len(j) : j[k] # 0 /\ j[k] < next
  BY <1>11, <1>12
<1>14. Under(v.text, j)
  <2> SUFFICES ASSUME NEW m \in MarksOf(v.text), NEW k \in 1 .. Len(j), m # 0, j[k] # 0
               PROVE  m < j[k]
    BY DEF Under
  <2>1. m \in Nat
    BY DEF MarksOf
  <2>2. CASE Holds(v.marks, j[k])
    BY <1>2, <2>2 DEF Holds, Under
  <2>3. CASE Holds(l, j[k])
    <3>1. v.next <= j[k]
      BY <1>3, <2>3 DEF Holds
    <3>2. m < v.next
      BY <1>2
    <3> QED
      BY <1>1, <1>12, <2>1, <3>1, <3>2
  <2> QED
    BY <1>10, <1>12, <2>2, <2>3
<1>15. \A m \in MarksOf(v.text) : m < next
  <2>1. \A m \in MarksOf(v.text) : m \in Nat
    BY DEF MarksOf
  <2> HIDE DEF next
  <2> QED
    BY <1>1, <1>2, <1>5, <2>1
<1>16. CopyOK(a.marks, a.text, a.next, a.open)
  <2> HIDE DEF next
  <2> QED
    BY <1>2, <1>5, <1>6, <1>9, <1>13, <1>14, <1>15 DEF CopyOK
<1>17. Ids(j) = Ids(v.marks) \cup Ids(l)
  BY <1>10 DEF Ids
<1>18. MarksKept(v) \subseteq MarksKept(a) /\ Ids(l) \subseteq MarksKept(a)
  BY <1>6, <1>17 DEF MarksKept
<1>19. \A m \in Nat : v.next <= m /\ m < v.next + n => m \in Ids(l)
  BY <1>3 DEF Ids
<1>20. Keeps(v, a)
  BY <1>5, <1>6, <1>18, <1>19 DEF Keeps
<1> QED
  BY <1>6, <1>7, <1>16, <1>20 DEF Good

\* The mark that was held goes to the open letter.
LEMMA CommitGoes ==
  ASSUME NEW w, Good(w), NEW c, Choice(c)
  PROVE  Goes(w, Threshold!commitPendingMarkToLetter(w, c))
<1> DEFINE LM == Seq(Nat)
           LT == Seq(Seq(Nat))
           f == Threshold!commitPendingMarkToLetter(w, c)
           u == [w EXCEPT !.have = FALSE, !.pen = 0]
           n == Threshold!Dahs(w)
           v == Threshold!recomputeUnitFromMarks(u, c.est[1])
           a == [v EXCEPT !.marks = @ \o [i \in 1 .. n |-> w.next + i - 1], !.next = @ + n]
<1>1. f = IF ~w.have THEN w ELSE IF w.pen = 0 THEN u ELSE IF ~w.open THEN v
          ELSE IF Len(a.marks) > MaxOpen THEN Threshold!flushPendingLetter(a, c) ELSE a
  BY DEF Threshold!commitPendingMarkToLetter
<1> DEFINE g == Threshold!flushPendingLetter(a, c)
<1> SUFFICES Goes(w, f)
  OBVIOUS
<1>2. WinFields(LM, LT, w) /\ Clocks(w)
  BY DEF Good, IsWin
<1> HIDE DEF LM, LT, f
<1>11. \/ f = w \/ f = u \/ (f = v /\ ~w.open)
       \/ w.open /\ Len(a.marks) > MaxOpen /\ f = g
       \/ w.open /\ ~(Len(a.marks) > MaxOpen) /\ f = a
  <2> HIDE DEF u, n, v, a, g
  <2> QED
    BY <1>1 DEF g
<1> HIDE DEF n, v, a, g
<1>3. Ticks(w, u)
  <2>1. /\ WinFields(LM, LT, u) /\ u.run = w.run /\ u.valley = w.valley /\ u.pen = 0
        /\ u.marks = w.marks /\ u.text = w.text /\ u.next = w.next /\ u.open = w.open /\ u.out = w.out
    <3>1. WinFields(LM, LT, w)
      BY <1>2
    <3>2. WinFields(LM, LT, u)
      <4> DEFINE x == [w EXCEPT !.have = FALSE]
      <4>1. WinFields(LM, LT, x)
        BY <3>1 DEF WinFields
      <4>2. u = [x EXCEPT !.pen = 0]
        BY <3>1 DEF WinFields
      <4> DEFINE nil == 0
      <4>3. u = [x EXCEPT !.pen = nil] /\ nil \in Int
        BY <4>2
      <4> HIDE DEF x, u, nil
      <4> QED
        BY <4>1, <4>3 DEF WinFields
    <3>3. u.run = w.run /\ u.valley = w.valley
      BY <3>1 DEF WinFields
    <3>4. u.pen = 0
      BY <3>1 DEF WinFields
    <3>5. u.marks = w.marks /\ u.text = w.text /\ u.next = w.next /\ u.open = w.open /\ u.out = w.out
      BY <3>1 DEF WinFields
    <3> QED
      BY <3>2, <3>3, <3>4, <3>5
  <2> HIDE DEF u
  <2>2. Clocks(u)
    BY <1>2, <2>1, ThresholdCap DEF Clocks
  <2> QED
    BY <2>1, <2>2 DEF Ticks, IsWin, LM, LT
<1> HIDE DEF u
<1>4. Goes(w, u) /\ Good(u)
  BY <1>3, TicksGo DEF Goes
<1> USE DEF v
<1>5. Goes(u, v) /\ Good(v) /\ v.next = w.next /\ v.open = w.open
  <2>1. c.est[1] \in {0} \cup Units
    BY DEF Choice
  <2>2. Ticks(u, v)
    BY <1>4, <2>1, RecomputeTicks
  <2> HIDE DEF v
  <2> QED
    BY <1>3, <1>4, <2>2, TicksGo DEF Goes, Ticks
<1> HIDE DEF v
<1>6. Goes(w, v)
  BY <1>4, <1>5, GoesOnTo
<1>7. n \in Nat
  BY DahsAre DEF n
<1>8. MarksAdded(v, n, a)
  BY <1>5 DEF MarksAdded, a
<1>9. CASE w.open
  <2>1. Good(a) /\ Keeps(v, a) /\ a.open = v.open
    BY <1>5, <1>7, <1>8, <1>9, AddedGoes
  <2>2. CASE Len(a.marks) > MaxOpen
    <3>1. Goes(a, g) /\ g.marks = << >>
      BY <2>1, FlushGoes DEF g
    <3>2. Good(g) /\ Keeps(a, g) /\ g.open = a.open /\ Good(w) /\ Good(v) /\ Good(a) /\ Keeps(w, v)
      BY <1>5, <1>6, <2>1, <3>1 DEF Goes
    <3>3. IsWin(w) /\ IsWin(v) /\ IsWin(a) /\ IsWin(g)
      BY <3>2 DEF Good
    <3>4. Keeps(v, g)
      BY <2>1, <3>2, <3>3, KeepsOn
    <3>5. Keeps(w, g)
      BY <3>2, <3>3, <3>4, KeepsOn
    <3>6. Short(g)
      <4>1. Len(<< >>) = 0 /\ MaxOpen \in Nat
        BY EmptySeq, ThresholdConstants
      <4> QED
        BY <3>1, <4>1 DEF Short
    <3>7. Goes(w, g)
      BY <1>5, <2>1, <3>2, <3>5, <3>6 DEF Goes
    <3>8. Goes(w, w)
      BY GoesNowhere
    <3> QED
      BY <1>4, <1>9, <1>11, <2>2, <3>7, <3>8
  <2>3. CASE ~(Len(a.marks) > MaxOpen)
    <3>1. IsWin(w) /\ IsWin(v) /\ IsWin(a) /\ Keeps(w, v)
      BY <1>5, <1>6, <2>1 DEF Good, Goes
    <3>2. Keeps(w, a)
      BY <2>1, <3>1, KeepsOn
    <3>3. Short(a)
      <4>1. Len(a.marks) \in Nat /\ MaxOpen \in Nat
        BY <3>1, NextIsNat, ThresholdConstants
      <4> QED
        BY <2>3, <4>1 DEF Short
    <3>4. Goes(w, a)
      BY <1>5, <2>1, <3>2, <3>3 DEF Goes
    <3>5. Goes(w, w)
      BY GoesNowhere
    <3> QED
      BY <1>4, <1>9, <1>11, <2>3, <3>4, <3>5
  <2> QED
    BY <2>2, <2>3
<1>10. CASE ~w.open
  <2>1. Goes(w, w)
    BY GoesNowhere
  <2> QED
    BY <1>4, <1>6, <1>10, <1>11, <2>1
<1> QED
  BY <1>9, <1>10

\* Clocks and flags that are set.
SetsValley(w, v, valley) == v = [w EXCEPT !.valley = valley]
SetsValleyRun(w, v, valley, run) == v = [w EXCEPT !.valley = valley, !.run = run]
SetsHighRun(w, v, high, run) == v = [w EXCEPT !.high = high, !.run = run]
SetsHighRunEmitted(w, v, high, run, emitted) == v = [w EXCEPT !.high = high, !.run = run, !.emitted = emitted]
SetsSplit(w, v, high, run, valley, emitted) ==
    v = [w EXCEPT !.high = high, !.run = run, !.valley = valley, !.emitted = emitted]
SetsEmitted(w, v, emitted) == v = [w EXCEPT !.emitted = emitted]
SetsFirst(w, v, has, high, run, valley) ==
    v = [w EXCEPT !.has = has, !.high = high, !.run = run, !.valley = valley]
SetsRunValley(w, v, run, valley) == v = [w EXCEPT !.run = run, !.valley = valley]

LEMMA ValleySet ==
  ASSUME NEW w, Good(w), NEW v, NEW valley,
         valley \in -1 .. Threshold!Cap,
         SetsValley(w, v, valley)
  PROVE  Ticks(w, v) /\ Goes(w, v)
<1> DEFINE LM == Seq(Nat)
           LT == Seq(Seq(Nat))
           K == 0 .. Threshold!Cap
           V == -1 .. Threshold!Cap
<1>1. WinFields(LM, LT, w) /\ w.run \in K /\ w.valley \in V /\ w.pen \in K
  BY DEF Good, IsWin, Clocks
<1>2. valley \in Int /\ valley \in V
  BY ThresholdCap
<1> HIDE DEF LM, LT, K, V
<1>3. WinFields(LM, LT, v)
  BY <1>1, <1>2 DEF WinFields, SetsValley
<1>4. v.run \in K /\ v.valley \in V /\ v.pen \in K
  BY <1>1, <1>2 DEF WinFields, SetsValley
<1>5. /\ v.marks = w.marks /\ v.text = w.text
      /\ v.next = w.next /\ v.out = w.out /\ v.open = w.open
  BY <1>1 DEF WinFields, SetsValley
<1>6. Ticks(w, v)
  BY <1>3, <1>4, <1>5 DEF Ticks, IsWin, Clocks, LM, LT, K, V
<1> QED
  BY <1>6, TicksGo

LEMMA ValleyRunSet ==
  ASSUME NEW w, Good(w), NEW v, NEW valley, NEW run,
         valley \in -1 .. Threshold!Cap /\ run \in 0 .. Threshold!Cap,
         SetsValleyRun(w, v, valley, run)
  PROVE  Ticks(w, v) /\ Goes(w, v)
<1> DEFINE LM == Seq(Nat)
           LT == Seq(Seq(Nat))
           K == 0 .. Threshold!Cap
           V == -1 .. Threshold!Cap
<1>1. WinFields(LM, LT, w) /\ w.run \in K /\ w.valley \in V /\ w.pen \in K
  BY DEF Good, IsWin, Clocks
<1>2. valley \in Int /\ valley \in V /\ run \in Int /\ run \in K
  BY ThresholdCap
<1> HIDE DEF LM, LT, K, V
<1>3. WinFields(LM, LT, v)
  BY <1>1, <1>2 DEF WinFields, SetsValleyRun
<1>4. v.run \in K /\ v.valley \in V /\ v.pen \in K
  BY <1>1, <1>2 DEF WinFields, SetsValleyRun
<1>5. /\ v.marks = w.marks /\ v.text = w.text
      /\ v.next = w.next /\ v.out = w.out /\ v.open = w.open
  BY <1>1 DEF WinFields, SetsValleyRun
<1>6. Ticks(w, v)
  BY <1>3, <1>4, <1>5 DEF Ticks, IsWin, Clocks, LM, LT, K, V
<1> QED
  BY <1>6, TicksGo

LEMMA HighRunSet ==
  ASSUME NEW w, Good(w), NEW v, NEW high, NEW run,
         high \in BOOLEAN /\ run \in 0 .. Threshold!Cap,
         SetsHighRun(w, v, high, run)
  PROVE  Ticks(w, v) /\ Goes(w, v)
<1> DEFINE LM == Seq(Nat)
           LT == Seq(Seq(Nat))
           K == 0 .. Threshold!Cap
           V == -1 .. Threshold!Cap
<1>1. WinFields(LM, LT, w) /\ w.run \in K /\ w.valley \in V /\ w.pen \in K
  BY DEF Good, IsWin, Clocks
<1>2. high \in BOOLEAN /\ run \in Int /\ run \in K
  BY ThresholdCap
<1> HIDE DEF LM, LT, K, V
<1>3. WinFields(LM, LT, v)
  BY <1>1, <1>2 DEF WinFields, SetsHighRun
<1>4. v.run \in K /\ v.valley \in V /\ v.pen \in K
  BY <1>1, <1>2 DEF WinFields, SetsHighRun
<1>5. /\ v.marks = w.marks /\ v.text = w.text
      /\ v.next = w.next /\ v.out = w.out /\ v.open = w.open
  BY <1>1 DEF WinFields, SetsHighRun
<1>6. Ticks(w, v)
  BY <1>3, <1>4, <1>5 DEF Ticks, IsWin, Clocks, LM, LT, K, V
<1> QED
  BY <1>6, TicksGo

LEMMA HighRunEmittedSet ==
  ASSUME NEW w, Good(w), NEW v, NEW high, NEW run, NEW emitted,
         high \in BOOLEAN /\ run \in 0 .. Threshold!Cap /\ emitted \in BOOLEAN,
         SetsHighRunEmitted(w, v, high, run, emitted)
  PROVE  Ticks(w, v) /\ Goes(w, v)
<1> DEFINE LM == Seq(Nat)
           LT == Seq(Seq(Nat))
           K == 0 .. Threshold!Cap
           V == -1 .. Threshold!Cap
<1>1. WinFields(LM, LT, w) /\ w.run \in K /\ w.valley \in V /\ w.pen \in K
  BY DEF Good, IsWin, Clocks
<1>2. high \in BOOLEAN /\ run \in Int /\ run \in K /\ emitted \in BOOLEAN
  BY ThresholdCap
<1> HIDE DEF LM, LT, K, V
<1>3. WinFields(LM, LT, v)
  BY <1>1, <1>2 DEF WinFields, SetsHighRunEmitted
<1>4. v.run \in K /\ v.valley \in V /\ v.pen \in K
  BY <1>1, <1>2 DEF WinFields, SetsHighRunEmitted
<1>5. /\ v.marks = w.marks /\ v.text = w.text
      /\ v.next = w.next /\ v.out = w.out /\ v.open = w.open
  BY <1>1 DEF WinFields, SetsHighRunEmitted
<1>6. Ticks(w, v)
  BY <1>3, <1>4, <1>5 DEF Ticks, IsWin, Clocks, LM, LT, K, V
<1> QED
  BY <1>6, TicksGo

LEMMA SplitSet ==
  ASSUME NEW w, Good(w), NEW v, NEW high, NEW run, NEW valley, NEW emitted,
         high \in BOOLEAN /\ run \in 0 .. Threshold!Cap /\ valley \in -1 .. Threshold!Cap /\ emitted \in BOOLEAN,
         SetsSplit(w, v, high, run, valley, emitted)
  PROVE  Ticks(w, v) /\ Goes(w, v)
<1> DEFINE LM == Seq(Nat)
           LT == Seq(Seq(Nat))
           K == 0 .. Threshold!Cap
           V == -1 .. Threshold!Cap
<1>1. WinFields(LM, LT, w) /\ w.run \in K /\ w.valley \in V /\ w.pen \in K
  BY DEF Good, IsWin, Clocks
<1>2. high \in BOOLEAN /\ run \in Int /\ run \in K /\ valley \in Int /\ valley \in V /\ emitted \in BOOLEAN
  BY ThresholdCap
<1> HIDE DEF LM, LT, K, V
<1>3. WinFields(LM, LT, v)
  BY <1>1, <1>2 DEF WinFields, SetsSplit
<1>4. v.run \in K /\ v.valley \in V /\ v.pen \in K
  BY <1>1, <1>2 DEF WinFields, SetsSplit
<1>5. /\ v.marks = w.marks /\ v.text = w.text
      /\ v.next = w.next /\ v.out = w.out /\ v.open = w.open
  BY <1>1 DEF WinFields, SetsSplit
<1>6. Ticks(w, v)
  BY <1>3, <1>4, <1>5 DEF Ticks, IsWin, Clocks, LM, LT, K, V
<1> QED
  BY <1>6, TicksGo

LEMMA EmittedSet ==
  ASSUME NEW w, Good(w), NEW v, NEW emitted,
         emitted \in BOOLEAN,
         SetsEmitted(w, v, emitted)
  PROVE  Ticks(w, v) /\ Goes(w, v)
<1> DEFINE LM == Seq(Nat)
           LT == Seq(Seq(Nat))
           K == 0 .. Threshold!Cap
           V == -1 .. Threshold!Cap
<1>1. WinFields(LM, LT, w) /\ w.run \in K /\ w.valley \in V /\ w.pen \in K
  BY DEF Good, IsWin, Clocks
<1>2. emitted \in BOOLEAN
  BY ThresholdCap
<1> HIDE DEF LM, LT, K, V
<1>3. WinFields(LM, LT, v)
  BY <1>1, <1>2 DEF WinFields, SetsEmitted
<1>4. v.run \in K /\ v.valley \in V /\ v.pen \in K
  BY <1>1, <1>2 DEF WinFields, SetsEmitted
<1>5. /\ v.marks = w.marks /\ v.text = w.text
      /\ v.next = w.next /\ v.out = w.out /\ v.open = w.open
  BY <1>1 DEF WinFields, SetsEmitted
<1>6. Ticks(w, v)
  BY <1>3, <1>4, <1>5 DEF Ticks, IsWin, Clocks, LM, LT, K, V
<1> QED
  BY <1>6, TicksGo

LEMMA FirstSet ==
  ASSUME NEW w, Good(w), NEW v, NEW has, NEW high, NEW run, NEW valley,
         has \in BOOLEAN /\ high \in BOOLEAN /\ run \in 0 .. Threshold!Cap /\ valley \in -1 .. Threshold!Cap,
         SetsFirst(w, v, has, high, run, valley)
  PROVE  Ticks(w, v) /\ Goes(w, v)
<1> DEFINE LM == Seq(Nat)
           LT == Seq(Seq(Nat))
           K == 0 .. Threshold!Cap
           V == -1 .. Threshold!Cap
<1>1. WinFields(LM, LT, w) /\ w.run \in K /\ w.valley \in V /\ w.pen \in K
  BY DEF Good, IsWin, Clocks
<1>2. has \in BOOLEAN /\ high \in BOOLEAN /\ run \in Int /\ run \in K /\ valley \in Int /\ valley \in V
  BY ThresholdCap
<1> HIDE DEF LM, LT, K, V
<1>3. WinFields(LM, LT, v)
  BY <1>1, <1>2 DEF WinFields, SetsFirst
<1>4. v.run \in K /\ v.valley \in V /\ v.pen \in K
  BY <1>1, <1>2 DEF WinFields, SetsFirst
<1>5. /\ v.marks = w.marks /\ v.text = w.text
      /\ v.next = w.next /\ v.out = w.out /\ v.open = w.open
  BY <1>1 DEF WinFields, SetsFirst
<1>6. Ticks(w, v)
  BY <1>3, <1>4, <1>5 DEF Ticks, IsWin, Clocks, LM, LT, K, V
<1> QED
  BY <1>6, TicksGo

LEMMA RunValleySet ==
  ASSUME NEW w, Good(w), NEW v, NEW run, NEW valley,
         run \in 0 .. Threshold!Cap /\ valley \in -1 .. Threshold!Cap,
         SetsRunValley(w, v, run, valley)
  PROVE  Ticks(w, v) /\ Goes(w, v)
<1> DEFINE LM == Seq(Nat)
           LT == Seq(Seq(Nat))
           K == 0 .. Threshold!Cap
           V == -1 .. Threshold!Cap
<1>1. WinFields(LM, LT, w) /\ w.run \in K /\ w.valley \in V /\ w.pen \in K
  BY DEF Good, IsWin, Clocks
<1>2. run \in Int /\ run \in K /\ valley \in Int /\ valley \in V
  BY ThresholdCap
<1> HIDE DEF LM, LT, K, V
<1>3. WinFields(LM, LT, v)
  BY <1>1, <1>2 DEF WinFields, SetsRunValley
<1>4. v.run \in K /\ v.valley \in V /\ v.pen \in K
  BY <1>1, <1>2 DEF WinFields, SetsRunValley
<1>5. /\ v.marks = w.marks /\ v.text = w.text
      /\ v.next = w.next /\ v.out = w.out /\ v.open = w.open
  BY <1>1 DEF WinFields, SetsRunValley
<1>6. Ticks(w, v)
  BY <1>3, <1>4, <1>5 DEF Ticks, IsWin, Clocks, LM, LT, K, V
<1> QED
  BY <1>6, TicksGo

LEMMA MarkEndGoes ==
  ASSUME NEW w, Good(w), NEW ticks \in Nat
  PROVE  Goes(w, Threshold!handleMarkEnd(w, ticks))
<1> DEFINE LM == Seq(Nat)
           LT == Seq(Seq(Nat))
           K == 0 .. Threshold!Cap
           s == (IF w.have THEN w.pen ELSE 0) + ticks
           pen == Threshold!Min({s, Threshold!Cap})
           v == Threshold!handleMarkEnd(w, ticks)
<1>1. v = [w EXCEPT !.pen = pen, !.have = TRUE]
  BY DEF Threshold!handleMarkEnd
<1>2. WinFields(LM, LT, w) /\ Clocks(w)
  BY DEF Good, IsWin
<1>3. Threshold!Cap \in Nat
  BY ThresholdCap
<1>4. s \in Nat
  <2>1. w.pen \in Nat
    BY <1>2, <1>3 DEF Clocks
  <2> QED
    BY <2>1
<1> HIDE DEF s
<1>5. pen = IF s <= Threshold!Cap THEN s ELSE Threshold!Cap
  BY <1>3, <1>4, LesserOf
<1> HIDE DEF pen
<1>6. pen \in Int /\ pen \in K
  BY <1>3, <1>4, <1>5
<1> HIDE DEF LM, LT, v, K
<1>7. /\ WinFields(LM, LT, v) /\ v.run = w.run /\ v.valley = w.valley /\ v.pen = pen
      /\ v.marks = w.marks /\ v.text = w.text
      /\ v.next = w.next /\ v.out = w.out /\ v.open = w.open
  BY <1>1, <1>2, <1>6 DEF WinFields
<1>8. Ticks(w, v)
  BY <1>2, <1>6, <1>7 DEF Ticks, IsWin, Clocks, LM, LT, K
<1> QED
  BY <1>8, TicksGo DEF v

\* A space is put behind the text.
LEMMA SpaceGoes ==
  ASSUME NEW w, Good(w)
  PROVE  Goes(w, Threshold!appendSpace(w))
<1> DEFINE b == Blank
           t == w.text \o << b >>
           v == Threshold!appendSpace(w)
<1>1. /\ CopyOK(w.marks, w.text, w.next, w.open) /\ w.text \in Seq(Seq(Nat)) /\ IsWin(w) /\ Clocks(w)
      /\ w.next \in Nat
  BY NextIsNat DEF Good
<1>2. b \in Seq(Nat) /\ Asc(b) /\ (\A m : ~Holds(b, m)) /\ Under(w.text, b)
  BY BlankIs DEF Under, Blank
<1>3. v = Threshold!Grow(w, t, {})
  <2>1. Append(w.text, b) = t
    <3> HIDE DEF b
    <3> QED
      BY <1>1, <1>2, AppendJoins
  <2> QED
    BY <2>1 DEF Threshold!appendSpace, Threshold!Space, Blank
<1> HIDE DEF b, v
<1>4. /\ t \in Seq(Seq(Nat)) /\ (Rising(w.text) => Rising(t))
      /\ \A m \in Nat : m \in MarksOf(t) <=> m \in MarksOf(w.text)
  BY <1>1, <1>2, LetterJoined
<1> HIDE DEF t
<1>5. Grown(w, t, {}, v)
  BY <1>1, <1>3, <1>4, GrowIs
<1>6. /\ Asc(w.marks) /\ Rising(w.text) /\ Under(w.text, w.marks) /\ w.next # 0
      /\ \A k \in 1 .. Len(w.marks) : w.marks[k] # 0 /\ w.marks[k] < w.next
      /\ \A m \in MarksOf(w.text) : m < w.next
      /\ (~w.open => w.marks = << >>)
  BY <1>1 DEF CopyOK
<1>7. /\ IsWin(v) /\ v.run = w.run /\ v.valley = w.valley /\ v.pen = w.pen /\ v.marks = w.marks
      /\ v.open = w.open /\ v.next = w.next
      /\ (Rising(t) => Rising(v.text)) /\ NoTwoBlanks(v.text) /\ Len(v.text) <= MaxScroll
      /\ MarksOf(v.text) \subseteq MarksOf(t) /\ MarksOf(t) \cup w.out \subseteq MarksOf(v.text) \cup v.out
  BY <1>5 DEF Grown, OnlyText
<1>8. MarksOf(t) = MarksOf(w.text)
  BY <1>4 DEF MarksOf
<1>9. CopyOK(v.marks, v.text, v.next, v.open)
  <2>1. Under(v.text, w.marks)
    BY <1>6, <1>7, <1>8 DEF Under
  <2>2. \A m \in MarksOf(v.text) : m < w.next
    BY <1>6, <1>7, <1>8
  <2> QED
    BY <1>4, <1>6, <1>7, <2>1, <2>2 DEF CopyOK
<1>10. Clocks(v)
  BY <1>1, <1>7 DEF Clocks
<1>11. MarksKept(w) \subseteq MarksKept(v)
  BY <1>7, <1>8 DEF MarksKept
<1>12. Keeps(w, v)
  BY <1>1, <1>7, <1>11 DEF Keeps
<1>13. Goes(w, v)
  BY <1>7, <1>9, <1>10, <1>12 DEF Goes, Good, Short
<1> QED
  BY <1>13 DEF v

\* A gap joins the open letter.
LEMMA GapTicks ==
  ASSUME NEW w, Good(w), NEW g, NEW v, v = [w EXCEPT !.gaps = Append(@, g)]
  PROVE  Goes(w, v)
<1> DEFINE LM == Seq(Nat)
           LT == Seq(Seq(Nat))
           gaps == Append(w.gaps, g)
<1>1. WinFields(LM, LT, w) /\ Clocks(w) /\ v = [w EXCEPT !.gaps = gaps]
  BY DEF Good, IsWin
<1> HIDE DEF LM, LT, gaps
<1>2. /\ WinFields(LM, LT, v) /\ v.run = w.run /\ v.valley = w.valley /\ v.pen = w.pen
      /\ v.marks = w.marks /\ v.text = w.text
      /\ v.next = w.next /\ v.out = w.out /\ v.open = w.open
  BY <1>1 DEF WinFields
<1>3. Ticks(w, v)
  BY <1>1, <1>2 DEF Ticks, IsWin, Clocks, LM, LT
<1> QED
  BY <1>3, TicksGo

\* The open letter is dropped while there is none: the squelch is closed.
LEMMA DropTicks ==
  ASSUME NEW w, Good(w), ~w.open, NEW v, v = [w EXCEPT !.marks = << >>, !.gaps = << >>]
  PROVE  Goes(w, v)
<1> DEFINE LM == Seq(Nat)
           LT == Seq(Seq(Nat))
           none == << >>
<1>1. WinFields(LM, LT, w) /\ Clocks(w) /\ v = [w EXCEPT !.marks = none, !.gaps = none] /\ none \in LM
  BY EmptySeq DEF Good, IsWin
<1>2. w.marks = none
  BY DEF Good, CopyOK
<1> HIDE DEF LM, LT, none
<1>3. /\ WinFields(LM, LT, v) /\ v.run = w.run /\ v.valley = w.valley /\ v.pen = w.pen
      /\ v.marks = w.marks /\ v.text = w.text
      /\ v.next = w.next /\ v.out = w.out /\ v.open = w.open
  BY <1>1, <1>2 DEF WinFields
<1>4. Ticks(w, v)
  BY <1>1, <1>3 DEF Ticks, IsWin, Clocks, LM, LT
<1> QED
  BY <1>4, TicksGo

\* The flag for an emitted letter.
LEMMA EmittedGoes ==
  ASSUME NEW w, Good(w)
  PROVE  Goes(w, [w EXCEPT !.emitted = TRUE])
<1> DEFINE v == [w EXCEPT !.emitted = TRUE]
<1>1. SetsEmitted(w, v, TRUE)
  BY DEF SetsEmitted
<1> HIDE DEF v
<1>2. Goes(w, v)
  BY <1>1, EmittedSet
<1> QED
  BY <1>2 DEF v

LEMMA FlushedGoes ==
  ASSUME NEW w, Good(w), NEW c, Choice(c)
  PROVE  Goes(w, [Threshold!flushPendingLetter(w, c) EXCEPT !.emitted = TRUE])
<1> DEFINE f == Threshold!flushPendingLetter(w, c)
<1>1. Goes(w, f)
  BY FlushGoes
<1> HIDE DEF f
<1>2. Goes(f, [f EXCEPT !.emitted = TRUE])
  BY <1>1, EmittedGoes DEF Goes
<1>3. Goes(w, [f EXCEPT !.emitted = TRUE])
  BY <1>1, <1>2, GoesOnTo
<1> QED
  BY <1>3 DEF f

LEMMA SpaceEndGoes ==
  ASSUME NEW w, Good(w), NEW ticks, NEW c, Choice(c)
  PROVE  Goes(w, Threshold!handleSpaceEnd(w, ticks, c))
<1> DEFINE v == Threshold!commitPendingMarkToLetter(w, c)
           held == [v EXCEPT !.gaps = Append(@, ticks)]
           u == Threshold!recomputeUnitFromMarks(v, c.est[2])
           h == Threshold!recomputeUnitFromMarks(held, c.est[2])
           r == Threshold!releaseClosedLetters(h, c)
           f == [Threshold!flushPendingLetter(u, c) EXCEPT !.emitted = TRUE]
           d == [v EXCEPT !.marks = << >>, !.gaps = << >>]
           sv == Threshold!appendSpace(v)
           sf == Threshold!appendSpace(f)
           e == Threshold!handleSpaceEnd(w, ticks, c)
<1>1. /\ e \in {w, d, sv, v, r, sf, f}
      /\ e = d => d = v \/ ~v.open \/ e \in {w, sv, v, r, sf, f}
  <2> HIDE DEF v, held, u, h, r, f, d, sv, sf
  <2> QED
    BY DEF Threshold!handleSpaceEnd, v, held, u, h, r, f, d, sv, sf
<1> SUFFICES Goes(w, e)
  OBVIOUS
<1>2. c.est[2] \in {0} \cup Units
  BY DEF Choice
<1>3. Goes(w, v)
  BY CommitGoes
<1> HIDE DEF v, e
<1>4. Good(v)
  BY <1>3 DEF Goes
<1>5. Goes(w, w)
  BY GoesNowhere
<1>6. ~v.open => Goes(w, d)
  <2>1. ~v.open => Goes(v, d)
    BY <1>4, DropTicks
  <2> HIDE DEF d
  <2> QED
    BY <1>3, <2>1, GoesOnTo
<1>7. Goes(w, sv)
  <2>1. Goes(v, sv)
    BY <1>4, SpaceGoes
  <2> HIDE DEF sv
  <2> QED
    BY <1>3, <2>1, GoesOnTo
<1>8. Goes(w, r)
  <2>1. Goes(v, held)
    BY <1>4, GapTicks
  <2> HIDE DEF held
  <2>2. Goes(held, h)
    <3>1. Good(held)
      BY <2>1 DEF Goes
    <3>2. Ticks(held, h)
      BY <1>2, <3>1, RecomputeTicks
    <3> HIDE DEF h
    <3> QED
      BY <3>1, <3>2, TicksGo
  <2> HIDE DEF h
  <2>3. Goes(h, r)
    <3>1. Good(h)
      BY <2>2 DEF Goes
    <3> QED
      BY <3>1, ReleaseGoes
  <2> HIDE DEF r
  <2>4. Goes(v, h)
    BY <1>4, <2>1, <2>2, GoesOnTo
  <2>5. Goes(v, r)
    BY <1>4, <2>3, <2>4, GoesOnTo
  <2> QED
    BY <1>3, <2>5, GoesOnTo
<1>9. Goes(w, f) /\ Goes(w, sf)
  <2>1. Ticks(v, u)
    BY <1>2, <1>4, RecomputeTicks
  <2> HIDE DEF u
  <2>2. Goes(v, u)
    BY <1>4, <2>1, TicksGo
  <2>3. Goes(u, f)
    <3>1. Good(u)
      BY <2>2 DEF Goes
    <3> QED
      BY <3>1, FlushedGoes
  <2> HIDE DEF f
  <2>4. Goes(f, sf)
    <3>1. Good(f)
      BY <2>3 DEF Goes
    <3> QED
      BY <3>1, SpaceGoes
  <2> HIDE DEF sf
  <2>5. Goes(w, u)
    BY <1>3, <2>2, GoesOnTo
  <2>6. Goes(w, f)
    BY <2>3, <2>5, GoesOnTo
  <2>7. Goes(w, sf)
    BY <2>4, <2>6, GoesOnTo
  <2> QED
    BY <2>6, <2>7
<1> HIDE DEF d, sv, r, f, sf
<1> QED
  BY <1>1, <1>3, <1>5, <1>6, <1>7, <1>8, <1>9

LEMMA TimeoutGoes ==
  ASSUME NEW w, Good(w), NEW c, Choice(c)
  PROVE  Goes(w, Threshold!checkLetterTimeout(w, c))
<1> DEFINE v == Threshold!commitPendingMarkToLetter(w, c)
           f == [Threshold!flushPendingLetter(v, c) EXCEPT !.emitted = TRUE]
           s == Threshold!appendSpace(f)
           e == Threshold!checkLetterTimeout(w, c)
<1>1. e \in {w, v, s, f}
  <2> HIDE DEF v, f, s
  <2> QED
    BY DEF Threshold!checkLetterTimeout, v, f, s
<1> SUFFICES Goes(w, e)
  OBVIOUS
<1>2. Goes(w, v)
  BY CommitGoes
<1> HIDE DEF v, e
<1>3. Goes(v, f)
  <2>1. Good(v)
    BY <1>2 DEF Goes
  <2> QED
    BY <2>1, FlushedGoes
<1> HIDE DEF f
<1>4. Goes(f, s)
  <2>1. Good(f)
    BY <1>3 DEF Goes
  <2> QED
    BY <2>1, SpaceGoes
<1> HIDE DEF s
<1>5. Goes(w, f)
  BY <1>2, <1>3, GoesOnTo
<1>6. Goes(w, s)
  BY <1>4, <1>5, GoesOnTo
<1>7. Goes(w, w)
  BY GoesNowhere
<1> QED
  BY <1>1, <1>2, <1>5, <1>6, <1>7

LEMMA ClockTypes ==
  ASSUME NEW w, Good(w)
  PROVE  /\ w.run \in Nat /\ w.valley \in Int /\ w.run \in 0 .. Threshold!Cap
         /\ 0 \in 0 .. Threshold!Cap /\ 0 \in -1 .. Threshold!Cap /\ -1 \in -1 .. Threshold!Cap
<1>1. Threshold!Cap \in Nat
  BY ThresholdCap
<1> QED
  BY <1>1 DEF Good, Clocks

LEMMA SplitGoes ==
  ASSUME NEW w, Good(w), NEW c, Choice(c)
  PROVE  Goes(w, Threshold!splitMarkAtValley(w, c))
<1> DEFINE ticks == w.run - w.valley
           gap == Threshold!Max({1, Threshold!Min({w.valley, w.unit})})
           m == Threshold!handleMarkEnd(w, ticks)
           s == Threshold!handleSpaceEnd(m, gap, c)
           f == [s EXCEPT !.high = TRUE, !.run = 0, !.valley = 0, !.emitted = FALSE]
           u == [w EXCEPT !.valley = 0]
           e == Threshold!splitMarkAtValley(w, c)
<1>1. e = IF w.run <= w.valley THEN u ELSE f
  BY DEF Threshold!splitMarkAtValley
<1> SUFFICES Goes(w, e)
  OBVIOUS
<1> HIDE DEF e
<1>2. /\ w.run \in Nat /\ w.valley \in Int /\ w.run \in 0 .. Threshold!Cap
      /\ 0 \in 0 .. Threshold!Cap /\ 0 \in -1 .. Threshold!Cap
  BY ClockTypes
<1>3. CASE w.run <= w.valley
  <2>1. SetsValley(w, u, 0)
    BY DEF SetsValley
  <2> HIDE DEF u
  <2>2. Goes(w, u)
    BY <1>2, <2>1, ValleySet
  <2> QED
    BY <1>1, <1>3, <2>2
<1>4. CASE ~(w.run <= w.valley)
  <2>1. ticks \in Nat
    BY <1>2, <1>4
  <2> HIDE DEF ticks, gap
  <2>2. Goes(w, m)
    BY <2>1, MarkEndGoes
  <2> HIDE DEF m
  <2>3. Goes(m, s)
    <3>1. Good(m)
      BY <2>2 DEF Goes
    <3> QED
      BY <3>1, SpaceEndGoes
  <2> HIDE DEF s
  <2>4. Goes(s, f)
    <3>1. Good(s)
      BY <2>3 DEF Goes
    <3>2. SetsSplit(s, f, TRUE, 0, 0, FALSE)
      BY DEF SetsSplit
    <3> HIDE DEF f
    <3> QED
      BY <1>2, <3>1, <3>2, SplitSet
  <2> HIDE DEF f
  <2>5. Goes(w, s)
    BY <2>2, <2>3, GoesOnTo
  <2>6. Goes(w, f)
    BY <2>4, <2>5, GoesOnTo
  <2> QED
    BY <1>1, <1>4, <2>6
<1> QED
  BY <1>3, <1>4

LEMMA ValleyGoes ==
  ASSUME NEW w, Good(w), NEW level, NEW c, Choice(c)
  PROVE  Goes(w, Threshold!processIntraMarkValley(w, level, c))
<1> DEFINE z == [w EXCEPT !.valley = 0]
           s == Threshold!splitMarkAtValley(w, c)
           x == [w EXCEPT !.valley = -1, !.run = 0]
           e == Threshold!processIntraMarkValley(w, level, c)
<1>1. e \in {z, s, w, x}
  <2> HIDE DEF z, s, x
  <2> QED
    BY DEF Threshold!processIntraMarkValley, z, s, x
<1> SUFFICES Goes(w, e)
  OBVIOUS
<1> HIDE DEF e
<1>2. 0 \in 0 .. Threshold!Cap /\ 0 \in -1 .. Threshold!Cap /\ -1 \in -1 .. Threshold!Cap
  BY ClockTypes
<1>3. Goes(w, z)
  <2>1. SetsValley(w, z, 0)
    BY DEF SetsValley
  <2> HIDE DEF z
  <2> QED
    BY <1>2, <2>1, ValleySet
<1>4. Goes(w, x)
  <2>1. SetsValleyRun(w, x, -1, 0)
    BY DEF SetsValleyRun
  <2> HIDE DEF x
  <2> QED
    BY <1>2, <2>1, ValleyRunSet
<1>5. Goes(w, s)
  BY SplitGoes
<1>6. Goes(w, w)
  BY GoesNowhere
<1> HIDE DEF z, s, x
<1> QED
  BY <1>1, <1>3, <1>4, <1>5, <1>6

LEMMA ChangeGoes ==
  ASSUME NEW w, Good(w), NEW above, above \in BOOLEAN, NEW level, NEW c, Choice(c)
  PROVE  Goes(w, Threshold!processStateChange(w, above, level, c))
<1> DEFINE m == Threshold!handleMarkEnd(w, w.run)
           s == Threshold!handleSpaceEnd(w, w.run, c)
           x == [m EXCEPT !.high = above, !.run = 0]
           y == [s EXCEPT !.high = above, !.run = 0, !.emitted = FALSE]
           e == Threshold!processStateChange(w, above, level, c)
<1>1. e \in {x, y}
  <2> HIDE DEF x, y
  <2> QED
    BY DEF Threshold!processStateChange, x, y, m, s
<1> SUFFICES Goes(w, e)
  OBVIOUS
<1> HIDE DEF e
<1>2. 0 \in 0 .. Threshold!Cap /\ w.run \in Nat
  BY ClockTypes
<1>3. Goes(w, x)
  <2>1. Goes(w, m)
    BY <1>2, MarkEndGoes
  <2> HIDE DEF m
  <2>2. SetsHighRun(m, x, above, 0) /\ Good(m)
    BY <2>1 DEF SetsHighRun, Goes
  <2> HIDE DEF x
  <2>3. Goes(m, x)
    BY <1>2, <2>2, HighRunSet
  <2> QED
    BY <2>1, <2>3, GoesOnTo
<1>4. Goes(w, y)
  <2>1. Goes(w, s)
    BY SpaceEndGoes
  <2> HIDE DEF s
  <2>2. SetsHighRunEmitted(s, y, above, 0, FALSE) /\ Good(s)
    BY <2>1 DEF SetsHighRunEmitted, Goes
  <2> HIDE DEF y
  <2>3. Goes(s, y)
    BY <1>2, <2>2, HighRunEmittedSet
  <2> QED
    BY <2>1, <2>3, GoesOnTo
<1> HIDE DEF x, y
<1> QED
  BY <1>1, <1>3, <1>4

LEMMA ElapseGoes ==
  ASSUME NEW w, Good(w), NEW dt \in Nat
  PROVE  Goes(w, Threshold!Elapse(w, dt))
<1> DEFINE C == Threshold!Cap
           r == w.run + dt
           run == Threshold!Min({r, C})
           d == w.valley + dt
           valley == IF w.valley < 0 THEN w.valley ELSE Threshold!Min({d, C})
           e == Threshold!Elapse(w, dt)
<1>1. C \in Nat /\ w.run \in 0 .. C /\ w.valley \in -1 .. C
  BY ThresholdCap DEF Good, Clocks
<1>2. e = [w EXCEPT !.run = run, !.valley = valley]
  BY DEF Threshold!Elapse
<1> HIDE DEF C
<1>3. r \in Nat /\ d \in Int
  BY <1>1
<1> HIDE DEF r
<1>4. run = IF r <= C THEN r ELSE C
  BY <1>1, <1>3, LesserOf
<1> HIDE DEF run
<1>5. run \in 0 .. C
  BY <1>1, <1>3, <1>4
<1> DEFINE k == Threshold!Min({d, C})
<1>6. k = IF d <= C THEN d ELSE C
  <2> HIDE DEF d
  <2> QED
    BY <1>1, <1>3, LesserOf
<1>7. valley = IF w.valley < 0 THEN w.valley ELSE k
  OBVIOUS
<1> HIDE DEF k, valley
<1>8. valley \in -1 .. C
  BY <1>1, <1>6, <1>7
<1>9. SetsRunValley(w, e, run, valley)
  BY <1>2 DEF SetsRunValley
<1> HIDE DEF e
<1>10. Goes(w, e)
  BY <1>5, <1>8, <1>9, RunValleySet DEF C
<1> QED
  BY <1>10 DEF e

\* The squelch: nothing is lost unless it closes.
Squelched(w, v) == Good(v) /\ (Short(w) => Short(v)) /\ ((w.open => v.open) => Keeps(w, v))

LEMMA OpenSet ==
  ASSUME NEW w, Good(w), NEW open, open \in BOOLEAN, NEW v, v = [w EXCEPT !.open = open],
         open \/ ~w.open
  PROVE  Squelched(w, v)
<1> DEFINE LM == Seq(Nat)
           LT == Seq(Seq(Nat))
<1>1. WinFields(LM, LT, w) /\ Clocks(w) /\ CopyOK(w.marks, w.text, w.next, w.open)
  BY DEF Good, IsWin
<1> HIDE DEF LM, LT
<1>2. /\ WinFields(LM, LT, v) /\ v.run = w.run /\ v.valley = w.valley /\ v.pen = w.pen
      /\ v.marks = w.marks /\ v.text = w.text
      /\ v.next = w.next /\ v.out = w.out /\ v.open = open
  BY <1>1 DEF WinFields
<1>3. IsWin(v) /\ Clocks(v)
  BY <1>1, <1>2 DEF IsWin, Clocks, LM, LT
<1>4. CopyOK(v.marks, v.text, v.next, v.open)
  BY <1>1, <1>2 DEF CopyOK
<1>5. w.next \in Nat
  BY NextIsNat DEF Good
<1>6. MarksKept(v) = MarksKept(w)
  BY <1>2 DEF MarksKept
<1>7. Keeps(w, v)
  BY <1>2, <1>5, <1>6 DEF Keeps
<1> QED
  BY <1>2, <1>3, <1>4, <1>7 DEF Squelched, Good, Short

LEMMA CloseSet ==
  ASSUME NEW w, Good(w), w.open, NEW v,
         v = [w EXCEPT !.open = FALSE, !.marks = << >>, !.gaps = << >>, !.have = FALSE, !.pen = 0]
  PROVE  Squelched(w, v)
<1> DEFINE LM == Seq(Nat)
           LT == Seq(Seq(Nat))
           none == << >>
           no == FALSE
           nil == 0
<1>1. WinFields(LM, LT, w) /\ Clocks(w) /\ CopyOK(w.marks, w.text, w.next, w.open)
      /\ none \in LM /\ no \in BOOLEAN /\ nil \in Int /\ nil \in 0 .. Threshold!Cap /\ no = FALSE
      /\ v = [w EXCEPT !.open = no, !.marks = none, !.gaps = none, !.have = no, !.pen = nil]
      /\ Len(none) = 0
  BY EmptySeq, ThresholdCap DEF Good, IsWin
<1> HIDE DEF LM, LT, none, no, nil
<1>2. /\ WinFields(LM, LT, v) /\ v.run = w.run /\ v.valley = w.valley /\ v.pen = nil
      /\ v.marks = none /\ v.text = w.text
      /\ v.next = w.next /\ v.out = w.out /\ v.open = no
  <2>1. WinFields(LM, LT, v)
    BY <1>1 DEF WinFields
  <2>2. v.run = w.run /\ v.valley = w.valley /\ v.pen = nil /\ v.open = no
    BY <1>1 DEF WinFields
  <2>3. v.marks = none /\ v.text = w.text /\ v.next = w.next /\ v.out = w.out
    BY <1>1 DEF WinFields
  <2> QED
    BY <2>1, <2>2, <2>3
<1>3. IsWin(v) /\ Clocks(v)
  BY <1>1, <1>2 DEF IsWin, Clocks, LM, LT
<1>4. CopyOK(v.marks, v.text, v.next, v.open)
  <2>1. Asc(none) /\ Under(w.text, none)
    BY <1>1 DEF Asc, Under
  <2>2. \A k : k \notin 1 .. Len(none)
    BY <1>1
  <2>3. none = << >>
    BY DEF none
  <2> QED
    BY <1>1, <1>2, <2>1, <2>2, <2>3 DEF CopyOK
<1>5. Short(v)
  BY <1>1, <1>2, ThresholdConstants DEF Short
<1>6. ~v.open
  BY <1>1, <1>2
<1> QED
  BY <1>3, <1>4, <1>5, <1>6 DEF Squelched, Good

LEMMA SquelchIs ==
  ASSUME NEW w, Good(w), NEW level, NEW turns, turns \in BOOLEAN
  PROVE  Squelched(w, Threshold!updateSquelch(w, level, turns))
<1> DEFINE yes == [w EXCEPT !.open = TRUE]
           maybe == [w EXCEPT !.open = turns]
           closed == [w EXCEPT !.open = FALSE, !.marks = << >>, !.gaps = << >>, !.have = FALSE, !.pen = 0]
           v == Threshold!updateSquelch(w, level, turns)
<1>1. v = yes \/ (v = maybe /\ ~w.open) \/ (v = closed /\ w.open) \/ v = w
  <2> HIDE DEF yes, maybe, closed
  <2> QED
    BY DEF Threshold!updateSquelch, yes, maybe, closed
<1> SUFFICES Squelched(w, v)
  OBVIOUS
<1> HIDE DEF v
<1>2. Squelched(w, yes)
  BY OpenSet
<1>3. ~w.open => Squelched(w, maybe)
  BY OpenSet
<1>4. w.open => Squelched(w, closed)
  BY CloseSet
<1>5. Squelched(w, w)
  <2>1. Goes(w, w)
    BY GoesNowhere
  <2> QED
    BY <2>1 DEF Goes, Squelched
<1> HIDE DEF yes, maybe, closed
<1> QED
  BY <1>1, <1>2, <1>3, <1>4, <1>5

\* One column.
LEMMA FeedIs ==
  ASSUME NEW w, Good(w), NEW level, NEW turns, turns \in BOOLEAN, NEW dt \in Nat,
         NEW c, Choice(c)
  PROVE  Squelched(w, Threshold!feedSample(w, level, turns, dt, c))
<1> DEFINE l == Threshold!Elapse(w, dt)
           u == Threshold!updateSquelch(l, level, turns)
           above == level # "low"
           x == [u EXCEPT !.has = TRUE, !.high = above, !.run = 0, !.valley = -1]
           p == [u EXCEPT !.valley = -1]
           s == Threshold!processStateChange(p, above, level, c)
           i == Threshold!processIntraMarkValley(u, level, c)
           t == Threshold!checkLetterTimeout(u, c)
           e == Threshold!feedSample(w, level, turns, dt, c)
<1>1. e \in {x, s, i, t, u}
  <2> HIDE DEF x, s, i, t
  <2> QED
    BY DEF Threshold!feedSample, x, s, i, t, p, u, l
<1> SUFFICES Squelched(w, e)
  OBVIOUS
<1> HIDE DEF e
<1>2. Goes(w, l)
  BY ElapseGoes
<1> HIDE DEF l
<1>3. Good(l)
  BY <1>2 DEF Goes
<1>4. Squelched(l, u)
  BY <1>3, SquelchIs
<1> HIDE DEF u
<1>5. Good(u)
  BY <1>4 DEF Squelched
<1>6. above \in BOOLEAN
  OBVIOUS
<1> HIDE DEF above
<1>7. 0 \in 0 .. Threshold!Cap /\ -1 \in -1 .. Threshold!Cap
  BY <1>5, ClockTypes
<1>8. Goes(u, x)
  <2>1. SetsFirst(u, x, TRUE, above, 0, -1)
    BY DEF SetsFirst
  <2> HIDE DEF x
  <2> QED
    BY <1>5, <1>6, <1>7, <2>1, FirstSet
<1>9. Goes(u, s)
  <2>1. SetsValley(u, p, -1)
    BY DEF SetsValley
  <2> HIDE DEF p
  <2>2. Goes(u, p)
    BY <1>5, <1>7, <2>1, ValleySet
  <2>3. Good(p)
    BY <2>2 DEF Goes
  <2>4. Goes(p, s)
    BY <1>6, <2>3, ChangeGoes
  <2> HIDE DEF s
  <2> QED
    BY <1>5, <2>2, <2>4, GoesOnTo
<1>10. Goes(u, i)
  BY <1>5, ValleyGoes
<1>11. Goes(u, t)
  BY <1>5, TimeoutGoes
<1>12. Goes(u, u)
  BY <1>5, GoesNowhere
<1> HIDE DEF x, s, i, t
<1>13. Goes(u, e)
  BY <1>1, <1>8, <1>9, <1>10, <1>11, <1>12
<1>14. /\ Good(e) /\ e.open = u.open /\ (Short(u) => Short(e)) /\ Keeps(u, e)
       /\ l.open = w.open /\ (Short(w) => Short(l)) /\ Keeps(w, l)
       /\ Good(u) /\ (Short(l) => Short(u)) /\ ((l.open => u.open) => Keeps(l, u))
  BY <1>2, <1>4, <1>13 DEF Goes, Squelched
<1>15. ASSUME w.open => e.open PROVE Keeps(w, e)
  <2>1. Keeps(l, u)
    BY <1>14, <1>15
  <2>2. IsWin(w) /\ IsWin(l) /\ IsWin(u) /\ IsWin(e)
    BY <1>3, <1>14 DEF Good
  <2>3. Keeps(w, u)
    BY <1>14, <2>1, <2>2, KeepsOn
  <2> QED
    BY <1>14, <2>2, <2>3, KeepsOn
<1> QED
  BY <1>14, <1>15 DEF Squelched

\* A text that may be there when a button has been pressed.
TextOK(text, next) ==
    /\ Rising(text) /\ NoTwoBlanks(text) /\ Len(text) <= MaxScroll /\ next # 0
    /\ \A m \in MarksOf(text) : m < next

\* v has that text and no open letter.
Fresh(w, v, text) ==
    /\ IsWin(v) /\ Clocks(v) /\ v.marks = << >> /\ v.text = text /\ v.next = w.next

\* A window between two columns: the first half of the inductive invariant.
Well(w) == Good(w) /\ Short(w)

LEMMA FreshIsWell ==
  ASSUME NEW w, Good(w), NEW text, TextOK(text, w.next), NEW v, Fresh(w, v, text)
  PROVE  Well(v)
<1>1. /\ IsWin(v) /\ Clocks(v) /\ v.marks = << >> /\ v.text = text /\ v.next = w.next
      /\ Rising(text) /\ NoTwoBlanks(text) /\ Len(text) <= MaxScroll /\ w.next # 0
      /\ \A m \in MarksOf(text) : m < w.next
  BY DEF Fresh, TextOK
<1>2. Len(<< >>) = 0 /\ MaxOpen \in Nat
  BY EmptySeq, ThresholdConstants
<1>3. Asc(v.marks) /\ Under(text, v.marks) /\ Len(v.marks) = 0
  BY <1>1, <1>2 DEF Asc, Under
<1>4. CopyOK(v.marks, v.text, v.next, v.open)
  BY <1>1, <1>3 DEF CopyOK
<1> QED
  BY <1>1, <1>2, <1>3, <1>4 DEF Well, Good, Short

LEMMA TextStays ==
  ASSUME NEW w, Good(w)
  PROVE  TextOK(w.text, w.next)
BY DEF Good, CopyOK, TextOK

LEMMA NoText ==
  ASSUME NEW next, next # 0
  PROVE  TextOK(<< >>, next)
<1>1. Len(<< >>) = 0 /\ MaxScroll \in Nat
  BY EmptySeq, ThresholdConstants
<1>2. (\A i : i \notin 1 .. 0) /\ (\A i : i \notin 1 .. 0 - 1)
  OBVIOUS
<1>3. Rising(<< >>)
  BY <1>1, <1>2 DEF Rising
<1>4. NoTwoBlanks(<< >>)
  BY <1>1, <1>2 DEF NoTwoBlanks
<1>5. MarksOf(<< >>) = {}
  BY <1>1, <1>2 DEF MarksOf
<1> QED
  BY <1>1, <1>3, <1>4, <1>5 DEF TextOK

LEMMA OldText ==
  ASSUME NEW next \in Nat, next # 0
  PROVE  TextOK(<< << 0 >> >>, next) /\ << << 0 >> >> \in Seq(Seq(Nat))
<1> DEFINE l == <<0>>
           t == << l >>
<1>1. l \in Seq(Nat) /\ Len(l) = 1 /\ l[1] = 0
  OBVIOUS
<1>2. t \in Seq(Seq(Nat)) /\ Len(t) = 1 /\ t[1] = l
  <2> HIDE DEF l
  <2> QED
    BY <1>1, OneLetter
<1> HIDE DEF l, t
<1>3. \A i : (i \in 1 .. 1 <=> i = 1) /\ i \notin 1 .. 1 - 1
  OBVIOUS
<1>4. Asc(l)
  BY <1>1, <1>3 DEF Asc
<1>5. Rising(t)
  BY <1>2, <1>3, <1>4 DEF Rising
<1>6. NoTwoBlanks(t)
  BY <1>2, <1>3 DEF NoTwoBlanks
<1>7. \A m \in MarksOf(t) : m = 0
  BY <1>1, <1>2, <1>3 DEF MarksOf, Holds
<1>8. Len(t) <= MaxScroll
  BY <1>2, ThresholdConstants
<1>9. \A m \in MarksOf(t) : m < next
  BY <1>7
<1> QED
  BY <1>2, <1>5, <1>6, <1>8, <1>9 DEF TextOK, t, l

LEMMA ClearedIs ==
  ASSUME NEW w, Good(w)
  PROVE  Well(Threshold!clearDecode(w))
<1> DEFINE v == Threshold!clearDecode(w)
           LM == Seq(Nat)
           LT == Seq(Seq(Nat))
           none == << >>
           blank == << >>
           no == FALSE
           nil == 0
<1>1. v = [w EXCEPT !.text = blank, !.marks = none, !.gaps = none, !.have = no, !.pen = nil, !.emitted = no]
  BY DEF Threshold!clearDecode
<1>2. /\ WinFields(LM, LT, w) /\ Clocks(w) /\ none \in LM /\ blank \in LT /\ no \in BOOLEAN
      /\ nil \in Int /\ nil \in 0 .. Threshold!Cap
  BY EmptySeq, ThresholdCap DEF Good, IsWin
<1> HIDE DEF LM, LT, none, blank, no, nil, v
<1>3. /\ WinFields(LM, LT, v) /\ v.run = w.run /\ v.valley = w.valley /\ v.pen = nil
      /\ v.marks = none /\ v.text = blank /\ v.next = w.next
  BY <1>1, <1>2 DEF WinFields
<1>4. Fresh(w, v, blank)
  BY <1>2, <1>3 DEF Fresh, IsWin, Clocks, LM, LT, none
<1>5. w.next # 0
  BY DEF Good, CopyOK
<1>6. TextOK(blank, w.next)
  BY <1>5, NoText DEF blank
<1>7. Well(v)
  BY <1>4, <1>6, FreshIsWell
<1> QED
  BY <1>7 DEF v

LEMMA ResetIs ==
  ASSUME NEW w, Good(w), NEW text, text \in Seq(Seq(Nat)), TextOK(text, w.next),
         NEW open, open \in BOOLEAN
  PROVE  /\ Well(Threshold!resetTiming(w))
         /\ Well([Threshold!resetTiming(w) EXCEPT !.text = text])
         /\ Well([Threshold!resetTiming(w) EXCEPT !.open = open])
<1> DEFINE r == Threshold!resetTiming(w)
           a == [r EXCEPT !.text = text]
           p == [r EXCEPT !.open = open]
           LM == Seq(Nat)
           LT == Seq(Seq(Nat))
           none == << >>
           no == FALSE
           nil == 0
           off == -1
           known == ~w.auto
<1>1. r = [w EXCEPT !.unit = w.slider, !.calibrated = known, !.has = no, !.marks = none, !.gaps = none,
              !.have = no, !.pen = nil, !.emitted = no, !.valley = off, !.open = w.play]
  BY DEF Threshold!resetTiming
<1>2. /\ WinFields(LM, LT, w) /\ Clocks(w) /\ none \in LM /\ no \in BOOLEAN /\ text \in LT
      /\ nil \in Int /\ nil \in 0 .. Threshold!Cap /\ off \in Int /\ off \in -1 .. Threshold!Cap
      /\ known \in BOOLEAN
  BY EmptySeq, ThresholdCap DEF Good, IsWin
<1> HIDE DEF LM, LT, none, no, nil, off, known, r
<1>3. /\ WinFields(LM, LT, r) /\ r.run = w.run /\ r.valley = off /\ r.pen = nil
      /\ r.marks = none /\ r.text = w.text /\ r.next = w.next
  <2> DEFINE x == [w EXCEPT !.unit = w.slider, !.calibrated = known, !.has = no]
             y == [x EXCEPT !.marks = none, !.gaps = none, !.have = no, !.pen = nil]
             open2 == w.play
  <2>1. r = [y EXCEPT !.emitted = no, !.valley = off, !.open = open2]
    BY <1>1
  <2>2. /\ WinFields(LM, LT, x) /\ x.run = w.run /\ x.text = w.text /\ x.next = w.next
        /\ open2 \in BOOLEAN
    BY <1>2 DEF WinFields
  <2> HIDE DEF x, open2
  <2>3. /\ WinFields(LM, LT, y) /\ y.run = w.run /\ y.text = w.text /\ y.next = w.next
        /\ y.marks = none /\ y.pen = nil
    BY <1>2, <2>2 DEF WinFields
  <2> HIDE DEF y
  <2>4. WinFields(LM, LT, r)
    BY <1>2, <2>1, <2>2, <2>3 DEF WinFields
  <2>5. r.run = w.run /\ r.valley = off /\ r.pen = nil
    BY <1>2, <2>1, <2>2, <2>3 DEF WinFields
  <2>6. r.marks = none /\ r.text = w.text /\ r.next = w.next
    BY <1>2, <2>1, <2>2, <2>3 DEF WinFields
  <2> QED
    BY <2>4, <2>5, <2>6
<1>4. /\ WinFields(LM, LT, a) /\ a.run = w.run /\ a.valley = off /\ a.pen = nil
      /\ a.marks = none /\ a.text = text /\ a.next = w.next
  BY <1>2, <1>3 DEF WinFields
<1>5. /\ WinFields(LM, LT, p) /\ p.run = w.run /\ p.valley = off /\ p.pen = nil
      /\ p.marks = none /\ p.text = w.text /\ p.next = w.next
  BY <1>2, <1>3 DEF WinFields
<1> HIDE DEF a, p
<1>6. Fresh(w, r, w.text)
  BY <1>2, <1>3 DEF Fresh, IsWin, Clocks, LM, LT, none
<1>7. Fresh(w, a, text)
  BY <1>2, <1>4 DEF Fresh, IsWin, Clocks, LM, LT, none
<1>8. Fresh(w, p, w.text)
  BY <1>2, <1>5 DEF Fresh, IsWin, Clocks, LM, LT, none
<1>9. TextOK(w.text, w.next)
  BY TextStays
<1>10. Well(r)
  BY <1>6, <1>9, FreshIsWell
<1>11. Well(a)
  BY <1>7, FreshIsWell
<1>12. Well(p)
  BY <1>8, <1>9, FreshIsWell
<1> QED
  BY <1>10, <1>11, <1>12 DEF a, p, r

\* Of the window, only flags and the dit change.
LEMMA PlaySet ==
  ASSUME NEW w, Well(w), NEW play, play \in BOOLEAN
  PROVE  Well([w EXCEPT !.play = play])
<1> DEFINE v == [w EXCEPT !.play = play]
           LM == Seq(Nat)
           LT == Seq(Seq(Nat))
<1>1. WinFields(LM, LT, w) /\ Clocks(w) /\ Good(w) /\ Short(w)
  BY DEF Well, Good, IsWin
<1> HIDE DEF LM, LT
<1>2. /\ WinFields(LM, LT, v) /\ v.run = w.run /\ v.valley = w.valley /\ v.pen = w.pen
      /\ v.marks = w.marks /\ v.text = w.text
      /\ v.next = w.next /\ v.out = w.out /\ v.open = w.open
  BY <1>1 DEF WinFields
<1> HIDE DEF v
<1>3. Ticks(w, v)
  BY <1>1, <1>2 DEF Ticks, IsWin, Clocks, LM, LT
<1>4. Goes(w, v)
  BY <1>1, <1>3, TicksGo
<1>5. Well(v)
  BY <1>1, <1>4 DEF Goes, Well
<1> QED
  BY <1>5 DEF v

LEMMA SpeedSet ==
  ASSUME NEW w, Well(w), NEW auto, auto \in BOOLEAN, NEW unit \in Units
  PROVE  Well([w EXCEPT !.auto = auto, !.slider = unit, !.unit = IF auto THEN @ ELSE unit,
                        !.calibrated = @ \/ ~auto])
<1> DEFINE next == IF auto THEN w.unit ELSE unit
           known == w.calibrated \/ ~auto
           v == [w EXCEPT !.auto = auto, !.slider = unit, !.unit = next, !.calibrated = known]
           LM == Seq(Nat)
           LT == Seq(Seq(Nat))
<1>1. WinFields(LM, LT, w) /\ Clocks(w) /\ Good(w) /\ Short(w)
  BY DEF Well, Good, IsWin
<1>2. next \in Units /\ known \in BOOLEAN
  <2>1. w.unit \in Units
    BY <1>1 DEF WinFields
  <2>2. known \in BOOLEAN
    OBVIOUS
  <2> QED
    BY <2>1, <2>2
<1> HIDE DEF LM, LT, next, known
<1>3. /\ WinFields(LM, LT, v) /\ v.run = w.run /\ v.valley = w.valley /\ v.pen = w.pen
      /\ v.marks = w.marks /\ v.text = w.text
      /\ v.next = w.next /\ v.out = w.out /\ v.open = w.open
  BY <1>1, <1>2 DEF WinFields
<1> HIDE DEF v
<1>4. Ticks(w, v)
  BY <1>1, <1>3 DEF Ticks, IsWin, Clocks, LM, LT
<1>5. Goes(w, v)
  BY <1>1, <1>4, TicksGo
<1>6. Well(v)
  BY <1>1, <1>5 DEF Goes, Well
<1> QED
  BY <1>6 DEF v, next, known

\* The marks of the open letter and those of the text are one rising sequence
\* below the next mark; it is what keeps the order of what is still to come.
ThresholdInv == Well(win) /\ heard \in 0 .. MaxMarks /\ buttons \in 0 .. MaxButtons

LEMMA ThresholdStarts ==
  ASSUME Threshold!Init
  PROVE  ThresholdInv
<1> DEFINE w == Threshold!Start
           none == << >>
           blank == << >>
           LM == Seq(Nat)
           LT == Seq(Seq(Nat))
<1>1. SeedUnit \in Units /\ none \in LM /\ blank \in LT /\ MaxMarks \in Nat /\ MaxButtons \in Nat
      /\ MaxScroll \in Nat /\ MaxOpen \in Nat
  BY EmptySeq, ThresholdConstants
<1>2. w = [has |-> FALSE, high |-> FALSE, run |-> 0, valley |-> -1, have |-> FALSE, pen |-> 0,
           marks |-> none, gaps |-> none, emitted |-> FALSE, unit |-> SeedUnit, slider |-> SeedUnit,
           calibrated |-> FALSE, auto |-> TRUE, open |-> FALSE, play |-> FALSE, text |-> blank,
           next |-> 1, out |-> {}]
  BY DEF Threshold!Start
<1> HIDE DEF LM, LT, none, blank, w
<1>3. /\ WinFields(LM, LT, w) /\ w.run = 0 /\ w.valley = -1 /\ w.pen = 0
      /\ w.marks = none /\ w.text = blank /\ w.next = 1
  BY <1>1, <1>2 DEF WinFields
<1>4. IsWin(w)
  BY <1>3 DEF IsWin, LM, LT
<1>5. Clocks(w)
  <2>1. Threshold!Cap \in Nat
    BY ThresholdCap
  <2> QED
    BY <1>3, <2>1 DEF Clocks
<1>6. TextOK(blank, w.next)
  BY <1>3, NoText DEF blank
<1>7. CopyOK(w.marks, w.text, w.next, w.open) /\ Len(w.marks) = 0
  <2>1. w.marks = << >> /\ Len(w.marks) = 0
    BY <1>3, EmptySeq DEF none
  <2>2. Asc(w.marks) /\ Under(w.text, w.marks)
    BY <2>1 DEF Asc, Under
  <2> QED
    BY <1>3, <1>6, <2>1, <2>2 DEF CopyOK, TextOK
<1>8. Well(w)
  BY <1>1, <1>4, <1>5, <1>7 DEF Well, Good, Short
<1>9. win = w /\ heard = 0 /\ buttons = 0
  BY DEF Threshold!Init, w
<1> QED
  BY <1>1, <1>8, <1>9 DEF ThresholdInv

\* What a step does to the marks: the second of the facts is for columns.
Heeds(w, v) == Well(v) /\ ((w.open => v.open) => Keeps(w, v))

LEMMA ChoicesAre ==
  ASSUME NEW w, NEW c, c \in Threshold!Outcomes(w) \cup {Threshold!NoOutcome}
  PROVE  Choice(c)
<1> DEFINE E == Threshold!Estimates
           P == IF w.auto THEN E ELSE {<<0, 0>>}
<1>1. \A e \in P : e[1] \in {0} \cup Units /\ e[2] \in {0} \cup Units
  <2>1. \A e \in E : e[1] \in {0} \cup Units /\ e[2] \in {0} \cup Units
    BY DEF Threshold!Estimates
  <2> HIDE DEF E
  <2> QED
    BY <2>1
<1>2. CASE c \in Threshold!Outcomes(w)
  <2> HIDE DEF P
  <2>1. c.est \in P
    BY <1>2 DEF Threshold!Outcomes, P
  <2> QED
    BY <1>1, <2>1 DEF Choice
<1>3. CASE c = Threshold!NoOutcome
  BY <1>3 DEF Threshold!NoOutcome, Choice
<1> QED
  BY <1>2, <1>3

LEMMA FeedHeeds ==
  ASSUME ThresholdInv, NEW level, NEW dt \in Columns, Threshold!Feed(level, dt)
  PROVE  Heeds(win, win') /\ heard' \in 0 .. MaxMarks /\ buttons' = buttons
<1>1. Good(win) /\ Short(win) /\ heard \in 0 .. MaxMarks /\ buttons \in 0 .. MaxButtons
  BY DEF ThresholdInv, Well
<1>2. PICK turns \in (IF heard' > 0 /\ (level = "high" => ~win.open) THEN BOOLEAN ELSE {FALSE}),
           c \in (IF Threshold!Settles(win, level) THEN Threshold!Outcomes(win) ELSE {Threshold!NoOutcome}) :
        win' = Threshold!feedSample(win, level, turns, dt, c)
  BY DEF Threshold!Feed
<1>3. turns \in BOOLEAN
  OBVIOUS
<1>4. Choice(c)
  <2>1. c \in Threshold!Outcomes(win) \cup {Threshold!NoOutcome}
    <3> DEFINE O == Threshold!Outcomes(win)
               N == Threshold!NoOutcome
               S == Threshold!Settles(win, level)
    <3>1. c \in (IF S THEN O ELSE {N})
      OBVIOUS
    <3> HIDE DEF O, N, S
    <3> QED
      BY <3>1 DEF O, N
  <2> QED
    BY <2>1, ChoicesAre
<1>5. dt \in Nat
  BY ThresholdConstants
<1>6. Squelched(win, Threshold!feedSample(win, level, turns, dt, c))
  BY <1>1, <1>3, <1>4, <1>5, FeedIs
<1>7. Squelched(win, win')
  BY <1>2, <1>6
<1>8. heard' \in 0 .. MaxMarks /\ buttons' = buttons
  <2> DEFINE starts == level # "low" /\ ~(win.has /\ win.high)
             dips == level = "dip" /\ win.has /\ win.high /\ win.valley < 0
             more == starts \/ dips
  <2>1. (more => heard + buttons < MaxMarks) /\ heard' = (IF more THEN heard + 1 ELSE heard)
        /\ buttons' = buttons
    BY DEF Threshold!Feed
  <2> HIDE DEF more
  <2>2. MaxMarks \in Nat /\ MaxButtons \in Nat
    BY ThresholdConstants
  <2> QED
    BY <1>1, <2>1, <2>2
<1> QED
  BY <1>1, <1>7, <1>8 DEF Squelched, Heeds, Well

LEMMA AskedIs ==
  ASSUME ThresholdInv, Threshold!Asked
  PROVE  heard' \in 0 .. MaxMarks /\ buttons' \in 0 .. MaxButtons /\ buttons' # buttons
<1>1. heard \in 0 .. MaxMarks /\ buttons \in 0 .. MaxButtons /\ MaxButtons \in Nat
  BY ThresholdConstants DEF ThresholdInv
<1>2. buttons < MaxButtons /\ buttons' = buttons + 1 /\ heard' = heard
  BY DEF Threshold!Asked
<1> QED
  BY <1>1, <1>2

LEMMA ThresholdStep ==
  ASSUME ThresholdInv, Threshold!Next
  PROVE  /\ ThresholdInv'
         /\ buttons' = buttons /\ (win.open => win'.open) => Keeps(win, win')
<1>1. Well(win) /\ Good(win) /\ win.next \in Nat /\ win.next # 0
  BY NextIsNat DEF ThresholdInv, Well, Good, CopyOK
<1>2. TextOK(win.text, win.next) /\ win.text \in Seq(Seq(Nat))
  BY <1>1, TextStays, NextIsNat DEF Good
<1>3. ASSUME NEW level, NEW dt \in Columns, Threshold!Feed(level, dt)
      PROVE  ThresholdInv' /\ (buttons' = buttons /\ (win.open => win'.open) => Keeps(win, win'))
  <2>1. Heeds(win, win') /\ heard' \in 0 .. MaxMarks /\ buttons' = buttons
    BY <1>3, FeedHeeds
  <2>2. Well(win') /\ ((win.open => win'.open) => Keeps(win, win')) /\ buttons' \in 0 .. MaxButtons
    BY <2>1 DEF Heeds, ThresholdInv
  <2>3. Well(win)'
    BY <2>2
  <2> QED
    BY <2>1, <2>2, <2>3 DEF ThresholdInv
<1>4. ASSUME Threshold!Asked, Well(win') 
      PROVE  ThresholdInv' /\ (buttons' = buttons /\ (win.open => win'.open) => Keeps(win, win'))
  <2>1. heard' \in 0 .. MaxMarks /\ buttons' \in 0 .. MaxButtons /\ buttons' # buttons
    BY <1>4, AskedIs
  <2>2. Well(win)'
    BY <1>4
  <2> QED
    BY <2>1, <2>2 DEF ThresholdInv
<1>5. CASE Threshold!Clear
  <2>1. Threshold!Asked /\ win' = Threshold!clearDecode(win)
    BY <1>5 DEF Threshold!Clear
  <2>2. Well(Threshold!clearDecode(win))
    BY <1>1, ClearedIs
  <2> QED
    BY <1>4, <2>1, <2>2
<1>6. CASE Threshold!ResetTiming
  <2>1. Threshold!Asked /\ win' = Threshold!resetTiming(win)
    BY <1>6 DEF Threshold!ResetTiming
  <2>2. Well(Threshold!resetTiming(win))
    BY <1>1, <1>2, ResetIs
  <2> QED
    BY <1>4, <2>1, <2>2
<1>7. CASE Threshold!prepareForPlayback
  <2> DEFINE p == [win EXCEPT !.play = TRUE]
             c == Threshold!clearDecode(p)
             r == [Threshold!resetTiming(c) EXCEPT !.open = TRUE]
  <2>1. Threshold!Asked /\ win' = r
    BY <1>7 DEF Threshold!prepareForPlayback
  <2>2. Good(p)
    <3>1. Well(p)
      BY <1>1, PlaySet
    <3> QED
      BY <3>1 DEF Well
  <2> HIDE DEF p
  <2>3. Good(c)
    BY <2>2, ClearedIs DEF Well
  <2> HIDE DEF c
  <2>4. TextOK(c.text, c.next) /\ c.text \in Seq(Seq(Nat))
    BY <2>3, TextStays, NextIsNat DEF Good
  <2>5. Well(r)
    BY <2>3, <2>4, ResetIs
  <2> HIDE DEF r
  <2> QED
    BY <1>4, <2>1, <2>5
<1>8. CASE Threshold!EndPlayback
  <2>1. Threshold!Asked /\ win' = [win EXCEPT !.play = FALSE]
    BY <1>8 DEF Threshold!EndPlayback
  <2>2. Well([win EXCEPT !.play = FALSE])
    BY <1>1, PlaySet
  <2> QED
    BY <1>4, <2>1, <2>2
<1>9. ASSUME NEW t \in {<< >>, << << 0 >> >>}, Threshold!adoptText(t)
      PROVE  ThresholdInv' /\ (buttons' = buttons /\ (win.open => win'.open) => Keeps(win, win'))
  <2>1. Threshold!Asked /\ win' = [Threshold!resetTiming(win) EXCEPT !.text = t]
    BY <1>9 DEF Threshold!adoptText
  <2>2. TextOK(t, win.next) /\ t \in Seq(Seq(Nat))
    <3>1. CASE t = << >>
      BY <1>1, <3>1, NoText, EmptySeq
    <3>2. CASE t = << << 0 >> >>
      BY <1>1, <3>2, OldText
    <3> QED
      BY <3>1, <3>2
  <2>3. Well([Threshold!resetTiming(win) EXCEPT !.text = t])
    BY <1>1, <2>2, ResetIs
  <2> QED
    BY <1>4, <2>1, <2>3
<1>10. ASSUME NEW auto \in BOOLEAN, NEW unit \in Units, Threshold!SetSpeed(auto, unit)
       PROVE  ThresholdInv' /\ (buttons' = buttons /\ (win.open => win'.open) => Keeps(win, win'))
  <2> DEFINE v == [win EXCEPT !.auto = auto, !.slider = unit, !.unit = IF auto THEN @ ELSE unit,
                              !.calibrated = @ \/ ~auto]
  <2>1. Threshold!Asked /\ win' = v
    BY <1>10 DEF Threshold!SetSpeed
  <2>2. Well(v)
    BY <1>1, SpeedSet
  <2> HIDE DEF v
  <2> QED
    BY <1>4, <2>1, <2>2
<1> QED
  BY <1>3, <1>5, <1>6, <1>7, <1>8, <1>9, <1>10 DEF Threshold!Next

LEMMA ThresholdTyped ==
  ASSUME ThresholdInv
  PROVE  Threshold!TypeOK
<1>1. IsWin(win) /\ Clocks(win) /\ CopyOK(win.marks, win.text, win.next, win.open) /\ Short(win)
  BY DEF ThresholdInv, Well, Good
<1>2. win.unit \in Units
  BY <1>1 DEF IsWin, WinFields
<1> QED
  BY <1>1, <1>2 DEF Threshold!TypeOK, ThresholdInv, Clocks, CopyOK, Short

LEMMA ThresholdOrdered ==
  ASSUME ThresholdInv
  PROVE  Threshold!MarksInOrder
<1> DEFINE s == Threshold!FlattenSeq(win.text)
           j == s \o win.marks
<1>1. CopyOK(win.marks, win.text, win.next, win.open) /\ win.text \in Seq(Seq(Nat)) /\ win.marks \in Seq(Nat)
  BY NextIsNat DEF ThresholdInv, Well, Good
<1>2. FlatFacts(win.text, s)
  <2>1. FlatFacts(win.text, Flat(win.text))
    BY <1>1, FlatIs
  <2>2. Threshold!FlattenSeq(win.text) = Flat(win.text)
    BY FlattensAreFlat
  <2> QED
    BY <2>1, <2>2
<1> HIDE DEF s
<1>3. Asc(win.marks) /\ Rising(win.text) /\ Under(win.text, win.marks) /\ NoTwoBlanks(win.text)
  BY <1>1 DEF CopyOK
<1>4. s \in Seq(Nat) /\ Asc(s) /\ \A m \in Nat : Holds(s, m) => m \in MarksOf(win.text)
  BY <1>2, <1>3 DEF FlatFacts
<1>5. Before(s, win.marks)
  <2> SUFFICES ASSUME NEW k \in 1 .. Len(s), NEW n \in 1 .. Len(win.marks), s[k] # 0, win.marks[n] # 0
               PROVE  s[k] < win.marks[n]
    BY DEF Before
  <2>1. s[k] \in Nat
    BY <1>4, ElementOfSeq
  <2>2. s[k] \in MarksOf(win.text)
    BY <1>4, <2>1 DEF Holds
  <2> QED
    BY <1>3, <2>2 DEF Under
<1>6. Asc(j)
  BY <1>1, <1>3, <1>4, <1>5, AscJoined
<1> HIDE DEF j
<1>7. \A k, n \in 1 .. Len(j) : k < n /\ j[k] # 0 /\ j[n] # 0 => j[k] < j[n]
  BY <1>6 DEF Asc
<1>8. \A i \in 1 .. Len(win.text) - 1 : ~(win.text[i] = Threshold!Space /\ win.text[i + 1] = Threshold!Space)
  BY <1>3 DEF NoTwoBlanks, Blank, Threshold!Space
<1> QED
  BY <1>7, <1>8 DEF Threshold!MarksInOrder, j, s

LEMMA ThresholdLost ==
  ASSUME ThresholdInv, ThresholdInv', Keeps(win, win')
  PROVE  Threshold!Lost(win') \subseteq Threshold!Lost(win)
<1>1. /\ win.text \in Seq(Seq(Nat)) /\ win.marks \in Seq(Nat) /\ win.next \in Nat
      /\ win'.text \in Seq(Seq(Nat)) /\ win'.marks \in Seq(Nat) /\ win'.next \in Nat
  <2>1. IsWin(win) /\ IsWin(win')
    BY DEF ThresholdInv, Well, Good
  <2> QED
    BY <2>1, NextIsNat
<1>2. ASSUME NEW w, w.text \in Seq(Seq(Nat)), w.marks \in Seq(Nat), NEW m \in Nat
      PROVE  m \in Threshold!Marks(w.text) \cup Threshold!ToSet(w.marks) \cup w.out <=> m \in MarksKept(w)
  <2>1. Threshold!Marks(w.text) = MarksOf(w.text)
    BY <1>2, MarksAre
  <2>2. DOMAIN w.marks = 1 .. Len(w.marks)
    BY <1>2
  <2>3. m \in Threshold!ToSet(w.marks) <=> m \in Ids(w.marks)
    BY <2>2 DEF Threshold!ToSet, Ids, Holds
  <2> QED
    BY <2>1, <2>3 DEF MarksKept
<1>3. MarksKept(win) \subseteq MarksKept(win') /\ \A m \in Nat : win.next <= m /\ m < win'.next => m \in MarksKept(win')
  BY DEF Keeps
<1>4. ASSUME NEW m \in Threshold!Lost(win') PROVE m \in Threshold!Lost(win)
  <2>1. m \in 1 .. win'.next - 1 /\ m \in Nat
    BY DEF Threshold!Lost
  <2>2. m \notin Threshold!Marks(win'.text) \cup Threshold!ToSet(win'.marks) \cup win'.out
    BY DEF Threshold!Lost
  <2>3. m \notin MarksKept(win')
    BY <1>1, <1>2, <2>1, <2>2
  <2>4. m \notin MarksKept(win) /\ ~(win.next <= m)
    BY <1>1, <1>3, <2>1, <2>3
  <2>5. m \notin Threshold!Marks(win.text) \cup Threshold!ToSet(win.marks) \cup win.out
    BY <1>1, <1>2, <2>1, <2>4
  <2>6. m \in 1 .. win.next - 1
    BY <1>1, <2>1, <2>4
  <2> QED
    BY <2>5, <2>6 DEF Threshold!Lost
<1> QED
  BY <1>4

LEMMA MaskConstants ==
  /\ Units \subseteq Nat \ {0} /\ IsFiniteSet(Units) /\ SeedWidth \in Units
  /\ {MaskElement, MaskLetter, MaskWord, LongPulse, MinPulse, MaxPending,
      kMaxScrollChars, WordDits, MaxMarks, LongMask, MaxButtons} \subseteq Nat
  /\ MaskElement <= MaskLetter /\ kMaxScrollChars \in Nat \ {0}
<1>1. Mask!MaskAssumption
  BY WindowsAssumption
<1>2. IsFiniteSet(Units)
  BY <1>1 DEF Mask!MaskAssumption, Mask!IsFiniteSet, IsFiniteSet
<1> QED
  BY <1>1, <1>2 DEF Mask!MaskAssumption

LEMMA Times ==
  ASSUME NEW a \in Nat, NEW b \in Nat, NEW u \in Nat, u <= b
  PROVE  a * u \in Nat /\ a * b \in Nat /\ a * u <= a * b
<1> DEFINE d == b - u
<1>1. d \in Nat /\ b = u + d
  OBVIOUS
<1> HIDE DEF d
<1>2. a * d \in Nat /\ a * u \in Nat /\ a * (u + d) = a * u + a * d
  BY <1>1
<1> QED
  BY <1>1, <1>2

LEMMA MaskCap == Mask!Cap \in Nat /\ LongMask + 1 <= Mask!Cap
<1> DEFINE D == {WordDits * u : u \in Units}
           T == D \cup {MaskWord, LongMask}
<1>1. PICK b \in Nat : Units \subseteq 0 .. b
  <2>1. Units \in SUBSET Nat /\ IsFiniteSet(Units)
    BY MaskConstants
  <2> QED
    BY <2>1, Bounded
<1>2. WordDits \in Nat /\ MaskWord \in Nat /\ LongMask \in Nat
  BY MaskConstants
<1> DEFINE k == WordDits * b
           n == k + MaskWord + LongMask
<1>3. \A u \in Units : WordDits * u \in Nat /\ k \in Nat /\ WordDits * u <= k
  <2>1. \A u \in Units : u \in Nat /\ u <= b
    BY <1>1
  <2> QED
    BY <1>2, <2>1, Times
<1>4. k \in Nat
  BY <1>2
<1> HIDE DEF k
<1>5. n \in Nat /\ T \in SUBSET (0 .. n) /\ LongMask \in T
  <2>1. D \subseteq 0 .. n
    <3>1. \A d \in D : d \in Nat /\ d <= k
      BY <1>3
    <3> HIDE DEF D
    <3> QED
      BY <1>2, <1>4, <3>1
  <2>2. MaskWord \in 0 .. n /\ LongMask \in 0 .. n /\ n \in Nat
    BY <1>2, <1>4
  <2> HIDE DEF D, n
  <2> QED
    BY <2>1, <2>2
<1> HIDE DEF n
<1>6. Mask!Cap = Mask!Max(T) + 1
  BY DEF Mask!Cap
<1> HIDE DEF T
<1>7. T # {}
  BY <1>5
<1>8. Threshold!Max(T) \in T /\ (\A x \in T : x <= Threshold!Max(T)) /\ Mask!Max(T) = Threshold!Max(T)
  BY <1>5, <1>7, GreatestOf
<1>9. Mask!Max(T) \in Nat /\ LongMask <= Mask!Max(T)
  <2> DEFINE top == Threshold!Max(T)
  <2>1. top \in T /\ (\A x \in T : x <= top) /\ Mask!Max(T) = top
    BY <1>8
  <2> HIDE DEF top
  <2>2. top \in 0 .. n /\ LongMask <= top
    BY <1>5, <2>1
  <2> QED
    BY <1>5, <2>1, <2>2
<1> QED
  BY <1>2, <1>6, <1>9

LEMMA LetterSureIs ==
  /\ Mask!LetterSure \in Nat /\ MaskLetter <= Mask!LetterSure
  /\ \A u \in Units : 26 * u <= 10 * Mask!LetterSure
<1> DEFINE D == {(26 * u + 9) \div 10 : u \in Units}
           T == D \cup {MaskLetter}
<1>1. PICK b \in Nat : Units \subseteq 0 .. b
  <2>1. Units \in SUBSET Nat /\ IsFiniteSet(Units)
    BY MaskConstants
  <2> QED
    BY <2>1, Bounded
<1>2. MaskLetter \in Nat
  BY MaskConstants
<1> DEFINE n == 26 * b + 9 + MaskLetter
<1>3. \A u \in Units : u \in Nat /\ u <= b
  BY <1>1
<1>4. ASSUME NEW u \in Nat, u <= b
      PROVE  (26 * u + 9) \div 10 \in 0 .. n /\ 26 * u <= 10 * ((26 * u + 9) \div 10)
  BY <1>2, <1>4
<1>5. T \in SUBSET (0 .. n) /\ MaskLetter \in T /\ n \in Nat
  <2>1. \A u \in Units : (26 * u + 9) \div 10 \in 0 .. n
    BY <1>3, <1>4
  <2>2. D \subseteq 0 .. n
    BY <2>1
  <2>3. MaskLetter \in 0 .. n /\ n \in Nat
    BY <1>2
  <2> HIDE DEF D, n
  <2> QED
    BY <2>2, <2>3
<1>6. Mask!LetterSure = Mask!Max(T)
  BY DEF Mask!LetterSure
<1>7. \A u \in Units : (26 * u + 9) \div 10 \in T
  OBVIOUS
<1> HIDE DEF T, n
<1>8. T # {}
  BY <1>5
<1>9. Threshold!Max(T) \in T /\ (\A x \in T : x <= Threshold!Max(T)) /\ Mask!Max(T) = Threshold!Max(T)
  BY <1>5, <1>8, GreatestOf
<1>10. Mask!LetterSure \in Nat /\ \A x \in T : x \in Nat /\ x <= Mask!LetterSure
  <2> DEFINE top == Threshold!Max(T)
  <2>1. top \in T /\ (\A x \in T : x <= top) /\ Mask!LetterSure = top
    BY <1>6, <1>9
  <2> HIDE DEF top
  <2>2. top \in 0 .. n
    BY <1>5, <2>1
  <2>3. \A x \in T : x \in Nat
    BY <1>5
  <2> QED
    BY <1>5, <2>1, <2>2, <2>3
<1>11. ASSUME NEW u \in Units PROVE 26 * u <= 10 * Mask!LetterSure
  <2> DEFINE d == (26 * u + 9) \div 10
             s == 26 * u
  <2>1. d \in T /\ s <= 10 * d /\ s \in Nat
    BY <1>3, <1>4, <1>7
  <2> HIDE DEF d, s
  <2>2. s <= 10 * Mask!LetterSure
    BY <1>10, <2>1
  <2> QED
    BY <2>2 DEF s
<1> QED
  BY <1>5, <1>10, <1>11

-------------------------------------------------------------------------------
(* The mask window.                                                          *)
MaskFields(LM, LT, w) ==
    w \in [has : BOOLEAN, high : BOOLEAN, run : Int, since : Int, valley : Int, peak : BOOLEAN,
           pending : LM, gaps : Int, digits : Int, unit : Units, slider : Units,
           calibrated : BOOLEAN, autoWpm : BOOLEAN, autoWidth : BOOLEAN, text : LT,
           next : Nat, out : {w.out}, first : {w.first}, apart : BOOLEAN]

IsMask(w) == MaskFields(Seq(Nat), Seq(Seq(Nat)), w)

MaskClocks(w) ==
    /\ w.run \in 0 .. Mask!Cap /\ w.since \in -1 .. Mask!Cap /\ w.valley \in -1 .. Mask!Cap
    /\ w.gaps \in 0 .. 2 /\ w.digits \in 0 .. 2
    /\ w.valley >= 0 => w.high /\ w.valley <= w.run

\* No element behind another of its letter came after a letter gap.
Together(l, first) == \A i \in 2 .. Len(l) : l[i] \notin first

\* What is true of the elements and the text of a window.
ElementsOK(pending, text, next, first) ==
    /\ next # 0 /\ Asc(pending) /\ Rising(text) /\ Under(text, pending)
    /\ \A k \in 1 .. Len(pending) : pending[k] # 0 /\ pending[k] < next
    /\ \A m \in MarksOf(text) : m < next
    /\ Len(text) <= kMaxScrollChars /\ Len(pending) <= MaxPending
    /\ \A m \in first : m \in Nat /\ m # 0 /\ m < next
    /\ Together(pending, first) /\ \A i \in 1 .. Len(text) : Together(text[i], first)

MaskGood(w) == IsMask(w) /\ MaskClocks(w) /\ ElementsOK(w.pending, w.text, w.next, w.first)

MaskKept(w) == MarksOf(w.text) \cup Ids(w.pending) \cup w.out

MaskKeeps(w, v) == /\ MaskKept(w) \subseteq MaskKept(v) /\ w.next <= v.next
                   /\ \A m \in Nat : w.next <= m /\ m < v.next => m \in MaskKept(v)

MaskGoes(w, v) == MaskGood(v) /\ MaskKeeps(w, v)

\* Only clocks and flags, and what is known of the dit, are another.
MaskTicks(w, v) == /\ IsMask(v) /\ MaskClocks(v) /\ v.pending = w.pending /\ v.text = w.text
                   /\ v.next = w.next /\ v.out = w.out /\ v.first = w.first

LEMMA MaskTypes ==
  ASSUME NEW w, IsMask(w)
  PROVE  /\ w.next \in Nat /\ w.pending \in Seq(Nat) /\ w.text \in Seq(Seq(Nat))
         /\ w.unit \in Units /\ w.high \in BOOLEAN /\ w.has \in BOOLEAN /\ w.apart \in BOOLEAN
         /\ w.since \in Int /\ w.run \in Int /\ w.valley \in Int
BY DEF IsMask, MaskFields

LEMMA MaskTicksGo ==
  ASSUME NEW w, MaskGood(w), NEW v, MaskTicks(w, v)
  PROVE  MaskGoes(w, v)
<1>1. w.next \in Nat
  BY MaskTypes DEF MaskGood
<1>2. /\ v.pending = w.pending /\ v.text = w.text /\ v.next = w.next /\ v.out = w.out
      /\ v.first = w.first /\ IsMask(v) /\ MaskClocks(v)
  BY DEF MaskTicks
<1>3. ElementsOK(v.pending, v.text, v.next, v.first)
  BY <1>2 DEF MaskGood
<1>4. MaskKept(v) = MaskKept(w)
  BY <1>2 DEF MaskKept
<1>5. MaskKeeps(w, v)
  BY <1>1, <1>2, <1>4 DEF MaskKeeps
<1> QED
  BY <1>2, <1>3, <1>5 DEF MaskGoes, MaskGood

LEMMA MaskGoesOn ==
  ASSUME NEW w, NEW v, NEW u, MaskGood(w), MaskGoes(w, v), MaskGoes(v, u)
  PROVE  MaskGoes(w, u)
<1>1. MaskGood(v) /\ MaskGood(u) /\ MaskKeeps(w, v) /\ MaskKeeps(v, u)
  BY DEF MaskGoes
<1>2. w.next \in Nat /\ v.next \in Nat /\ u.next \in Nat
  BY <1>1, MaskTypes DEF MaskGood
<1>3. MaskKept(w) \subseteq MaskKept(v) /\ MaskKept(v) \subseteq MaskKept(u)
      /\ w.next <= v.next /\ v.next <= u.next
  BY <1>1 DEF MaskKeeps
<1>4. ASSUME NEW m \in Nat, w.next <= m, m < u.next PROVE m \in MaskKept(u)
  <2>1. CASE m < v.next
    BY <1>1, <1>3, <1>4, <2>1 DEF MaskKeeps
  <2>2. CASE ~(m < v.next)
    <3>1. v.next <= m
      BY <1>2, <2>2
    <3> QED
      BY <1>1, <1>4, <3>1 DEF MaskKeeps
  <2> QED
    BY <2>1, <2>2
<1>5. MaskKeeps(w, u)
  BY <1>2, <1>3, <1>4 DEF MaskKeeps
<1> QED
  BY <1>1, <1>5 DEF MaskGoes

LEMMA MaskStays ==
  ASSUME NEW w, MaskGood(w)
  PROVE  MaskGoes(w, w)
<1>1. MaskTicks(w, w)
  BY DEF MaskTicks, MaskGood
<1> QED
  BY <1>1, MaskTicksGo

-------------------------------------------------------------------------------
(* The mask window: text.                                                    *)
LEMMA MaskTrims ==
  ASSUME NEW t \in Seq(Seq(Nat))
  PROVE  /\ SuffixOf(Mask!trimScrollBuffer(t), t)
         /\ Len(Mask!trimScrollBuffer(t)) <= kMaxScrollChars
<1> DEFINE s == Mask!trimScrollBuffer(t)
           n == Len(t)
           q == (3 * kMaxScrollChars) \div 4
           k == n - q + 1
<1>1. n \in Nat /\ kMaxScrollChars \in Nat
  BY MaskConstants
<1>2. q \in Nat /\ q <= kMaxScrollChars
  BY <1>1
<1> HIDE DEF q
<1>3. CASE n <= kMaxScrollChars
  <2>1. s = t
    BY <1>3 DEF Mask!trimScrollBuffer
  <2> QED
    BY <1>3, <2>1 DEF SuffixOf
<1>4. CASE ~(n <= kMaxScrollChars)
  <2>1. s = SubSeq(t, k, n)
    BY <1>4 DEF Mask!trimScrollBuffer, q
  <2>2. k \in 1 .. n + 1 /\ n - k + 1 <= kMaxScrollChars
    <3> HIDE DEF n
    <3> QED
      BY <1>1, <1>2, <1>4
  <2> HIDE DEF k
  <2>3. SuffixOf(SubSeq(t, k, Len(t)), t) /\ Len(SubSeq(t, k, Len(t))) = Len(t) - k + 1
    BY <2>2, SuffixIs
  <2> QED
    BY <2>1, <2>2, <2>3
<1> QED
  BY <1>3, <1>4

\* What neither the text nor a letter that is completed changes.
Still(w, v) ==
    /\ v.has = w.has /\ v.high = w.high /\ v.run = w.run /\ v.since = w.since
    /\ v.valley = w.valley /\ v.unit = w.unit /\ v.calibrated = w.calibrated
    /\ v.next = w.next /\ v.first = w.first /\ v.apart = w.apart

\* v is w with char behind its text.
WithChar(w, char, v) ==
    /\ IsMask(v) /\ Still(w, v) /\ v.pending = w.pending /\ v.gaps = w.gaps /\ v.digits \in 0 .. 2
    /\ Rising(v.text) /\ Len(v.text) <= kMaxScrollChars
    /\ \A m \in MarksOf(v.text) : m \in MarksOf(w.text) \/ m \in Ids(char)
    /\ MarksOf(w.text) \cup Ids(char) \cup w.out \subseteq MarksOf(v.text) \cup v.out
    /\ \A i \in 1 .. Len(v.text) : Together(v.text[i], w.first)

CharFits(w, char) ==
    /\ IsMask(w) /\ w.digits \in 0 .. 2 /\ char \in Seq(Nat) /\ Asc(char) /\ Rising(w.text)
    /\ Under(w.text, char) /\ Together(char, w.first)
    /\ \A i \in 1 .. Len(w.text) : Together(w.text[i], w.first)

CharSet(w, text, out, digits, v) == v = [w EXCEPT !.text = text, !.out = out, !.digits = digits]

LEMMA CharIs ==
  ASSUME NEW w, NEW char, CharFits(w, char), NEW kind
  PROVE  WithChar(w, char, Mask!appendChar(w, char, kind))
<1> DEFINE LM == Seq(Nat)
           LT == Seq(Seq(Nat))
           j == w.text \o << char >>
           t == Mask!trimScrollBuffer(j)
           out == w.out \cup (Mask!Elements(j) \ Mask!Elements(t))
           digits == CASE kind = "5" -> 2 [] kind \in {" ", "?"} -> 0 [] OTHER -> w.digits
           v == Mask!appendChar(w, char, kind)
<1>1. /\ IsMask(w) /\ w.digits \in 0 .. 2 /\ char \in Seq(Nat) /\ Asc(char) /\ Rising(w.text)
      /\ Under(w.text, char) /\ Together(char, w.first) /\ w.text \in Seq(Seq(Nat))
      /\ \A i \in 1 .. Len(w.text) : Together(w.text[i], w.first)
  BY MaskTypes DEF CharFits
<1>2. /\ j \in Seq(Seq(Nat)) /\ Rising(j)
      /\ \A m \in Nat : m \in MarksOf(j) <=> m \in MarksOf(w.text) \/ Holds(char, m)
  BY <1>1, LetterJoined
<1>3. Append(w.text, char) = j
  BY <1>1, AppendJoins
<1>4. CharSet(w, t, out, digits, v)
  <2> HIDE DEF j
  <2> QED
    BY <1>3 DEF Mask!appendChar, CharSet
<1>5. \A i \in 1 .. Len(j) : Together(j[i], w.first)
  <2> DEFINE u == << char >>
  <2>1. u \in Seq(Seq(Nat)) /\ Len(u) = 1 /\ u[1] = char
    BY <1>1, OneLetter
  <2>2. Parts(w.text \o u, w.text, u)
    <3> HIDE DEF u
    <3> QED
      BY <1>1, <2>1, PartsOf
  <2>3. Parts(j, w.text, u)
    BY <2>2
  <2> HIDE DEF j, u
  <2>4. \A i \in 1 .. Len(j) : \/ i \in 1 .. Len(w.text) /\ j[i] = w.text[i]
                               \/ i - Len(w.text) \in 1 .. 1 /\ j[i] = u[i - Len(w.text)]
    BY <2>1, <2>3 DEF Parts, PartsAt
  <2>5. \A k \in 1 .. 1 : k = 1
    OBVIOUS
  <2> QED
    BY <1>1, <2>1, <2>4, <2>5
<1>6. SuffixOf(t, j) /\ Len(t) <= kMaxScrollChars
  <2> HIDE DEF j
  <2> QED
    BY <1>2, MaskTrims
<1> HIDE DEF j, t
<1>7. /\ t \in Seq(Seq(Nat)) /\ Rising(t) /\ MarksOf(t) \subseteq MarksOf(j)
      /\ \A i \in 1 .. Len(t) : \E k \in 1 .. Len(j) : t[i] = j[k]
  BY <1>2, <1>6 DEF SuffixOf
<1>8. Mask!Elements(j) = MarksOf(j) /\ Mask!Elements(t) = MarksOf(t)
  BY <1>2, <1>7, MarksAre
<1>9. MarksOf(j) \cup w.out \subseteq MarksOf(t) \cup out
  BY <1>8
<1>10. digits \in 0 .. 2
  <2> DEFINE d == w.digits
  <2>1. d \in 0 .. 2 /\ 2 \in 0 .. 2 /\ 0 \in 0 .. 2
    BY <1>1
  <2>2. digits = CASE kind = "5" -> 2 [] kind \in {" ", "?"} -> 0 [] OTHER -> d
    OBVIOUS
  <2> HIDE DEF d, digits
  <2>3. CASE kind = "5"
    <3>1. digits = 2
      BY <2>2, <2>3
    <3> QED
      BY <2>1, <3>1
  <2>4. CASE kind \in {" ", "?"}
    <3>1. kind # "5"
      BY <2>4
    <3>2. digits = 0
      BY <2>2, <2>4, <3>1
    <3> QED
      BY <2>1, <3>2
  <2>5. CASE kind # "5" /\ kind \notin {" ", "?"}
    <3>1. digits = d
      BY <2>2, <2>5
    <3> QED
      BY <2>1, <3>1
  <2> QED
    BY <2>3, <2>4, <2>5
<1> HIDE DEF out, digits, v
<1>11. /\ IsMask(v) /\ Still(w, v) /\ v.pending = w.pending /\ v.gaps = w.gaps /\ v.digits = digits
       /\ v.text = t /\ v.out = out
  <2>1. MaskFields(LM, LT, w) /\ t \in LT /\ digits \in Int
    BY <1>1, <1>7, <1>10 DEF IsMask
  <2> HIDE DEF LM, LT
  <2>2. /\ MaskFields(LM, LT, v) /\ v.pending = w.pending /\ v.gaps = w.gaps /\ v.digits = digits
        /\ v.text = t /\ v.out = out
    BY <1>4, <2>1 DEF MaskFields, CharSet
  <2>3. Still(w, v)
    BY <1>4, <2>1 DEF MaskFields, CharSet, Still
  <2> QED
    BY <2>2, <2>3 DEF IsMask, LM, LT
<1>12. \A i \in 1 .. Len(t) : Together(t[i], w.first)
  BY <1>5, <1>7
<1>13. \A m \in MarksOf(t) : m \in MarksOf(w.text) \/ m \in Ids(char)
  <2>1. \A m \in MarksOf(t) : m \in Nat
    BY DEF MarksOf
  <2> QED
    BY <1>2, <1>7, <2>1 DEF Ids
<1>14. MarksOf(w.text) \cup Ids(char) \subseteq MarksOf(j)
  <2>1. \A m \in MarksOf(w.text) : m \in Nat
    BY DEF MarksOf
  <2> QED
    BY <1>2, <2>1 DEF Ids
<1>15. WithChar(w, char, v)
  BY <1>6, <1>7, <1>9, <1>10, <1>11, <1>12, <1>13, <1>14 DEF WithChar
<1> QED
  BY <1>15 DEF v

\* What a completed letter or a gap changes.
Gapped(w, v) == MaskGoes(w, v) /\ Still(w, v) /\ (v.pending = w.pending \/ v.pending = << >>)

LEMMA GappedOn ==
  ASSUME NEW w, NEW v, NEW u, MaskGood(w), Gapped(w, v), Gapped(v, u)
  PROVE  Gapped(w, u)
<1>1. MaskGoes(w, u)
  BY MaskGoesOn DEF Gapped
<1>2. Still(w, u)
  BY DEF Gapped, Still
<1>3. u.pending = w.pending \/ u.pending = << >>
  BY DEF Gapped
<1> QED
  BY <1>1, <1>2, <1>3 DEF Gapped

LEMMA StaysGapped ==
  ASSUME NEW w, MaskGood(w)
  PROVE  Gapped(w, w)
BY MaskStays DEF Gapped, Still

\* The pending elements are a letter.
LEMMA LetterGoes ==
  ASSUME NEW w, MaskGood(w), NEW kind
  PROVE  /\ Gapped(w, [Mask!appendChar(w, w.pending, kind) EXCEPT !.pending = << >>])
         /\ [Mask!appendChar(w, w.pending, kind) EXCEPT !.pending = << >>].pending = << >>
<1> DEFINE a == Mask!appendChar(w, w.pending, kind)
           none == << >>
           v == [a EXCEPT !.pending = none]
           LM == Seq(Nat)
           LT == Seq(Seq(Nat))
<1>1. /\ IsMask(w) /\ MaskClocks(w) /\ w.pending \in Seq(Nat) /\ w.next \in Nat
      /\ ElementsOK(w.pending, w.text, w.next, w.first)
  BY MaskTypes DEF MaskGood
<1>2. /\ w.next # 0 /\ Asc(w.pending) /\ Rising(w.text) /\ Under(w.text, w.pending)
      /\ \A k \in 1 .. Len(w.pending) : w.pending[k] # 0 /\ w.pending[k] < w.next
      /\ \A m \in MarksOf(w.text) : m < w.next
      /\ \A m \in w.first : m \in Nat /\ m # 0 /\ m < w.next
      /\ Together(w.pending, w.first) /\ \A i \in 1 .. Len(w.text) : Together(w.text[i], w.first)
  BY <1>1 DEF ElementsOK
<1>3. CharFits(w, w.pending)
  BY <1>1, <1>2 DEF CharFits, MaskClocks
<1>4. WithChar(w, w.pending, a)
  BY <1>3, CharIs
<1> HIDE DEF a
<1>5. none \in LM /\ Len(none) = 0
  BY EmptySeq
<1> HIDE DEF none, LM, LT
<1>6. IsMask(a) /\ Still(w, a) /\ a.gaps = w.gaps /\ a.digits \in 0 .. 2
  BY <1>4 DEF WithChar
<1>7. MaskFields(LM, LT, a)
  BY <1>6 DEF IsMask, LM, LT
<1>8. /\ MaskFields(LM, LT, v) /\ v.pending = none /\ v.gaps = a.gaps /\ v.digits = a.digits
      /\ v.text = a.text /\ v.out = a.out
  BY <1>5, <1>7 DEF MaskFields
<1>9. Still(a, v)
  BY <1>5, <1>7 DEF MaskFields, Still
<1> HIDE DEF v
<1>10. Still(w, v)
  BY <1>6, <1>9 DEF Still
<1>11. MaskClocks(v)
  BY <1>1, <1>6, <1>8, <1>10 DEF MaskClocks, Still
<1>12. v.next = w.next /\ v.first = w.first
  BY <1>10 DEF Still
<1>13. ElementsOK(v.pending, v.text, v.next, v.first)
  <2>1. Asc(none) /\ Under(v.text, none)
    BY <1>5 DEF Asc, Under
  <2>2. \A k : k \notin 1 .. Len(none) /\ k \notin 2 .. Len(none)
    BY <1>5
  <2>3. Together(none, w.first)
    BY <2>2 DEF Together
  <2>4. Len(none) <= MaxPending
    BY <1>5, MaskConstants
  <2>5. Rising(v.text) /\ Len(v.text) <= kMaxScrollChars
        /\ \A i \in 1 .. Len(v.text) : Together(v.text[i], w.first)
    BY <1>4, <1>8 DEF WithChar
  <2>6. \A m \in MarksOf(v.text) : m < w.next
    <3>1. \A m \in Ids(w.pending) : m < w.next
      BY <1>2 DEF Ids, Holds
    <3>2. \A m \in MarksOf(v.text) : m \in MarksOf(w.text) \/ m \in Ids(w.pending)
      BY <1>4, <1>8 DEF WithChar
    <3> QED
      BY <1>2, <3>1, <3>2
  <2> QED
    BY <1>2, <1>8, <1>12, <2>1, <2>2, <2>3, <2>4, <2>5, <2>6 DEF ElementsOK
<1>14. MaskKept(w) \subseteq MaskKept(v)
  BY <1>4, <1>8 DEF WithChar, MaskKept
<1>15. MaskKeeps(w, v)
  BY <1>1, <1>12, <1>14 DEF MaskKeeps
<1>16. IsMask(v)
  BY <1>8 DEF IsMask, LM, LT
<1>17. Gapped(w, v) /\ v.pending = << >>
  BY <1>8, <1>10, <1>11, <1>13, <1>15, <1>16 DEF Gapped, MaskGoes, MaskGood, none
<1> QED
  BY <1>17 DEF v, a, none

\* A space behind the text.
LEMMA BlankGoes ==
  ASSUME NEW w, MaskGood(w)
  PROVE  Gapped(w, Mask!appendChar(w, Mask!Space, " "))
<1> DEFINE b == Blank
           v == Mask!appendChar(w, Mask!Space, " ")
<1>1. v = Mask!appendChar(w, b, " ")
  BY DEF Mask!Space, Blank
<1>2. b \in Seq(Nat) /\ Asc(b) /\ (\A m : ~Holds(b, m)) /\ Under(w.text, b) /\ Together(b, w.first)
  <2>1. \A i : i \notin 2 .. 0
    OBVIOUS
  <2> QED
    BY <2>1, BlankIs, EmptySeq DEF Under, Blank, Together
<1>3. /\ IsMask(w) /\ MaskClocks(w) /\ w.next \in Nat
      /\ ElementsOK(w.pending, w.text, w.next, w.first)
  BY MaskTypes DEF MaskGood
<1> HIDE DEF b, v
<1>4. CharFits(w, b)
  BY <1>2, <1>3 DEF CharFits, MaskClocks, ElementsOK
<1>5. WithChar(w, b, v)
  <2>1. WithChar(w, b, Mask!appendChar(w, b, " "))
    BY <1>4, CharIs
  <2> QED
    BY <1>1, <2>1
<1>6. Ids(b) = {}
  BY <1>2 DEF Ids
<1>7. /\ IsMask(v) /\ Still(w, v) /\ v.pending = w.pending /\ v.gaps = w.gaps /\ v.digits \in 0 .. 2
      /\ Rising(v.text) /\ Len(v.text) <= kMaxScrollChars
      /\ MarksOf(v.text) \subseteq MarksOf(w.text)
      /\ MarksOf(w.text) \cup w.out \subseteq MarksOf(v.text) \cup v.out
      /\ \A i \in 1 .. Len(v.text) : Together(v.text[i], w.first)
  BY <1>5, <1>6 DEF WithChar
<1>8. v.next = w.next /\ v.first = w.first
  BY <1>7 DEF Still
<1>9. MaskClocks(v)
  BY <1>3, <1>7 DEF MaskClocks, Still
<1>10. ElementsOK(v.pending, v.text, v.next, v.first)
  <2>1. Under(v.text, w.pending)
    BY <1>3, <1>7 DEF ElementsOK, Under
  <2> QED
    BY <1>3, <1>7, <1>8, <2>1 DEF ElementsOK
<1>11. MaskKept(w) \subseteq MaskKept(v)
  BY <1>7 DEF MaskKept
<1>12. MaskKeeps(w, v)
  BY <1>3, <1>8, <1>11 DEF MaskKeeps
<1>13. Gapped(w, v)
  BY <1>7, <1>9, <1>10, <1>12 DEF Gapped, MaskGoes, MaskGood
<1> QED
  BY <1>13 DEF v

\* The counters of digits and of letter gaps.
LEMMA CountGoes ==
  ASSUME NEW w, MaskGood(w), NEW gaps \in 0 .. 2, NEW digits \in 0 .. 2, NEW v,
         \/ v = [w EXCEPT !.digits = digits]
         \/ v = [w EXCEPT !.gaps = gaps, !.digits = digits]
  PROVE  Gapped(w, v)
<1> DEFINE LM == Seq(Nat)
           LT == Seq(Seq(Nat))
           D == 0 .. 2
<1>1. MaskFields(LM, LT, w) /\ MaskClocks(w) /\ gaps \in Int /\ digits \in Int
      /\ gaps \in D /\ digits \in D /\ w.gaps \in D
  BY DEF MaskGood, IsMask, MaskClocks
<1> HIDE DEF LM, LT, D
<1>2. /\ MaskFields(LM, LT, v) /\ v.pending = w.pending /\ v.text = w.text /\ v.out = w.out
      /\ v.digits \in D /\ v.gaps \in D
  BY <1>1 DEF MaskFields
<1>3. Still(w, v)
  BY <1>1 DEF MaskFields, Still
<1>4. MaskClocks(v)
  BY <1>1, <1>2, <1>3 DEF MaskClocks, Still, D
<1>5. MaskTicks(w, v)
  BY <1>2, <1>3, <1>4 DEF MaskTicks, Still, IsMask, LM, LT
<1> QED
  BY <1>2, <1>3, <1>5, MaskTicksGo DEF Gapped

LEMMA MaskSpaceGoes ==
  ASSUME NEW w, MaskGood(w)
  PROVE  Gapped(w, Mask!appendSpace(w))
<1> DEFINE b == Mask!appendChar(w, Mask!Space, " ")
           v == IF w.text = << >> \/ Mask!Last(w.text) = Mask!Space THEN w ELSE b
           e == [v EXCEPT !.digits = 0]
<1>1. Mask!appendSpace(w) = e
  BY DEF Mask!appendSpace
<1>2. Gapped(w, b)
  BY BlankGoes
<1> HIDE DEF b
<1>3. v \in {w, b}
  OBVIOUS
<1> HIDE DEF v
<1>4. Gapped(w, v)
  BY <1>2, <1>3, StaysGapped
<1>5. Gapped(v, e)
  <2>1. MaskGood(v)
    BY <1>4 DEF Gapped, MaskGoes
  <2>2. e = [v EXCEPT !.digits = 0] /\ 0 \in 0 .. 2
    OBVIOUS
  <2> HIDE DEF e
  <2> QED
    BY <2>1, <2>2, CountGoes
<1> HIDE DEF e
<1>6. Gapped(w, e)
  BY <1>4, <1>5, GappedOn
<1> QED
  BY <1>1, <1>6

LEMMA NoteGoes ==
  ASSUME NEW w, MaskGood(w)
  PROVE  Gapped(w, Mask!noteLetterGap(w))
<1> DEFINE g == w.gaps + 1
           d == w.digits - 1
           gaps == Mask!Min({g, 2})
           digits == Mask!Max({d, 0})
           v == Mask!noteLetterGap(w)
<1>1. v = [w EXCEPT !.gaps = gaps, !.digits = digits]
  BY DEF Mask!noteLetterGap
<1>2. g \in 1 .. 3 /\ d \in -1 .. 1
  BY DEF MaskGood, MaskClocks
<1> HIDE DEF g, d
<1>3. g \in Int /\ d \in Int /\ 2 \in Int /\ 0 \in Int
  BY <1>2
<1>30. gaps = (IF g <= 2 THEN g ELSE 2)
  BY <1>3, LesserOf
<1>31. digits = (IF d >= 0 THEN d ELSE 0)
  BY <1>3, GreaterOf
<1> HIDE DEF gaps, digits
<1>4. gaps \in 0 .. 2 /\ digits \in 0 .. 2
  BY <1>2, <1>30, <1>31
<1> HIDE DEF v
<1>5. Gapped(w, v)
  BY <1>1, <1>4, CountGoes
<1> QED
  BY <1>5 DEF v

LEMMA GapGoes ==
  ASSUME NEW w, MaskGood(w), NEW gap, NEW c
  PROVE  /\ Gapped(w, Mask!handleSpaceGap(w, gap, c))
         /\ Mask!handleSpaceGap(w, gap, c).pending # << >> => 10 * gap < Mask!elemMax(w)
<1> DEFINE v == [Mask!appendChar(w, w.pending, c.kind) EXCEPT !.pending = << >>]
           s == Mask!appendSpace(v)
           n == Mask!noteLetterGap(v)
           e == Mask!handleSpaceGap(w, gap, c)
           short == 10 * gap < Mask!elemMax(w)
<1>1. \/ e = w /\ (w.pending = << >> \/ short)
      \/ e \in {s, n}
  <2> HIDE DEF v, s, n, short
  <2> QED
    BY DEF Mask!handleSpaceGap, v, s, n, short
<1> SUFFICES Gapped(w, e) /\ (e.pending # << >> => short)
  OBVIOUS
<1> HIDE DEF e, short
<1>2. Gapped(w, v) /\ v.pending = << >>
  BY LetterGoes
<1> HIDE DEF v
<1>3. Gapped(v, s) /\ Gapped(v, n)
  <2>1. MaskGood(v)
    BY <1>2 DEF Gapped, MaskGoes
  <2> QED
    BY <2>1, MaskSpaceGoes, NoteGoes
<1> HIDE DEF s, n
<1>4. Gapped(w, s) /\ Gapped(w, n)
  BY <1>2, <1>3, GappedOn
<1>5. s.pending = << >> /\ n.pending = << >>
  BY <1>2, <1>3 DEF Gapped
<1>6. Gapped(w, w)
  BY StaysGapped
<1> QED
  BY <1>1, <1>4, <1>5, <1>6

LEMMA MaskFlushGoes ==
  ASSUME NEW w, MaskGood(w), NEW gap, NEW c
  PROVE  /\ Gapped(w, Mask!flushLetterIfNeeded(w, gap, c))
         /\ Mask!flushLetterIfNeeded(w, gap, c).pending # << >> =>
               \/ w.since < 0
               \/ 10 * gap < Mask!letterMin(w)
               \/ 10 * gap < Mask!elemMax(w)
<1> DEFINE h == Mask!handleSpaceGap(w, gap, c)
           e == Mask!flushLetterIfNeeded(w, gap, c)
           short == 10 * gap < Mask!elemMax(w)
           brief == 10 * gap < Mask!letterMin(w)
<1>1. \/ e = w /\ (w.pending = << >> \/ w.since < 0 \/ brief)
      \/ e = h
  <2> HIDE DEF h, brief
  <2> QED
    BY DEF Mask!flushLetterIfNeeded, h, brief
<1> SUFFICES Gapped(w, e) /\ (e.pending # << >> => w.since < 0 \/ brief \/ short)
  OBVIOUS
<1> HIDE DEF e, brief
<1>2. Gapped(w, h) /\ (h.pending # << >> => short)
  BY GapGoes
<1> HIDE DEF h, short
<1>3. Gapped(w, w)
  BY StaysGapped
<1> QED
  BY <1>1, <1>2, <1>3

\* What a pulse does not change.
Held(w, v) ==
    /\ v.has = w.has /\ v.high = w.high /\ v.run = w.run /\ v.since = w.since
    /\ v.valley = w.valley /\ v.unit = w.unit /\ v.calibrated = w.calibrated

\* A letter gap that was heard leaves no letter open.
Parted(w) == w.apart => w.pending = << >>

\* What the elements of a pulse change: v.next tells whether there were any.
Emits(w, v) == /\ MaskGoes(w, v) /\ Held(w, v) /\ Parted(v) /\ w.next <= v.next
               /\ v.next = w.next => v = w

ElementSet(w, pending, out, first, next, v) ==
    v = [w EXCEPT !.pending = pending, !.out = out, !.first = first, !.next = next, !.apart = FALSE]

LEMMA ElementEmits ==
  ASSUME NEW w, MaskGood(w), Parted(w)
  PROVE  Emits(w, Mask!emitElement(w)) /\ Mask!emitElement(w).next = w.next + 1
<1> DEFINE LM == Seq(Nat)
           LT == Seq(Seq(Nat))
           u == << w.next >>
           j == w.pending \o u
           none == << >>
           many == Len(j) > MaxPending
           p == IF many THEN none ELSE j
           out == IF many THEN w.out \cup Mask!ToSet(j) ELSE w.out
           first == IF w.apart THEN w.first \cup {w.next} ELSE w.first
           next == w.next + 1
           v == Mask!emitElement(w)
<1>1. /\ IsMask(w) /\ MaskClocks(w) /\ w.pending \in Seq(Nat) /\ w.next \in Nat /\ w.text \in Seq(Seq(Nat))
      /\ w.apart \in BOOLEAN /\ ElementsOK(w.pending, w.text, w.next, w.first)
  BY MaskTypes DEF MaskGood
<1>2. /\ w.next # 0 /\ Asc(w.pending) /\ Rising(w.text) /\ Under(w.text, w.pending)
      /\ \A k \in 1 .. Len(w.pending) : w.pending[k] # 0 /\ w.pending[k] < w.next
      /\ \A m \in MarksOf(w.text) : m < w.next
      /\ Len(w.text) <= kMaxScrollChars /\ Len(w.pending) <= MaxPending
      /\ \A m \in w.first : m \in Nat /\ m # 0 /\ m < w.next
      /\ Together(w.pending, w.first) /\ \A i \in 1 .. Len(w.text) : Together(w.text[i], w.first)
  BY <1>1 DEF ElementsOK
<1>3. Append(w.pending, w.next) = j
  BY <1>1, AppendJoins
<1>4. ElementSet(w, p, out, first, next, v)
  <2> HIDE DEF j
  <2> QED
    BY <1>3 DEF Mask!emitElement, ElementSet
<1>5. u \in Seq(Nat) /\ Len(u) = 1 /\ u[1] = w.next
  BY <1>1, OneLetter
<1>6. j \in Seq(Nat) /\ Len(j) = Len(w.pending) + 1
      /\ \A k \in 1 .. Len(j) : \/ k \in 1 .. Len(w.pending) /\ j[k] = w.pending[k]
                                \/ k = Len(w.pending) + 1 /\ j[k] = w.next
  <2> HIDE DEF u
  <2>1. Parts(w.pending \o u, w.pending, u)
    BY <1>1, <1>5, PartsOf
  <2>2. j \in Seq(Nat)
    BY <1>1, <1>5
  <2>3. Parts(j, w.pending, u)
    BY <2>1
  <2> HIDE DEF j
  <2>4. Len(j) = Len(w.pending) + 1
        /\ \A k \in 1 .. Len(j) : \/ k \in 1 .. Len(w.pending) /\ j[k] = w.pending[k]
                                  \/ k - Len(w.pending) \in 1 .. 1 /\ j[k] = u[k - Len(w.pending)]
    BY <1>5, <2>3 DEF Parts, PartsAt
  <2>5. Len(w.pending) \in Nat
    BY <1>1
  <2>6. ASSUME NEW k \in 1 .. Len(j), k - Len(w.pending) \in 1 .. 1, j[k] = u[k - Len(w.pending)]
        PROVE  k = Len(w.pending) + 1 /\ j[k] = w.next
    <3>1. k - Len(w.pending) = 1
      BY <2>6
    <3>2. j[k] = u[1]
      BY <2>6, <3>1
    <3> QED
      BY <1>5, <2>4, <2>5, <3>1, <3>2
  <2> QED
    BY <2>2, <2>4, <2>6
<1>7. Asc(j)
  <2>1. Asc(u) /\ Before(w.pending, u)
    BY <1>2, <1>5 DEF Asc, Before
  <2> HIDE DEF u
  <2> QED
    BY <1>1, <1>2, <1>5, <2>1, AscJoined
<1>8. \A k \in 1 .. Len(j) : j[k] # 0 /\ j[k] < next /\ (j[k] \in Nat)
  <2> SUFFICES ASSUME NEW k \in 1 .. Len(j) PROVE j[k] # 0 /\ j[k] < next /\ j[k] \in Nat
    OBVIOUS
  <2>1. j[k] \in Nat
    BY <1>6, ElementOfSeq
  <2>2. j[k] = w.next \/ (j[k] # 0 /\ j[k] < w.next)
    BY <1>2, <1>6
  <2> HIDE DEF j
  <2> QED
    BY <1>1, <1>2, <2>1, <2>2
<1>9. Under(w.text, j)
  <2> SUFFICES ASSUME NEW m \in MarksOf(w.text), NEW k \in 1 .. Len(j), m # 0, j[k] # 0 PROVE m < j[k]
    BY DEF Under
  <2>1. m < w.next
    BY <1>2
  <2>2. j[k] = w.next \/ (k \in 1 .. Len(w.pending) /\ j[k] = w.pending[k])
    BY <1>6
  <2> QED
    BY <1>2, <2>1, <2>2 DEF Under
<1>10. Mask!ToSet(j) = Ids(j)
  <2>1. DOMAIN j = 1 .. Len(j)
    BY <1>6
  <2>2. \A k \in 1 .. Len(j) : j[k] \in Nat
    BY <1>8
  <2> HIDE DEF j
  <2> QED
    BY <2>1, <2>2 DEF Mask!ToSet, Ids, Holds
<1>11. Ids(w.pending) \subseteq Ids(j) /\ w.next \in Ids(j)
  <2> HIDE DEF u
  <2>1. Parts(w.pending \o u, w.pending, u)
    BY <1>1, <1>5, PartsOf
  <2>2. Parts(j, w.pending, u)
    BY <2>1
  <2> HIDE DEF j
  <2>3. /\ \A i \in 1 .. Len(w.pending) : i \in 1 .. Len(j) /\ j[i] = w.pending[i]
        /\ \A i \in 1 .. 1 : Len(w.pending) + i \in 1 .. Len(j) /\ j[Len(w.pending) + i] = u[i]
    BY <1>5, <2>2 DEF Parts, PartsAt
  <2>4. Ids(w.pending) \subseteq Ids(j)
    BY <2>3 DEF Ids, Holds
  <2>5. Len(w.pending) + 1 \in 1 .. Len(j) /\ j[Len(w.pending) + 1] = w.next
    BY <1>5, <2>3
  <2> QED
    BY <1>1, <2>4, <2>5 DEF Ids, Holds
<1>12. none \in LM /\ Len(none) = 0
  BY EmptySeq
<1>13. j \in LM
  BY <1>6
<1> HIDE DEF j
<1>14. p \in LM /\ next \in Nat
  BY <1>1, <1>12, <1>13
<1>15. /\ Asc(none) /\ Under(w.text, none) /\ Together(none, first)
       /\ \A k : k \notin 1 .. Len(none)
  <2>1. \A k : k \notin 1 .. Len(none) /\ k \notin 2 .. Len(none)
    BY <1>12
  <2> QED
    BY <2>1 DEF Asc, Under, Together
<1>16. /\ \A m \in first : m \in Nat /\ m # 0 /\ m < next
       /\ \A i \in 1 .. Len(w.text) : Together(w.text[i], first)
  <2>1. ASSUME NEW m \in first PROVE m \in Nat /\ m # 0 /\ m < next
    <3>1. m \in w.first \/ m = w.next
      OBVIOUS
    <3> QED
      BY <1>1, <1>2, <3>1
  <2>2. ASSUME NEW i \in 1 .. Len(w.text) PROVE Together(w.text[i], first)
    <3> SUFFICES ASSUME NEW k \in 2 .. Len(w.text[i]) PROVE w.text[i][k] \notin first
      BY DEF Together
    <3>1. w.text[i][k] \notin w.first
      BY <1>2 DEF Together
    <3>2. w.text[i] \in Seq(Nat)
      BY <1>1, ElementOfSeq
    <3>3. k \in 1 .. Len(w.text[i])
      BY <3>2
    <3>4. w.text[i][k] \in Nat
      BY <3>2, <3>3, ElementOfSeq
    <3>5. w.text[i][k] \in MarksOf(w.text)
      BY <3>3, <3>4 DEF MarksOf, Holds
    <3>6. w.text[i][k] < w.next
      BY <1>2, <3>5
    <3>7. w.text[i][k] # w.next
      <4> DEFINE x == w.text[i][k]
                 y == w.next
      <4>1. x \in Nat /\ y \in Nat /\ x < y
        BY <1>1, <3>4, <3>6
      <4> HIDE DEF x, y
      <4>2. x # y
        BY <4>1
      <4> QED
        BY <4>2 DEF x, y
    <3> QED
      BY <3>1, <3>7
  <2> QED
    BY <2>1, <2>2
<1>17. Together(j, first)
  <2> SUFFICES ASSUME NEW k \in 2 .. Len(j) PROVE j[k] \notin first
    BY DEF Together
  <2>1. Len(w.pending) \in Nat /\ k \in 1 .. Len(j)
    BY <1>1, <1>6
  <2>2. CASE k \in 1 .. Len(w.pending) /\ j[k] = w.pending[k]
    <3>1. k \in 2 .. Len(w.pending)
      BY <2>1, <2>2
    <3>2. j[k] \notin w.first /\ j[k] < w.next /\ j[k] \in Nat
      BY <1>2, <1>8, <2>1, <2>2, <3>1 DEF Together
    <3>3. j[k] # w.next
      BY <1>1, <3>2
    <3> QED
      BY <3>2, <3>3
  <2>3. CASE k = Len(w.pending) + 1 /\ j[k] = w.next
    <3>1. Len(w.pending) # 0
      BY <2>1, <2>3
    <3>2. w.pending # << >>
      BY <3>1, EmptySeq
    <3>3. ~w.apart
      BY <3>2 DEF Parted
    <3>4. first = w.first
      BY <3>3
    <3>5. w.next \notin w.first
      BY <1>1, <1>2
    <3> QED
      BY <2>3, <3>4, <3>5
  <2> QED
    BY <1>6, <2>1, <2>2, <2>3
<1>18. ElementsOK(j, w.text, next, first) \/ many
  <2>1. many \/ Len(j) <= MaxPending
    <3>1. Len(j) \in Nat /\ MaxPending \in Nat
      BY <1>6, MaskConstants
    <3> QED
      BY <3>1
  <2>2. next # 0 /\ \A m \in MarksOf(w.text) : m < next
    <3>1. \A m \in MarksOf(w.text) : m \in Nat
      BY DEF MarksOf
    <3> QED
      BY <1>1, <1>2, <3>1
  <2> HIDE DEF many, next, first
  <2> QED
    BY <1>2, <1>7, <1>8, <1>9, <1>16, <1>17, <2>1, <2>2 DEF ElementsOK
<1>19. ElementsOK(none, w.text, next, first)
  <2>1. Len(none) <= MaxPending
    BY <1>12, MaskConstants
  <2>2. next # 0 /\ \A m \in MarksOf(w.text) : m < next
    <3>1. \A m \in MarksOf(w.text) : m \in Nat
      BY DEF MarksOf
    <3> QED
      BY <1>1, <1>2, <3>1
  <2> HIDE DEF many, next, first, none
  <2> QED
    BY <1>2, <1>15, <1>16, <2>1, <2>2 DEF ElementsOK
<1>20. ElementsOK(p, w.text, next, first)
  <2> HIDE DEF many, next, first, none
  <2> QED
    BY <1>18, <1>19
<1>21. Ids(j) \subseteq Ids(p) \cup out /\ w.out \subseteq out
  <2> HIDE DEF many, none
  <2> QED
    BY <1>10
<1> HIDE DEF many, none
<1>22. w.apart => first = w.first \cup {w.next}
  OBVIOUS
<1> HIDE DEF p, out, first, v, LM, LT, u
<1>23. MaskFields(LM, LT, w)
  BY <1>1 DEF IsMask, LM, LT
<1> DEFINE no == FALSE
<1>24. no \in BOOLEAN /\ no = FALSE
  OBVIOUS
<1>25. v = [w EXCEPT !.pending = p, !.out = out, !.first = first, !.next = next, !.apart = no]
  BY <1>4, <1>24 DEF ElementSet
<1>26. next \in Nat /\ p \in LM /\ next = w.next + 1
  BY <1>14
<1> HIDE DEF no, next
<1>27. /\ MaskFields(LM, LT, v) /\ v.pending = p /\ v.out = out /\ v.first = first /\ v.next = next /\ v.apart = no
       /\ v.text = w.text /\ v.gaps = w.gaps /\ v.digits = w.digits
  BY <1>23, <1>24, <1>25, <1>26 DEF MaskFields
<1>28. Held(w, v)
  BY <1>23, <1>24, <1>25, <1>26 DEF MaskFields, Held
<1>29. MaskClocks(v)
  BY <1>1, <1>27, <1>28 DEF MaskClocks, Held
<1>30. MaskGood(v)
  BY <1>20, <1>27, <1>29 DEF MaskGood, IsMask, LM, LT
<1>31. Ids(w.pending) \subseteq MaskKept(v) /\ w.next \in MaskKept(v) /\ MaskKept(w) \subseteq MaskKept(v)
  BY <1>11, <1>21, <1>27 DEF MaskKept
<1>32. MaskKeeps(w, v)
  <2>1. \A m \in Nat : w.next <= m /\ m < next => m = w.next
    BY <1>1, <1>26
  <2> QED
    BY <1>1, <1>26, <1>27, <1>31, <2>1 DEF MaskKeeps
<1>33. Parted(v)
  BY <1>24, <1>27 DEF Parted
<1>34. w.next <= v.next /\ v.next # w.next
  BY <1>1, <1>26, <1>27
<1> QED
  BY <1>26, <1>27, <1>28, <1>30, <1>32, <1>33, <1>34 DEF Emits, MaskGoes, v

LEMMA EmitsOn ==
  ASSUME NEW w, NEW v, NEW u, MaskGood(w), Emits(w, v), Emits(v, u)
  PROVE  Emits(w, u)
<1>1. MaskGood(v) /\ MaskGood(u) /\ MaskGoes(w, v) /\ MaskGoes(v, u)
  BY DEF Emits, MaskGoes
<1>2. MaskGoes(w, u)
  BY <1>1, MaskGoesOn
<1>3. Held(w, u)
  BY DEF Emits, Held
<1>4. w.next \in Nat /\ v.next \in Nat /\ u.next \in Nat
  BY <1>1, MaskTypes DEF MaskGood
<1>5. w.next <= v.next /\ v.next <= u.next /\ Parted(u)
      /\ (v.next = w.next => v = w) /\ (u.next = v.next => u = v)
  BY DEF Emits
<1>6. w.next <= u.next /\ (u.next = w.next => u = w)
  <2>1. w.next <= u.next
    BY <1>4, <1>5
  <2>2. ASSUME u.next = w.next PROVE u = w
    <3>1. v.next = w.next /\ u.next = v.next
      BY <1>4, <1>5, <2>2
    <3> QED
      BY <1>5, <3>1
  <2> QED
    BY <2>1, <2>2
<1> QED
  BY <1>2, <1>3, <1>5, <1>6 DEF Emits

LEMMA StaysEmitted ==
  ASSUME NEW w, MaskGood(w), Parted(w)
  PROVE  Emits(w, w)
<1>1. w.next \in Nat
  BY MaskTypes DEF MaskGood
<1> QED
  BY <1>1, MaskStays DEF Emits, Held

LEMMA EmitRecursion ==
  ASSUME NEW w, NEW n \in Nat
  PROVE  \E f : /\ f[0] = w /\ Mask!emit(w, n) = f[n]
                /\ \A i \in 1 .. n : f[i] = Mask!emitElement(f[i - 1])
<1> DEFINE F(f, i) == IF i = 0 THEN w ELSE Mask!emitElement(f[i - 1])
           Works(k, f) == /\ f = [i \in 0 .. k |-> f[i]]
                          /\ \A i \in 0 .. k : f[i] = F(f, i)
           S == {k \in 0 .. n : \E f : Works(k, f)}
<1>2. 0 \in S
  <2>1. Works(0, [i \in 0 .. 0 |-> w])
    OBVIOUS
  <2> HIDE DEF Works
  <2> QED
    BY <2>1
<1>3. \A k \in 1 .. n : k - 1 \in S => k \in S
  <2> SUFFICES ASSUME NEW k \in 1 .. n, k - 1 \in S PROVE \E g : Works(k, g)
    <3> HIDE DEF Works
    <3>1. \A k \in 1 .. n : k \in 0 .. n
      OBVIOUS
    <3> QED
      BY <3>1
  <2>1. PICK f : Works(k - 1, f)
    OBVIOUS
  <2> DEFINE g == [i \in 0 .. k |-> IF i = k THEN F(f, k) ELSE f[i]]
  <2>2. \A i \in 0 .. k : g[i] = F(g, i)
    <3> SUFFICES ASSUME NEW i \in 0 .. k PROVE g[i] = F(g, i)
      OBVIOUS
    <3>1. i # 0 => i - 1 \in 0 .. k /\ i - 1 # k /\ g[i - 1] = f[i - 1]
      OBVIOUS
    <3>2. F(g, i) = F(f, i)
      BY <3>1
    <3> HIDE DEF F
    <3>3. g[i] = IF i = k THEN F(f, k) ELSE f[i]
      OBVIOUS
    <3>4. i # k => f[i] = F(f, i)
      BY <2>1
    <3> HIDE DEF g
    <3> QED
      BY <3>2, <3>3, <3>4
  <2>3. g = [i \in 0 .. k |-> g[i]]
    OBVIOUS
  <2> HIDE DEF g, F
  <2> QED
    BY <2>2, <2>3
<1>4. n \in S
  <2> HIDE DEF S
  <2>1. 0 .. n \subseteq S
    BY <1>2, <1>3, UpTo
  <2> QED
    BY <2>1
<1>5. PICK f : Works(n, f)
  BY <1>4
<1>6. f = [i \in 0 .. n |-> F(f, i)]
  BY <1>5
<1> DEFINE D(h) == h = [i \in 0 .. n |-> F(h, i)]
           K == CHOOSE h : D(h)
<1>7. Mask!emit(w, n) = K[n]
  BY DEF Mask!emit
<1>8. D(K)
  <2>1. D(f)
    BY <1>6
  <2> HIDE DEF D
  <2> QED
    BY <2>1
<1> HIDE DEF K
<1>9. \A i \in 0 .. n : K[i] = F(K, i)
  BY <1>8
<1>10. K[0] = w /\ \A i \in 1 .. n : K[i] = Mask!emitElement(K[i - 1])
  <2>1. 0 \in 0 .. n /\ \A i \in 1 .. n : i \in 0 .. n /\ i # 0
    OBVIOUS
  <2> QED
    BY <1>9, <2>1
<1> QED
  BY <1>7, <1>10

LEMMA EmitEmits ==
  ASSUME NEW w, MaskGood(w), Parted(w), NEW n \in Nat
  PROVE  Emits(w, Mask!emit(w, n))
<1>1. PICK after : /\ after[0] = w /\ Mask!emit(w, n) = after[n]
                   /\ \A i \in 1 .. n : after[i] = Mask!emitElement(after[i - 1])
  BY EmitRecursion
<1> DEFINE S == {i \in 0 .. n : Emits(w, after[i])}
<1>3. 0 \in S
  <2>1. after[0] = w
    BY <1>1
  <2> QED
    BY <2>1, StaysEmitted
<1>4. \A i \in 1 .. n : i - 1 \in S => i \in S
  <2> SUFFICES ASSUME NEW i \in 1 .. n, i - 1 \in S PROVE i \in S
    OBVIOUS
  <2> DEFINE v == after[i - 1]
  <2>1. Emits(w, v)
    OBVIOUS
  <2>2. i \in 0 .. n /\ i # 0
    OBVIOUS
  <2>3. after[i] = Mask!emitElement(v)
    BY <1>1
  <2> HIDE DEF v
  <2>4. MaskGood(v) /\ Parted(v)
    BY <2>1 DEF Emits, MaskGoes
  <2>5. Emits(v, after[i])
    BY <2>3, <2>4, ElementEmits
  <2>6. Emits(w, after[i])
    BY <2>1, <2>5, EmitsOn
  <2> QED
    BY <2>2, <2>6
<1> HIDE DEF S
<1>5. 0 .. n \subseteq S
  BY <1>3, <1>4, UpTo
<1> QED
  BY <1>1, <1>5 DEF S

LEMMA PulseEmits ==
  ASSUME NEW w, MaskGood(w), Parted(w), NEW len, NEW allow, NEW c, c.elements \in 0 .. 2
  PROVE  Emits(w, Mask!tryMatchPulse(w, len, allow, c))
<1> DEFINE glued == allow /\ Mask!MayBeGlued(w, len)
           n == IF c.elements <= 1 \/ glued THEN c.elements ELSE 1
           e == Mask!tryMatchPulse(w, len, allow, c)
<1>1. e \in {w, Mask!emit(w, n)}
  <2> HIDE DEF glued
  <2>1. e = IF len < MinPulse THEN w ELSE Mask!emit(w, n)
    BY DEF Mask!tryMatchPulse, glued
  <2> HIDE DEF e, n
  <2> QED
    BY <2>1
<1> HIDE DEF glued, e
<1>2. n \in Nat
  OBVIOUS
<1> HIDE DEF n
<1>3. Emits(w, w) /\ Emits(w, Mask!emit(w, n))
  BY <1>2, StaysEmitted, EmitEmits
<1>4. Emits(w, e)
  BY <1>1, <1>3
<1> QED
  BY <1>4 DEF e

-------------------------------------------------------------------------------
(* The mask window: the width of the dit, columns and buttons.               *)
\* What a new width of the dit does not change.
Measured(w, v) ==
    /\ MaskTicks(w, v) /\ v.has = w.has /\ v.high = w.high /\ v.run = w.run /\ v.since = w.since
    /\ v.valley = w.valley /\ v.apart = w.apart

LEMMA DitSet ==
  ASSUME NEW w, MaskGood(w), NEW est \in Units, NEW v, v = [w EXCEPT !.unit = est, !.calibrated = TRUE]
  PROVE  Measured(w, v)
<1> DEFINE LM == Seq(Nat)
           LT == Seq(Seq(Nat))
           yes == TRUE
<1>1. MaskFields(LM, LT, w) /\ MaskClocks(w) /\ yes \in BOOLEAN
  BY DEF MaskGood, IsMask
<1>2. v = [w EXCEPT !.unit = est, !.calibrated = yes]
  OBVIOUS
<1> HIDE DEF LM, LT, yes
<1>3. /\ MaskFields(LM, LT, v) /\ v.pending = w.pending /\ v.text = w.text /\ v.next = w.next
      /\ v.out = w.out /\ v.first = w.first
  BY <1>1, <1>2 DEF MaskFields
<1>4. /\ v.has = w.has /\ v.high = w.high /\ v.run = w.run /\ v.since = w.since
      /\ v.valley = w.valley /\ v.apart = w.apart /\ v.gaps = w.gaps /\ v.digits = w.digits
  BY <1>1, <1>2 DEF MaskFields
<1>5. MaskClocks(v)
  BY <1>1, <1>4 DEF MaskClocks
<1> QED
  BY <1>3, <1>4, <1>5 DEF Measured, MaskTicks, IsMask, LM, LT

LEMMA Unmeasured ==
  ASSUME NEW w, MaskGood(w)
  PROVE  Measured(w, w)
BY DEF Measured, MaskTicks, MaskGood

LEMMA WidthMeasured ==
  ASSUME NEW w, MaskGood(w), NEW est \in {0} \cup Units
  PROVE  /\ Measured(w, Mask!recomputeDitDahWidths(w, est))
         /\ Measured(w, Mask!updateLocalMaskFromLookahead(w, est))
<1> DEFINE v == [w EXCEPT !.unit = est, !.calibrated = TRUE]
           a == Mask!recomputeDitDahWidths(w, est)
           b == Mask!updateLocalMaskFromLookahead(w, est)
<1>1. a \in {w, v} /\ b \in {w, v} /\ (est = 0 => a = w /\ b = w)
  <2> HIDE DEF v
  <2> QED
    BY DEF Mask!recomputeDitDahWidths, Mask!updateLocalMaskFromLookahead, v
<1>2. CASE est = 0
  BY <1>1, <1>2, Unmeasured
<1>3. CASE est # 0
  <2>1. est \in Units
    BY <1>3
  <2>2. v = [w EXCEPT !.unit = est, !.calibrated = TRUE]
    OBVIOUS
  <2> HIDE DEF v, a, b
  <2>3. Measured(w, v) /\ Measured(w, w)
    BY <2>1, <2>2, DitSet, Unmeasured
  <2>4. Measured(w, a) /\ Measured(w, b)
    BY <1>1, <2>3
  <2> QED
    BY <2>4 DEF a, b
<1> QED
  BY <1>2, <1>3

\* Clocks and flags that are set; nothing else is another.
Reclocked(w, v) ==
    /\ IsMask(v) /\ v.pending = w.pending /\ v.text = w.text /\ v.next = w.next /\ v.out = w.out
    /\ v.first = w.first /\ v.gaps = w.gaps /\ v.digits = w.digits /\ v.unit = w.unit
    /\ v.calibrated = w.calibrated

ClocksAre(v, has, high, run, since, valley, apart) ==
    /\ v.has = has /\ v.high = high /\ v.run = run /\ v.since = since /\ v.valley = valley
    /\ v.apart = apart

SetsPeakOf(w, v, peak) == v = [w EXCEPT !.peak = peak]
SetsValleyOf(w, v, valley) == v = [w EXCEPT !.valley = valley]
SetsValleyPeakOf(w, v, valley, peak) == v = [w EXCEPT !.valley = valley, !.peak = peak]
SetsValleyRunOf(w, v, valley, run) == v = [w EXCEPT !.valley = valley, !.run = run]
SetsSplitOf(w, v, since, run, valley, peak) ==
    v = [w EXCEPT !.since = since, !.run = run, !.valley = valley, !.peak = peak]
SetsOnsetOf(w, v, high, run, valley, peak) ==
    v = [w EXCEPT !.high = high, !.run = run, !.valley = valley, !.peak = peak]
SetsEndOf(w, v, since, high, run, valley, peak) ==
    v = [w EXCEPT !.since = since, !.high = high, !.run = run, !.valley = valley, !.peak = peak]
SetsFirstOf(w, v, has, high, run, valley, peak) ==
    v = [w EXCEPT !.has = has, !.high = high, !.run = run, !.valley = valley, !.peak = peak]
SetsElapsedOf(w, v, run, since, valley) == v = [w EXCEPT !.run = run, !.since = since, !.valley = valley]
SetsApartOf(w, v, apart) == v = [w EXCEPT !.apart = apart]

LEMMA PeakReset ==
  ASSUME NEW w, IsMask(w), NEW v, NEW peak,
         peak \in BOOLEAN,
         SetsPeakOf(w, v, peak)
  PROVE  Reclocked(w, v) /\ ClocksAre(v, w.has, w.high, w.run, w.since, w.valley, w.apart)
<1> DEFINE LM == Seq(Nat)
           LT == Seq(Seq(Nat))
<1>1. MaskFields(LM, LT, w)
  BY DEF IsMask
<1> HIDE DEF LM, LT
<1>2. MaskFields(LM, LT, v)
  BY <1>1 DEF MaskFields, SetsPeakOf
<1>3. /\ v.pending = w.pending /\ v.text = w.text /\ v.next = w.next /\ v.out = w.out
      /\ v.first = w.first
  BY <1>1 DEF MaskFields, SetsPeakOf
<1>4. /\ v.gaps = w.gaps /\ v.digits = w.digits /\ v.unit = w.unit
      /\ v.calibrated = w.calibrated
  BY <1>1 DEF MaskFields, SetsPeakOf
<1>5. ClocksAre(v, w.has, w.high, w.run, w.since, w.valley, w.apart)
  BY <1>1 DEF MaskFields, SetsPeakOf, ClocksAre
<1> QED
  BY <1>2, <1>3, <1>4, <1>5 DEF Reclocked, IsMask, LM, LT

LEMMA ValleyReset ==
  ASSUME NEW w, IsMask(w), NEW v, NEW valley,
         valley \in Int,
         SetsValleyOf(w, v, valley)
  PROVE  Reclocked(w, v) /\ ClocksAre(v, w.has, w.high, w.run, w.since, valley, w.apart)
<1> DEFINE LM == Seq(Nat)
           LT == Seq(Seq(Nat))
<1>1. MaskFields(LM, LT, w)
  BY DEF IsMask
<1> HIDE DEF LM, LT
<1>2. MaskFields(LM, LT, v)
  BY <1>1 DEF MaskFields, SetsValleyOf
<1>3. /\ v.pending = w.pending /\ v.text = w.text /\ v.next = w.next /\ v.out = w.out
      /\ v.first = w.first
  BY <1>1 DEF MaskFields, SetsValleyOf
<1>4. /\ v.gaps = w.gaps /\ v.digits = w.digits /\ v.unit = w.unit
      /\ v.calibrated = w.calibrated
  BY <1>1 DEF MaskFields, SetsValleyOf
<1>5. ClocksAre(v, w.has, w.high, w.run, w.since, valley, w.apart)
  BY <1>1 DEF MaskFields, SetsValleyOf, ClocksAre
<1> QED
  BY <1>2, <1>3, <1>4, <1>5 DEF Reclocked, IsMask, LM, LT

LEMMA ValleyPeakReset ==
  ASSUME NEW w, IsMask(w), NEW v, NEW valley, NEW peak,
         valley \in Int /\ peak \in BOOLEAN,
         SetsValleyPeakOf(w, v, valley, peak)
  PROVE  Reclocked(w, v) /\ ClocksAre(v, w.has, w.high, w.run, w.since, valley, w.apart)
<1> DEFINE LM == Seq(Nat)
           LT == Seq(Seq(Nat))
<1>1. MaskFields(LM, LT, w)
  BY DEF IsMask
<1> HIDE DEF LM, LT
<1>2. MaskFields(LM, LT, v)
  BY <1>1 DEF MaskFields, SetsValleyPeakOf
<1>3. /\ v.pending = w.pending /\ v.text = w.text /\ v.next = w.next /\ v.out = w.out
      /\ v.first = w.first
  BY <1>1 DEF MaskFields, SetsValleyPeakOf
<1>4. /\ v.gaps = w.gaps /\ v.digits = w.digits /\ v.unit = w.unit
      /\ v.calibrated = w.calibrated
  BY <1>1 DEF MaskFields, SetsValleyPeakOf
<1>5. ClocksAre(v, w.has, w.high, w.run, w.since, valley, w.apart)
  BY <1>1 DEF MaskFields, SetsValleyPeakOf, ClocksAre
<1> QED
  BY <1>2, <1>3, <1>4, <1>5 DEF Reclocked, IsMask, LM, LT

LEMMA ValleyRunReset ==
  ASSUME NEW w, IsMask(w), NEW v, NEW valley, NEW run,
         valley \in Int /\ run \in Int,
         SetsValleyRunOf(w, v, valley, run)
  PROVE  Reclocked(w, v) /\ ClocksAre(v, w.has, w.high, run, w.since, valley, w.apart)
<1> DEFINE LM == Seq(Nat)
           LT == Seq(Seq(Nat))
<1>1. MaskFields(LM, LT, w)
  BY DEF IsMask
<1> HIDE DEF LM, LT
<1>2. MaskFields(LM, LT, v)
  BY <1>1 DEF MaskFields, SetsValleyRunOf
<1>3. /\ v.pending = w.pending /\ v.text = w.text /\ v.next = w.next /\ v.out = w.out
      /\ v.first = w.first
  BY <1>1 DEF MaskFields, SetsValleyRunOf
<1>4. /\ v.gaps = w.gaps /\ v.digits = w.digits /\ v.unit = w.unit
      /\ v.calibrated = w.calibrated
  BY <1>1 DEF MaskFields, SetsValleyRunOf
<1>5. ClocksAre(v, w.has, w.high, run, w.since, valley, w.apart)
  BY <1>1 DEF MaskFields, SetsValleyRunOf, ClocksAre
<1> QED
  BY <1>2, <1>3, <1>4, <1>5 DEF Reclocked, IsMask, LM, LT

LEMMA SplitReset ==
  ASSUME NEW w, IsMask(w), NEW v, NEW since, NEW run, NEW valley, NEW peak,
         since \in Int /\ run \in Int /\ valley \in Int /\ peak \in BOOLEAN,
         SetsSplitOf(w, v, since, run, valley, peak)
  PROVE  Reclocked(w, v) /\ ClocksAre(v, w.has, w.high, run, since, valley, w.apart)
<1> DEFINE LM == Seq(Nat)
           LT == Seq(Seq(Nat))
<1>1. MaskFields(LM, LT, w)
  BY DEF IsMask
<1> HIDE DEF LM, LT
<1>2. MaskFields(LM, LT, v)
  BY <1>1 DEF MaskFields, SetsSplitOf
<1>3. /\ v.pending = w.pending /\ v.text = w.text /\ v.next = w.next /\ v.out = w.out
      /\ v.first = w.first
  BY <1>1 DEF MaskFields, SetsSplitOf
<1>4. /\ v.gaps = w.gaps /\ v.digits = w.digits /\ v.unit = w.unit
      /\ v.calibrated = w.calibrated
  BY <1>1 DEF MaskFields, SetsSplitOf
<1>5. ClocksAre(v, w.has, w.high, run, since, valley, w.apart)
  BY <1>1 DEF MaskFields, SetsSplitOf, ClocksAre
<1> QED
  BY <1>2, <1>3, <1>4, <1>5 DEF Reclocked, IsMask, LM, LT

LEMMA OnsetReset ==
  ASSUME NEW w, IsMask(w), NEW v, NEW high, NEW run, NEW valley, NEW peak,
         high \in BOOLEAN /\ run \in Int /\ valley \in Int /\ peak \in BOOLEAN,
         SetsOnsetOf(w, v, high, run, valley, peak)
  PROVE  Reclocked(w, v) /\ ClocksAre(v, w.has, high, run, w.since, valley, w.apart)
<1> DEFINE LM == Seq(Nat)
           LT == Seq(Seq(Nat))
<1>1. MaskFields(LM, LT, w)
  BY DEF IsMask
<1> HIDE DEF LM, LT
<1>2. MaskFields(LM, LT, v)
  BY <1>1 DEF MaskFields, SetsOnsetOf
<1>3. /\ v.pending = w.pending /\ v.text = w.text /\ v.next = w.next /\ v.out = w.out
      /\ v.first = w.first
  BY <1>1 DEF MaskFields, SetsOnsetOf
<1>4. /\ v.gaps = w.gaps /\ v.digits = w.digits /\ v.unit = w.unit
      /\ v.calibrated = w.calibrated
  BY <1>1 DEF MaskFields, SetsOnsetOf
<1>5. ClocksAre(v, w.has, high, run, w.since, valley, w.apart)
  BY <1>1 DEF MaskFields, SetsOnsetOf, ClocksAre
<1> QED
  BY <1>2, <1>3, <1>4, <1>5 DEF Reclocked, IsMask, LM, LT

LEMMA EndReset ==
  ASSUME NEW w, IsMask(w), NEW v, NEW since, NEW high, NEW run, NEW valley, NEW peak,
         since \in Int /\ high \in BOOLEAN /\ run \in Int /\ valley \in Int /\ peak \in BOOLEAN,
         SetsEndOf(w, v, since, high, run, valley, peak)
  PROVE  Reclocked(w, v) /\ ClocksAre(v, w.has, high, run, since, valley, w.apart)
<1> DEFINE LM == Seq(Nat)
           LT == Seq(Seq(Nat))
<1>1. MaskFields(LM, LT, w)
  BY DEF IsMask
<1> HIDE DEF LM, LT
<1>2. MaskFields(LM, LT, v)
  <2> DEFINE u == [w EXCEPT !.since = since, !.run = run, !.valley = valley]
  <2>1. v = [u EXCEPT !.high = high, !.peak = peak]
    BY <1>1 DEF MaskFields, SetsEndOf
  <2>2. MaskFields(LM, LT, u)
    BY <1>1 DEF MaskFields
  <2> HIDE DEF u
  <2>3. MaskFields(LM, LT, v) /\ v.out = u.out /\ v.first = u.first
    BY <2>1, <2>2 DEF MaskFields
  <2> QED
    BY <2>3
<1>3. /\ v.pending = w.pending /\ v.text = w.text /\ v.next = w.next /\ v.out = w.out
      /\ v.first = w.first
  BY <1>1 DEF MaskFields, SetsEndOf
<1>4. /\ v.gaps = w.gaps /\ v.digits = w.digits /\ v.unit = w.unit
      /\ v.calibrated = w.calibrated
  BY <1>1 DEF MaskFields, SetsEndOf
<1>5. ClocksAre(v, w.has, high, run, since, valley, w.apart)
  BY <1>1 DEF MaskFields, SetsEndOf, ClocksAre
<1> QED
  BY <1>2, <1>3, <1>4, <1>5 DEF Reclocked, IsMask, LM, LT

LEMMA FirstReset ==
  ASSUME NEW w, IsMask(w), NEW v, NEW has, NEW high, NEW run, NEW valley, NEW peak,
         has \in BOOLEAN /\ high \in BOOLEAN /\ run \in Int /\ valley \in Int /\ peak \in BOOLEAN,
         SetsFirstOf(w, v, has, high, run, valley, peak)
  PROVE  Reclocked(w, v) /\ ClocksAre(v, has, high, run, w.since, valley, w.apart)
<1> DEFINE LM == Seq(Nat)
           LT == Seq(Seq(Nat))
<1>1. MaskFields(LM, LT, w)
  BY DEF IsMask
<1> HIDE DEF LM, LT
<1>2. MaskFields(LM, LT, v)
  <2> DEFINE u == [w EXCEPT !.high = high, !.run = run, !.valley = valley, !.peak = peak]
  <2>1. v = [u EXCEPT !.has = has]
    BY <1>1 DEF MaskFields, SetsFirstOf
  <2>2. MaskFields(LM, LT, u)
    BY <1>1 DEF MaskFields
  <2> HIDE DEF u
  <2>3. MaskFields(LM, LT, v) /\ v.out = u.out /\ v.first = u.first
    BY <2>1, <2>2 DEF MaskFields
  <2> QED
    BY <2>3
<1>3. /\ v.pending = w.pending /\ v.text = w.text /\ v.next = w.next /\ v.out = w.out
      /\ v.first = w.first
  BY <1>1 DEF MaskFields, SetsFirstOf
<1>4. /\ v.gaps = w.gaps /\ v.digits = w.digits /\ v.unit = w.unit
      /\ v.calibrated = w.calibrated
  BY <1>1 DEF MaskFields, SetsFirstOf
<1>5. ClocksAre(v, has, high, run, w.since, valley, w.apart)
  BY <1>1 DEF MaskFields, SetsFirstOf, ClocksAre
<1> QED
  BY <1>2, <1>3, <1>4, <1>5 DEF Reclocked, IsMask, LM, LT

LEMMA ElapsedReset ==
  ASSUME NEW w, IsMask(w), NEW v, NEW run, NEW since, NEW valley,
         run \in Int /\ since \in Int /\ valley \in Int,
         SetsElapsedOf(w, v, run, since, valley)
  PROVE  Reclocked(w, v) /\ ClocksAre(v, w.has, w.high, run, since, valley, w.apart)
<1> DEFINE LM == Seq(Nat)
           LT == Seq(Seq(Nat))
<1>1. MaskFields(LM, LT, w)
  BY DEF IsMask
<1> HIDE DEF LM, LT
<1>2. MaskFields(LM, LT, v)
  BY <1>1 DEF MaskFields, SetsElapsedOf
<1>3. /\ v.pending = w.pending /\ v.text = w.text /\ v.next = w.next /\ v.out = w.out
      /\ v.first = w.first
  BY <1>1 DEF MaskFields, SetsElapsedOf
<1>4. /\ v.gaps = w.gaps /\ v.digits = w.digits /\ v.unit = w.unit
      /\ v.calibrated = w.calibrated
  BY <1>1 DEF MaskFields, SetsElapsedOf
<1>5. ClocksAre(v, w.has, w.high, run, since, valley, w.apart)
  BY <1>1 DEF MaskFields, SetsElapsedOf, ClocksAre
<1> QED
  BY <1>2, <1>3, <1>4, <1>5 DEF Reclocked, IsMask, LM, LT

LEMMA ApartReset ==
  ASSUME NEW w, IsMask(w), NEW v, NEW apart,
         apart \in BOOLEAN,
         SetsApartOf(w, v, apart)
  PROVE  Reclocked(w, v) /\ ClocksAre(v, w.has, w.high, w.run, w.since, w.valley, apart)
<1> DEFINE LM == Seq(Nat)
           LT == Seq(Seq(Nat))
<1>1. MaskFields(LM, LT, w)
  BY DEF IsMask
<1> HIDE DEF LM, LT
<1>2. MaskFields(LM, LT, v)
  BY <1>1 DEF MaskFields, SetsApartOf
<1>3. /\ v.pending = w.pending /\ v.text = w.text /\ v.next = w.next /\ v.out = w.out
      /\ v.first = w.first
  BY <1>1 DEF MaskFields, SetsApartOf
<1>4. /\ v.gaps = w.gaps /\ v.digits = w.digits /\ v.unit = w.unit
      /\ v.calibrated = w.calibrated
  BY <1>1 DEF MaskFields, SetsApartOf
<1>5. ClocksAre(v, w.has, w.high, w.run, w.since, w.valley, apart)
  BY <1>1 DEF MaskFields, SetsApartOf, ClocksAre
<1> QED
  BY <1>2, <1>3, <1>4, <1>5 DEF Reclocked, IsMask, LM, LT

LEMMA ReclockGoes ==
  ASSUME NEW w, MaskGood(w), NEW v, Reclocked(w, v),
         v.run \in 0 .. Mask!Cap, v.since \in -1 .. Mask!Cap, v.valley \in -1 .. Mask!Cap,
         v.valley >= 0 => v.high /\ v.valley <= v.run
  PROVE  MaskTicks(w, v) /\ MaskGoes(w, v)
<1>1. MaskClocks(v)
  BY DEF MaskGood, MaskClocks, Reclocked
<1>2. MaskTicks(w, v)
  BY <1>1 DEF Reclocked, MaskTicks
<1> QED
  BY <1>2, MaskTicksGo

\* Since the last element of the open letter the key has been up for no longer
\* than was counted, and no mark is long.
MaskSounds(w) == w.pending # << >> => w.has /\ w.since >= 0 /\ (~w.high => w.run <= w.since)
MaskBrief(w)  == w.high => w.run <= LongMask
MaskWell(w)   == MaskGood(w) /\ MaskSounds(w) /\ MaskBrief(w) /\ Parted(w)

\* A letter gap that has just been heard, of a letter that is still open.
Alert(w) == w.apart => w.pending = << >> \/ (w.has /\ ~w.high /\ Mask!LetterSure <= w.run)

MaskFeeds(w, v) == MaskGoes(w, v) /\ MaskSounds(v) /\ MaskBrief(v) /\ Parted(v)

LEMMA CappedIs ==
  ASSUME NEW k \in Nat, NEW n \in Int
  PROVE  Mask!Min({n, k}) = (IF n <= k THEN n ELSE k)
<1>1. k \in Int
  OBVIOUS
<1> QED
  BY <1>1, LesserOf

LEMMA MaskElapses ==
  ASSUME NEW w, MaskWell(w)
  PROVE  /\ MaskGoes(w, Mask!Elapse(w)) /\ MaskSounds(Mask!Elapse(w)) /\ Parted(Mask!Elapse(w))
         /\ Mask!Elapse(w).has = w.has /\ Mask!Elapse(w).high = w.high
         /\ w.high /\ w.run < LongMask => Mask!Elapse(w).run <= LongMask
<1> DEFINE cap == Mask!Cap
           run == Mask!Min({w.run + 1, cap})
           since == IF w.since < 0 THEN w.since ELSE Mask!Min({w.since + 1, cap})
           valley == IF w.valley < 0 THEN w.valley ELSE w.valley + 1
           v == Mask!Elapse(w)
<1>1. SetsElapsedOf(w, v, run, since, valley)
  BY DEF Mask!Elapse, SetsElapsedOf
<1>2. cap \in Nat /\ LongMask + 1 <= cap /\ LongMask \in Nat
  BY MaskCap, MaskConstants
<1>3. /\ w.run \in 0 .. cap /\ w.since \in -1 .. cap /\ w.valley \in -1 .. cap
      /\ (w.valley >= 0 => w.high /\ w.valley <= w.run) /\ IsMask(w) /\ MaskGood(w)
      /\ (w.high => w.run <= LongMask) /\ MaskSounds(w) /\ Parted(w)
  BY DEF MaskWell, MaskGood, MaskClocks, MaskBrief
<1> HIDE DEF cap
<1>4. run = IF w.run + 1 <= cap THEN w.run + 1 ELSE cap
  <2> DEFINE r == w.run + 1
  <2>1. r \in Int
    BY <1>2, <1>3
  <2> HIDE DEF r
  <2>2. Mask!Min({r, cap}) = (IF r <= cap THEN r ELSE cap)
    BY <1>2, <2>1, CappedIs
  <2> QED
    BY <2>2 DEF r
<1>5. since = IF w.since < 0 THEN w.since ELSE IF w.since + 1 <= cap THEN w.since + 1 ELSE cap
  <2> DEFINE r == w.since + 1
  <2>1. r \in Int
    BY <1>2, <1>3
  <2> HIDE DEF r
  <2>2. Mask!Min({r, cap}) = (IF r <= cap THEN r ELSE cap)
    BY <1>2, <2>1, CappedIs
  <2> QED
    BY <2>2 DEF r
<1> HIDE DEF run, since
<1>6. run \in 0 .. cap /\ since \in -1 .. cap /\ run \in Int /\ since \in Int
  BY <1>2, <1>3, <1>4, <1>5
<1>7. valley \in -1 .. cap /\ valley \in Int /\ (valley >= 0 => w.high /\ valley <= run)
  BY <1>2, <1>3, <1>4
<1> HIDE DEF valley, v
<1>8. Reclocked(w, v) /\ ClocksAre(v, w.has, w.high, run, since, valley, w.apart)
  BY <1>1, <1>3, <1>6, <1>7, ElapsedReset
<1>9. /\ v.has = w.has /\ v.high = w.high /\ v.run = run /\ v.since = since /\ v.valley = valley
      /\ v.apart = w.apart /\ v.pending = w.pending
  BY <1>8 DEF ClocksAre, Reclocked
<1>10. MaskGoes(w, v)
  <2>1. v.run \in 0 .. Mask!Cap /\ v.since \in -1 .. Mask!Cap /\ v.valley \in -1 .. Mask!Cap
    BY <1>6, <1>7, <1>9 DEF cap
  <2>2. v.valley >= 0 => v.high /\ v.valley <= v.run
    BY <1>7, <1>9
  <2> QED
    BY <1>3, <1>8, <2>1, <2>2, ReclockGoes
<1>11. MaskSounds(v)
  <2> SUFFICES ASSUME v.pending # << >> PROVE v.has /\ v.since >= 0 /\ (~v.high => v.run <= v.since)
    BY DEF MaskSounds
  <2>1. w.has /\ w.since >= 0 /\ (~w.high => w.run <= w.since)
    BY <1>3, <1>9 DEF MaskSounds
  <2>2. since >= 0 /\ (w.run <= w.since => run <= since)
    BY <1>2, <1>3, <1>4, <1>5, <2>1
  <2> QED
    BY <1>9, <2>1, <2>2
<1>12. Parted(v)
  BY <1>3, <1>9 DEF Parted
<1>13. w.high /\ w.run < LongMask => v.run <= LongMask
  BY <1>2, <1>3, <1>4, <1>9
<1> QED
  BY <1>9, <1>10, <1>11, <1>12, <1>13 DEF v

LEMMA ListenGoes ==
  ASSUME NEW w, MaskGood(w), MaskSounds(w), Parted(w)
  PROVE  /\ MaskGoes(w, Mask!Listen(w)) /\ MaskSounds(Mask!Listen(w)) /\ Alert(Mask!Listen(w))
         /\ Mask!Listen(w).has = w.has /\ Mask!Listen(w).high = w.high /\ Mask!Listen(w).run = w.run
<1> DEFINE sure == w.has /\ ~w.high /\ w.run >= Mask!LetterSure
           apart == w.apart \/ sure
           v == Mask!Listen(w)
<1>1. SetsApartOf(w, v, apart)
  BY DEF Mask!Listen, SetsApartOf
<1>2. IsMask(w) /\ MaskClocks(w) /\ w.has \in BOOLEAN /\ w.high \in BOOLEAN /\ w.apart \in BOOLEAN
      /\ w.run \in Int /\ Mask!LetterSure \in Nat
  BY MaskTypes, LetterSureIs DEF MaskGood
<1>3. apart \in BOOLEAN /\ (apart => w.apart \/ (w.has /\ ~w.high /\ Mask!LetterSure <= w.run))
  <2>1. sure \in BOOLEAN /\ (sure => w.has /\ ~w.high /\ Mask!LetterSure <= w.run)
    BY <1>2
  <2> HIDE DEF sure
  <2> QED
    BY <1>2, <2>1
<1> HIDE DEF v, apart
<1>4. Reclocked(w, v) /\ ClocksAre(v, w.has, w.high, w.run, w.since, w.valley, apart)
  BY <1>1, <1>2, <1>3, ApartReset
<1>5. /\ v.has = w.has /\ v.high = w.high /\ v.run = w.run /\ v.since = w.since /\ v.valley = w.valley
      /\ v.apart = apart /\ v.pending = w.pending
  BY <1>4 DEF ClocksAre, Reclocked
<1>6. MaskGoes(w, v)
  <2>1. /\ v.run \in 0 .. Mask!Cap /\ v.since \in -1 .. Mask!Cap /\ v.valley \in -1 .. Mask!Cap
        /\ v.valley >= 0 => v.high /\ v.valley <= v.run
    BY <1>2, <1>5 DEF MaskClocks
  <2> QED
    BY <1>4, <2>1, ReclockGoes
<1>7. MaskSounds(v)
  BY <1>5 DEF MaskSounds
<1>8. Alert(v)
  BY <1>3, <1>5 DEF Alert, Parted
<1> QED
  BY <1>5, <1>6, <1>7, <1>8 DEF v

LEMMA HearsGoes ==
  ASSUME NEW w, MaskWell(w), NEW look \in {0} \cup Units, NEW z,
         z = Mask!updateLocalMaskFromLookahead(Mask!Listen(Mask!Elapse(w)), look)
  PROVE  /\ MaskGoes(w, z) /\ MaskSounds(z) /\ Alert(z) /\ z.has = w.has /\ z.high = w.high
         /\ w.high /\ w.run < LongMask => z.run <= LongMask
<1> DEFINE x == Mask!Elapse(w)
           y == Mask!Listen(x)
<1>1. /\ MaskGoes(w, x) /\ MaskSounds(x) /\ Parted(x) /\ x.has = w.has /\ x.high = w.high
      /\ w.high /\ w.run < LongMask => x.run <= LongMask
  <2>1. MaskGoes(w, x) /\ MaskSounds(x) /\ Parted(x)
    BY MaskElapses
  <2>2. x.has = w.has
    BY MaskElapses
  <2>3. x.high = w.high
    BY MaskElapses
  <2>4. w.high /\ w.run < LongMask => x.run <= LongMask
    BY MaskElapses
  <2> QED
    BY <2>1, <2>2, <2>3, <2>4
<1>2. z = Mask!updateLocalMaskFromLookahead(y, look)
  OBVIOUS
<1> HIDE DEF x
<1>3. MaskGood(w) /\ MaskGood(x)
  BY <1>1 DEF MaskWell, MaskGoes
<1>4. /\ MaskGoes(x, y) /\ MaskSounds(y) /\ Alert(y) /\ y.has = x.has /\ y.high = x.high
      /\ y.run = x.run
  BY <1>1, <1>3, ListenGoes
<1> HIDE DEF y
<1>5. MaskGood(y)
  BY <1>4 DEF MaskGoes
<1>6. Measured(y, z)
  BY <1>2, <1>5, WidthMeasured
<1>7. /\ MaskTicks(y, z) /\ z.has = y.has /\ z.high = y.high /\ z.run = y.run /\ z.since = y.since
      /\ z.apart = y.apart /\ z.pending = y.pending
  BY <1>6 DEF Measured, MaskTicks
<1>8. MaskGoes(y, z)
  BY <1>5, <1>7, MaskTicksGo
<1>9. MaskGoes(w, z)
  BY <1>1, <1>3, <1>4, <1>5, <1>8, MaskGoesOn
<1>10. MaskSounds(z) /\ Alert(z)
  BY <1>4, <1>7 DEF MaskSounds, Alert
<1> QED
  BY <1>1, <1>4, <1>7, <1>9, <1>10

\* The first column after a reset.
LEMMA FirstFeeds ==
  ASSUME NEW w, MaskGood(w), MaskSounds(w), Alert(w), ~w.has, NEW high, high \in BOOLEAN, NEW v,
         v = [w EXCEPT !.has = TRUE, !.high = high, !.run = 0, !.valley = -1, !.peak = FALSE]
  PROVE  MaskFeeds(w, v)
<1> DEFINE yes == TRUE
           no == FALSE
           nil == 0
           none == -1
<1>1. yes \in BOOLEAN /\ no \in BOOLEAN /\ nil \in Int /\ none \in Int
  OBVIOUS
<1>2. SetsFirstOf(w, v, yes, high, nil, none, no)
  BY DEF SetsFirstOf
<1>3. IsMask(w) /\ MaskClocks(w) /\ w.pending = << >>
  BY DEF MaskGood, MaskSounds
<1> HIDE DEF yes, no, nil, none
<1>4. Reclocked(w, v) /\ ClocksAre(v, yes, high, nil, w.since, none, w.apart)
  BY <1>1, <1>2, <1>3, FirstReset
<1>5. v.run = 0 /\ v.since = w.since /\ v.valley = -1 /\ v.pending = << >>
  BY <1>3, <1>4 DEF ClocksAre, Reclocked, nil, none
<1>6. MaskGoes(w, v)
  <2>1. Mask!Cap \in Nat
    BY MaskCap
  <2>2. v.run \in 0 .. Mask!Cap /\ v.valley \in -1 .. Mask!Cap /\ ~(v.valley >= 0)
    BY <1>5, <2>1
  <2>3. v.since \in -1 .. Mask!Cap
    BY <1>3, <1>5 DEF MaskClocks
  <2> QED
    BY <1>4, <2>2, <2>3, ReclockGoes
<1>7. MaskBrief(v)
  <2>1. LongMask \in Nat
    BY MaskConstants
  <2> QED
    BY <1>5, <2>1 DEF MaskBrief
<1> QED
  BY <1>5, <1>6, <1>7 DEF MaskFeeds, MaskSounds, Parted

\* Once the key has been up for what is a letter gap of any dit, an open letter
\* is neither part of an element gap nor waits for more.
LEMMA GapIsSure ==
  ASSUME NEW w, IsMask(w), NEW since \in Int, Mask!LetterSure <= since
  PROVE  ~(10 * since < Mask!letterMin(w)) /\ ~(10 * since < Mask!elemMax(w))
<1> DEFINE sure == Mask!LetterSure
           unit == w.unit
<1>1. unit \in Units /\ Units \subseteq Nat /\ sure \in Nat /\ MaskLetter \in Nat /\ MaskElement \in Nat
      /\ MaskLetter <= sure /\ MaskElement <= MaskLetter
  BY MaskTypes, MaskConstants, LetterSureIs
<1>2. 26 * unit <= 10 * sure
  BY <1>1, LetterSureIs
<1>3. Mask!letterMin(w) \in {26 * unit, 10 * MaskLetter} /\ Mask!elemMax(w) \in {22 * unit, 10 * MaskElement}
  BY DEF Mask!letterMin, Mask!elemMax
<1>4. sure <= since
  OBVIOUS
<1> HIDE DEF sure, unit
<1>5. unit \in Nat
  BY <1>1
<1>6. 22 * unit <= 10 * sure /\ 10 * MaskLetter <= 10 * sure /\ 10 * MaskElement <= 10 * sure
      /\ 10 * sure <= 10 * since
  BY <1>1, <1>2, <1>4, <1>5
<1>7. ~(10 * since < 26 * unit) /\ ~(10 * since < 10 * MaskLetter) /\ ~(10 * since < 22 * unit)
      /\ ~(10 * since < 10 * MaskElement)
  BY <1>1, <1>2, <1>5, <1>6
<1> QED
  BY <1>3, <1>7

\* Whether an alert is over: what a column makes of the open letter.
LEMMA AlertEnds ==
  ASSUME NEW w, MaskGood(w), MaskSounds(w), Alert(w), NEW v, v.apart = w.apart,
         v.pending = w.pending \/ v.pending = << >>,
         v.pending # << >> => \/ w.since < 0 \/ 10 * w.since < Mask!letterMin(w)
                              \/ 10 * w.since < Mask!elemMax(w)
  PROVE  Parted(v)
<1> SUFFICES ASSUME v.apart, v.pending # << >> PROVE FALSE
  BY DEF Parted
<1>1. w.apart /\ w.pending # << >>
  OBVIOUS
<1>2. w.has /\ ~w.high /\ Mask!LetterSure <= w.run
  BY <1>1 DEF Alert
<1>3. w.since >= 0 /\ w.run <= w.since
  BY <1>1, <1>2 DEF MaskSounds
<1>4. IsMask(w) /\ w.since \in Int /\ w.run \in Int /\ Mask!LetterSure \in Int
  BY MaskTypes, LetterSureIs DEF MaskGood
<1>5. Mask!LetterSure <= w.since
  BY <1>2, <1>3, <1>4
<1>6. ~(10 * w.since < Mask!letterMin(w)) /\ ~(10 * w.since < Mask!elemMax(w))
  BY <1>4, <1>5, GapIsSure
<1> QED
  BY <1>3, <1>4, <1>6

\* A column without the key.
LEMMA SilenceFeeds ==
  ASSUME NEW w, MaskGood(w), MaskSounds(w), Alert(w), ~w.high, NEW c
  PROVE  MaskFeeds(w, Mask!flushLetterIfNeeded(w, w.since, c))
<1> DEFINE v == Mask!flushLetterIfNeeded(w, w.since, c)
<1>1. Gapped(w, v)
  BY MaskFlushGoes
<1>2. v.pending # << >> => \/ w.since < 0 \/ 10 * w.since < Mask!letterMin(w)
                           \/ 10 * w.since < Mask!elemMax(w)
  BY MaskFlushGoes
<1> HIDE DEF v
<1>3. /\ MaskGoes(w, v) /\ (v.pending = w.pending \/ v.pending = << >>) /\ v.has = w.has
      /\ v.high = w.high /\ v.run = w.run /\ v.since = w.since /\ v.apart = w.apart
  BY <1>1 DEF Gapped, Still
<1>4. Parted(v)
  BY <1>2, <1>3, AlertEnds
<1>5. MaskSounds(v) /\ MaskBrief(v)
  BY <1>3 DEF MaskSounds, MaskBrief
<1> QED
  BY <1>3, <1>4, <1>5 DEF MaskFeeds, v

\* The key goes down.
LEMMA OnsetFeeds ==
  ASSUME NEW w, MaskGood(w), MaskSounds(w), Alert(w), ~w.high, w.has, NEW c
  PROVE  MaskFeeds(w, Mask!MarkOnset(w, c))
<1> DEFINE x == [w EXCEPT !.high = TRUE, !.run = 0, !.valley = -1, !.peak = FALSE]
           h == Mask!handleSpaceGap(x, x.since, c)
           e == Mask!MarkOnset(w, c)
           yes == TRUE
           no == FALSE
           nil == 0
           none == -1
<1>1. yes \in BOOLEAN /\ no \in BOOLEAN /\ nil \in Int /\ none \in Int
  OBVIOUS
<1>2. SetsOnsetOf(w, x, yes, nil, none, no)
  BY DEF SetsOnsetOf
<1>3. IsMask(w) /\ MaskClocks(w)
  BY DEF MaskGood
<1>4. \/ e = x /\ w.since < 0
      \/ e = Mask!handleSpaceGap(x, w.since, c) /\ ~(w.since < 0)
  <2> HIDE DEF x
  <2> QED
    BY DEF Mask!MarkOnset, x
<1> HIDE DEF yes, no, nil, none, x, e
<1>5. Reclocked(w, x) /\ ClocksAre(x, w.has, yes, nil, w.since, none, w.apart)
  BY <1>1, <1>2, <1>3, OnsetReset
<1>6. /\ x.run = 0 /\ x.since = w.since /\ x.valley = -1 /\ x.pending = w.pending /\ x.apart = w.apart
      /\ x.unit = w.unit /\ x.calibrated = w.calibrated
  BY <1>5 DEF ClocksAre, Reclocked, nil, none
<1>7. x.has /\ x.high
  BY <1>5 DEF ClocksAre, yes
<1>8. MaskGoes(w, x)
  <2>1. Mask!Cap \in Nat
    BY MaskCap
  <2>2. x.run \in 0 .. Mask!Cap /\ x.valley \in -1 .. Mask!Cap /\ ~(x.valley >= 0)
    BY <1>6, <2>1
  <2>3. x.since \in -1 .. Mask!Cap
    BY <1>3, <1>6 DEF MaskClocks
  <2> QED
    BY <1>5, <2>2, <2>3, ReclockGoes
<1>9. MaskGood(x)
  BY <1>8 DEF MaskGoes
<1>10. Mask!elemMax(x) = Mask!elemMax(w)
  BY <1>6 DEF Mask!elemMax
<1>11. Gapped(x, h) /\ (h.pending # << >> => 10 * w.since < Mask!elemMax(w))
  <2>1. Gapped(x, h)
    BY <1>9, GapGoes
  <2>2. h.pending # << >> => 10 * x.since < Mask!elemMax(x)
    BY <1>9, GapGoes
  <2> HIDE DEF h
  <2> QED
    BY <1>6, <1>10, <2>1, <2>2
<1>12. e \in {x, h} /\ (e = h \/ w.since < 0)
  BY <1>4, <1>6
<1> HIDE DEF h
<1>13. Gapped(x, e)
  <2>1. Gapped(x, x)
    BY <1>9, StaysGapped
  <2> QED
    BY <1>11, <1>12, <2>1
<1>14. /\ MaskGoes(x, e) /\ e.has = x.has /\ e.high = x.high /\ e.run = x.run /\ e.since = x.since
       /\ e.apart = x.apart /\ (e.pending = x.pending \/ e.pending = << >>)
  BY <1>13 DEF Gapped, Still
<1>15. MaskGoes(w, e)
  BY <1>8, <1>9, <1>14, MaskGoesOn
<1>16. Parted(e)
  <2>1. e.pending # << >> => \/ w.since < 0 \/ 10 * w.since < Mask!letterMin(w)
                             \/ 10 * w.since < Mask!elemMax(w)
    BY <1>11, <1>12
  <2>2. e.apart = w.apart /\ (e.pending = w.pending \/ e.pending = << >>)
    BY <1>6, <1>14
  <2> QED
    BY <2>1, <2>2, AlertEnds
<1>17. MaskBrief(e)
  <2>1. LongMask \in Nat
    BY MaskConstants
  <2> QED
    BY <1>6, <1>14, <2>1 DEF MaskBrief
<1>18. MaskSounds(e)
  <2>1. e.pending # << >> => w.pending # << >>
    BY <1>6, <1>14
  <2>2. e.high /\ e.has /\ e.since = w.since
    BY <1>6, <1>7, <1>14
  <2> QED
    BY <2>1, <2>2 DEF MaskSounds
<1> QED
  BY <1>15, <1>16, <1>17, <1>18 DEF MaskFeeds, e

\* The choices of a column.
Chosen(c) == c.elements \in 0 .. 2 /\ c.est \in {0} \cup Units /\ c.look \in {0} \cup Units

\* The pulse of a mark, after the dit has been measured.
LEMMA PulseFeeds ==
  ASSUME NEW w, MaskGood(w), Parted(w), NEW len, NEW allow, NEW c, Chosen(c), NEW v, NEW m,
         v = Mask!recomputeDitDahWidths(w, c.est), m = Mask!tryMatchPulse(v, len, allow, c)
  PROVE  /\ MaskGoes(w, m) /\ Parted(m) /\ m.has = w.has /\ m.high = w.high /\ m.run = w.run
         /\ m.since = w.since /\ m.valley = w.valley
         /\ Mask!Matched(v, m) \/ m.pending = w.pending
<1>1. Measured(w, v)
  BY WidthMeasured DEF Chosen
<1>2. /\ MaskTicks(w, v) /\ v.has = w.has /\ v.high = w.high /\ v.run = w.run /\ v.since = w.since
      /\ v.valley = w.valley /\ v.apart = w.apart /\ v.pending = w.pending
  BY <1>1 DEF Measured, MaskTicks
<1>3. MaskGoes(w, v) /\ MaskGood(v) /\ Parted(v)
  <2>1. MaskGoes(w, v)
    BY <1>2, MaskTicksGo
  <2> QED
    BY <1>2, <2>1 DEF MaskGoes, Parted
<1>4. Emits(v, m)
  BY <1>3, PulseEmits DEF Chosen
<1>5. /\ MaskGoes(v, m) /\ Parted(m) /\ m.has = v.has /\ m.high = v.high /\ m.run = v.run
      /\ m.since = v.since /\ m.valley = v.valley /\ v.next <= m.next /\ (m.next = v.next => m = v)
  BY <1>4 DEF Emits, Held
<1>6. MaskGoes(w, m)
  BY <1>3, <1>5, MaskGoesOn
<1>7. Mask!Matched(v, m) \/ m.pending = w.pending
  <2>1. v.next \in Nat /\ m.next \in Nat
    BY <1>3, <1>5, MaskTypes DEF MaskGoes, MaskGood
  <2>2. m.next > v.next \/ m.next = v.next
    BY <1>5, <2>1
  <2> QED
    BY <1>2, <1>5, <2>2 DEF Mask!Matched
<1> QED
  BY <1>2, <1>5, <1>6, <1>7

LEMMA EndFeeds ==
  ASSUME NEW w, MaskGood(w), MaskSounds(w), Parted(w), w.has, w.high, NEW c, Chosen(c)
  PROVE  MaskFeeds(w, Mask!MarkEnd(w, c))
<1> DEFINE len == IF w.valley >= 0 /\ w.run > w.valley THEN w.run - w.valley ELSE w.run
           v == Mask!recomputeDitDahWidths(w, c.est)
           m == Mask!tryMatchPulse(v, len, TRUE, c)
           fresh == w.since < 0 \/ Mask!Matched(v, m)
           since == IF fresh THEN 0 ELSE m.since
           e == [m EXCEPT !.since = since, !.high = FALSE, !.run = 0, !.valley = -1, !.peak = FALSE]
           gap == e.since + (5 * e.unit) \div 2
           r == Mask!flushLetterIfNeeded(e, gap, c)
           no == FALSE
           nil == 0
           none == -1
<1>1. Mask!MarkEnd(w, c) = r
  BY DEF Mask!MarkEnd
<1>2. /\ MaskGoes(w, m) /\ Parted(m) /\ m.has = w.has /\ m.since = w.since
      /\ Mask!Matched(v, m) \/ m.pending = w.pending
  <2> DEFINE allow == TRUE
  <2>0. v = Mask!recomputeDitDahWidths(w, c.est) /\ m = Mask!tryMatchPulse(v, len, allow, c)
    OBVIOUS
  <2> HIDE DEF len, v, m, allow
  <2>1. MaskGoes(w, m) /\ Parted(m)
    BY <2>0, PulseFeeds
  <2>2. m.has = w.has
    BY <2>0, PulseFeeds
  <2>5. m.since = w.since
    BY <2>0, PulseFeeds
  <2>3. Mask!Matched(v, m) \/ m.pending = w.pending
    BY <2>0, PulseFeeds
  <2> QED
    BY <2>1, <2>2, <2>3, <2>5
<1> HIDE DEF len, v, m
<1>3. no \in BOOLEAN /\ nil \in Int /\ none \in Int
  OBVIOUS
<1>4. SetsEndOf(m, e, since, no, nil, none, no)
  <2> HIDE DEF since
  <2> QED
    BY DEF SetsEndOf
<1>5. IsMask(m) /\ MaskClocks(m) /\ MaskGood(m) /\ m.since \in -1 .. Mask!Cap /\ Mask!Cap \in Nat
  BY <1>2, MaskCap DEF MaskGoes, MaskGood, MaskClocks
<1>6. since \in 0 .. Mask!Cap /\ since \in Int
  <2>1. fresh \/ m.since >= 0
    BY <1>2, <1>5
  <2> HIDE DEF fresh
  <2> QED
    BY <1>5, <2>1
<1> HIDE DEF since, no, nil, none, e
<1>7. Reclocked(m, e) /\ ClocksAre(e, m.has, no, nil, since, none, m.apart)
  BY <1>3, <1>4, <1>5, <1>6, EndReset
<1>8. /\ e.run = 0 /\ e.since = since /\ e.valley = -1 /\ e.pending = m.pending /\ e.apart = m.apart
      /\ e.has = w.has
  BY <1>2, <1>7 DEF ClocksAre, Reclocked, nil, none
<1>9. ~e.high
  BY <1>7 DEF ClocksAre, no
<1>10. MaskGoes(m, e)
  <2>1. e.run \in 0 .. Mask!Cap /\ e.since \in -1 .. Mask!Cap /\ e.valley \in -1 .. Mask!Cap /\ ~(e.valley >= 0)
    BY <1>5, <1>6, <1>8
  <2> QED
    BY <1>5, <1>7, <2>1, ReclockGoes
<1> HIDE DEF gap
<1>11. Gapped(e, r)
  <2>1. MaskGood(e)
    BY <1>10 DEF MaskGoes
  <2> QED
    BY <2>1, MaskFlushGoes
<1> HIDE DEF r
<1>12. /\ MaskGoes(e, r) /\ r.has = e.has /\ r.high = e.high /\ r.run = e.run /\ r.since = e.since
       /\ r.apart = e.apart /\ (r.pending = e.pending \/ r.pending = << >>)
  BY <1>11 DEF Gapped, Still
<1>13. MaskGoes(w, r)
  <2>1. MaskGoes(w, e)
    BY <1>2, <1>10, MaskGoesOn
  <2> QED
    BY <1>12, <2>1, MaskGoesOn
<1>14. Parted(r)
  BY <1>2, <1>8, <1>12 DEF Parted
<1>15. MaskBrief(r)
  BY <1>9, <1>12 DEF MaskBrief
<1>16. MaskSounds(r)
  <2>1. r.has /\ r.since >= 0 /\ r.run <= r.since
    BY <1>6, <1>8, <1>12
  <2> QED
    BY <2>1 DEF MaskSounds
<1>17. MaskFeeds(w, r)
  BY <1>13, <1>14, <1>15, <1>16 DEF MaskFeeds
<1> QED
  BY <1>1, <1>17

LEMMA SplitFeeds ==
  ASSUME NEW w, MaskGood(w), MaskSounds(w), Parted(w), MaskBrief(w), w.has, w.high, w.valley >= 0,
         NEW c, Chosen(c)
  PROVE  MaskFeeds(w, Mask!splitMarkAtValley(w, c))
<1> DEFINE len == w.run - w.valley
           v == Mask!recomputeDitDahWidths(w, c.est)
           m == Mask!tryMatchPulse(v, len, FALSE, c)
           match == Mask!Matched(v, m)
           since == IF match THEN w.valley ELSE m.since
           a == [w EXCEPT !.valley = -1]
           e == [m EXCEPT !.since = since, !.run = 0, !.valley = -1, !.peak = TRUE]
           r == Mask!splitMarkAtValley(w, c)
           yes == TRUE
           nil == 0
           none == -1
<1>1. r \in {a, e}
  <2> HIDE DEF a
  <2>1. r = IF w.run <= w.valley THEN a ELSE e
    BY DEF Mask!splitMarkAtValley, a
  <2> HIDE DEF r, e
  <2> QED
    BY <2>1
<1>2. /\ MaskGoes(w, m) /\ Parted(m) /\ m.has = w.has /\ m.high = w.high /\ m.since = w.since
      /\ match \/ m.pending = w.pending
  <2> DEFINE allow == FALSE
  <2>0. v = Mask!recomputeDitDahWidths(w, c.est) /\ m = Mask!tryMatchPulse(v, len, allow, c)
    OBVIOUS
  <2> HIDE DEF len, v, m, allow
  <2>1. MaskGoes(w, m) /\ Parted(m)
    BY <2>0, PulseFeeds
  <2>2. m.has = w.has
    BY <2>0, PulseFeeds
  <2>5. m.since = w.since
    BY <2>0, PulseFeeds
  <2>3. m.high = w.high
    BY <2>0, PulseFeeds
  <2>4. Mask!Matched(v, m) \/ m.pending = w.pending
    BY <2>0, PulseFeeds
  <2> QED
    BY <2>1, <2>2, <2>3, <2>4, <2>5
<1> HIDE DEF len, v, m, match
<1>3. yes \in BOOLEAN /\ nil \in Int /\ none \in Int
  OBVIOUS
<1>4. SetsSplitOf(m, e, since, nil, none, yes)
  <2> HIDE DEF since
  <2> QED
    BY DEF SetsSplitOf
<1>5. IsMask(m) /\ MaskGood(m) /\ m.since \in -1 .. Mask!Cap /\ Mask!Cap \in Nat
  BY <1>2, MaskCap DEF MaskGoes, MaskGood, MaskClocks
<1>6. IsMask(w) /\ MaskClocks(w) /\ w.valley \in -1 .. Mask!Cap
  BY DEF MaskGood, MaskClocks
<1>7. since \in -1 .. Mask!Cap /\ since \in Int
  BY <1>5, <1>6
<1>8. SetsValleyOf(w, a, none)
  BY DEF SetsValleyOf
<1>9. since >= 0 \/ (since = w.since /\ m.pending = w.pending)
  BY <1>2
<1> HIDE DEF since, yes, nil, none, e, a, r
<1>10. MaskFeeds(w, a)
  <2>1. Reclocked(w, a) /\ ClocksAre(a, w.has, w.high, w.run, w.since, none, w.apart)
    BY <1>3, <1>6, <1>8, ValleyReset
  <2>2. /\ a.run = w.run /\ a.since = w.since /\ a.valley = -1 /\ a.pending = w.pending
        /\ a.apart = w.apart /\ a.has = w.has /\ a.high = w.high
    BY <2>1 DEF ClocksAre, Reclocked, none
  <2>3. MaskGoes(w, a)
    <3>1. a.run \in 0 .. Mask!Cap /\ a.since \in -1 .. Mask!Cap /\ a.valley \in -1 .. Mask!Cap /\ ~(a.valley >= 0)
      BY <1>5, <1>6, <2>2 DEF MaskClocks
    <3> QED
      BY <2>1, <3>1, ReclockGoes
  <2>4. MaskSounds(a) /\ MaskBrief(a) /\ Parted(a)
    BY <2>2 DEF MaskSounds, MaskBrief, Parted
  <2> QED
    BY <2>3, <2>4 DEF MaskFeeds
<1>11. MaskFeeds(w, e)
  <2>1. Reclocked(m, e) /\ ClocksAre(e, m.has, m.high, nil, since, none, m.apart)
    BY <1>3, <1>4, <1>5, <1>7, SplitReset
  <2>2. /\ e.run = 0 /\ e.since = since /\ e.valley = -1 /\ e.pending = m.pending
        /\ e.apart = m.apart /\ e.has = w.has /\ e.high = w.high
    BY <1>2, <2>1 DEF ClocksAre, Reclocked, none, nil
  <2>3. MaskGoes(m, e)
    <3>1. e.run \in 0 .. Mask!Cap /\ e.since \in -1 .. Mask!Cap /\ e.valley \in -1 .. Mask!Cap /\ ~(e.valley >= 0)
      BY <1>5, <1>7, <2>2
    <3> QED
      BY <1>5, <2>1, <3>1, ReclockGoes
  <2>4. MaskGoes(w, e)
    BY <1>2, <2>3, MaskGoesOn
  <2>5. Parted(e)
    BY <1>2, <2>2 DEF Parted
  <2>6. MaskBrief(e)
    <3>1. LongMask \in Nat
      BY MaskConstants
    <3> QED
      BY <2>2, <3>1 DEF MaskBrief
  <2>7. MaskSounds(e)
    <3>1. e.pending # << >> => since >= 0
      BY <1>9, <2>2 DEF MaskSounds
    <3>2. e.has /\ e.high
      BY <2>2
    <3> QED
      BY <2>2, <3>1, <3>2 DEF MaskSounds
  <2> QED
    BY <2>4, <2>5, <2>6, <2>7 DEF MaskFeeds
<1>12. MaskFeeds(w, r)
  BY <1>1, <1>10, <1>11
<1> QED
  BY <1>12 DEF r

LEMMA FeedsOn ==
  ASSUME NEW w, NEW v, NEW u, MaskGood(w), MaskGoes(w, v), MaskFeeds(v, u)
  PROVE  MaskFeeds(w, u)
BY MaskGoesOn DEF MaskFeeds

\* Only the clocks of a mark are another.
LEMMA MarkFeeds ==
  ASSUME NEW w, MaskWell(w), w.has, w.high, NEW v, Reclocked(w, v),
         v.has = w.has, v.high = w.high, v.since = w.since, v.apart = w.apart,
         v.run \in 0 .. LongMask, v.valley \in -1 .. 0
  PROVE  MaskFeeds(w, v)
<1>1. Mask!Cap \in Nat /\ LongMask + 1 <= Mask!Cap /\ LongMask \in Nat
  BY MaskCap, MaskConstants
<1>2. MaskGood(w) /\ MaskClocks(w) /\ MaskSounds(w) /\ Parted(w)
  BY DEF MaskWell, MaskGood
<1>3. v.pending = w.pending
  BY DEF Reclocked
<1>4. MaskGoes(w, v)
  <2>1. v.run \in 0 .. Mask!Cap /\ v.valley \in -1 .. Mask!Cap /\ (v.valley >= 0 => v.high /\ v.valley <= v.run)
    BY <1>1
  <2>2. v.since \in -1 .. Mask!Cap
    BY <1>2 DEF MaskClocks
  <2> QED
    BY <1>2, <2>1, <2>2, ReclockGoes
<1>5. MaskSounds(v)
  BY <1>2, <1>3 DEF MaskSounds
<1>6. Parted(v)
  BY <1>2, <1>3 DEF Parted
<1>7. MaskBrief(v)
  BY <1>1 DEF MaskBrief
<1> QED
  BY <1>4, <1>5, <1>6, <1>7 DEF MaskFeeds

LEMMA StaysFed ==
  ASSUME NEW w, MaskWell(w)
  PROVE  MaskFeeds(w, w)
BY MaskStays DEF MaskWell, MaskFeeds

LEMMA DipFeeds ==
  ASSUME NEW w, MaskWell(w), w.has, w.high, NEW u,
         \/ u = [w EXCEPT !.valley = 0]
         \/ u = [w EXCEPT !.valley = -1, !.peak = TRUE]
         \/ u = [w EXCEPT !.valley = -1, !.run = 0]
  PROVE  MaskFeeds(w, u)
<1> DEFINE yes == TRUE
           nil == 0
           none == -1
<1>1. yes \in BOOLEAN /\ nil \in Int /\ none \in Int
  OBVIOUS
<1>2. /\ IsMask(w) /\ w.run \in 0 .. LongMask /\ LongMask \in Nat
  <2>1. w.run \in 0 .. Mask!Cap /\ w.run <= LongMask /\ LongMask \in Nat /\ Mask!Cap \in Nat
    BY MaskCap, MaskConstants DEF MaskWell, MaskGood, MaskClocks, MaskBrief
  <2> QED
    BY <2>1 DEF MaskWell, MaskGood
<1>3. SetsValleyOf(w, u, nil) \/ SetsValleyPeakOf(w, u, none, yes) \/ SetsValleyRunOf(w, u, none, nil)
  BY DEF SetsValleyOf, SetsValleyPeakOf, SetsValleyRunOf
<1> HIDE DEF yes, nil, none
<1>4. CASE SetsValleyOf(w, u, nil)
  <2>1. Reclocked(w, u) /\ ClocksAre(u, w.has, w.high, w.run, w.since, nil, w.apart)
    BY <1>1, <1>2, <1>4, ValleyReset
  <2>2. /\ u.has = w.has /\ u.high = w.high /\ u.since = w.since /\ u.apart = w.apart
        /\ u.run \in 0 .. LongMask /\ u.valley \in -1 .. 0
    BY <1>2, <2>1 DEF ClocksAre, nil
  <2> QED
    BY <2>1, <2>2, MarkFeeds
<1>5. CASE SetsValleyPeakOf(w, u, none, yes)
  <2>1. Reclocked(w, u) /\ ClocksAre(u, w.has, w.high, w.run, w.since, none, w.apart)
    BY <1>1, <1>2, <1>5, ValleyPeakReset
  <2>2. /\ u.has = w.has /\ u.high = w.high /\ u.since = w.since /\ u.apart = w.apart
        /\ u.run \in 0 .. LongMask /\ u.valley \in -1 .. 0
    BY <1>2, <2>1 DEF ClocksAre, none
  <2> QED
    BY <2>1, <2>2, MarkFeeds
<1>6. CASE SetsValleyRunOf(w, u, none, nil)
  <2>1. Reclocked(w, u) /\ ClocksAre(u, w.has, w.high, nil, w.since, none, w.apart)
    BY <1>1, <1>2, <1>6, ValleyRunReset
  <2>2. /\ u.has = w.has /\ u.high = w.high /\ u.since = w.since /\ u.apart = w.apart
        /\ u.run \in 0 .. LongMask /\ u.valley \in -1 .. 0
    BY <1>2, <2>1 DEF ClocksAre, none, nil
  <2> QED
    BY <2>1, <2>2, MarkFeeds
<1> QED
  BY <1>3, <1>4, <1>5, <1>6

LEMMA PeakForgotten ==
  ASSUME NEW w, MaskWell(w), NEW v, v = [w EXCEPT !.peak = FALSE]
  PROVE  MaskGoes(w, v) /\ MaskWell(v) /\ v.has = w.has /\ v.high = w.high
<1> DEFINE no == FALSE
<1>1. no \in BOOLEAN /\ IsMask(w) /\ MaskGood(w) /\ MaskClocks(w)
  BY DEF MaskWell, MaskGood
<1>2. SetsPeakOf(w, v, no)
  BY DEF SetsPeakOf
<1> HIDE DEF no
<1>3. Reclocked(w, v) /\ ClocksAre(v, w.has, w.high, w.run, w.since, w.valley, w.apart)
  BY <1>1, <1>2, PeakReset
<1>4. /\ v.has = w.has /\ v.high = w.high /\ v.run = w.run /\ v.since = w.since /\ v.valley = w.valley
      /\ v.apart = w.apart /\ v.pending = w.pending
  BY <1>3 DEF ClocksAre, Reclocked
<1>5. MaskGoes(w, v)
  <2>1. /\ v.run \in 0 .. Mask!Cap /\ v.since \in -1 .. Mask!Cap /\ v.valley \in -1 .. Mask!Cap
        /\ v.valley >= 0 => v.high /\ v.valley <= v.run
    BY <1>1, <1>4 DEF MaskClocks
  <2> QED
    BY <1>1, <1>3, <2>1, ReclockGoes
<1>6. MaskSounds(v) /\ MaskBrief(v) /\ Parted(v)
  BY <1>4 DEF MaskWell, MaskSounds, MaskBrief, Parted
<1> QED
  BY <1>4, <1>5, <1>6 DEF MaskWell, MaskGoes

\* A column of a mark.
LEMMA ValleyFeeds ==
  ASSUME NEW w, MaskWell(w), w.has, w.high, NEW level, NEW c, Chosen(c)
  PROVE  MaskFeeds(w, Mask!processIntraMarkValley(w, level, c))
<1> DEFINE p == [w EXCEPT !.peak = FALSE]
           v == IF level = "high" THEN p ELSE w
           a == [v EXCEPT !.valley = 0]
           s == Mask!splitMarkAtValley(v, c)
           b == [v EXCEPT !.valley = -1, !.peak = TRUE]
           d == [v EXCEPT !.valley = -1, !.run = 0]
           e == Mask!processIntraMarkValley(w, level, c)
<1>1. e \in {v, a, b, d} \/ (e = s /\ ~(v.valley < 0))
  <2> HIDE DEF v, a, s, b, d
  <2>1. e = IF level = "dip" /\ ~v.peak
        THEN IF v.valley < 0 THEN a
             ELSE IF 100 * v.valley >= Mask!MinValley(v) /\ 100 * (v.run - v.valley) >= Mask!MinBody(v)
             THEN s
             ELSE IF 100 * v.valley > Mask!MaxValley(v) THEN b
             ELSE v
        ELSE IF level = "high" /\ v.valley >= 0
        THEN d
        ELSE v
    BY DEF Mask!processIntraMarkValley, v, a, s, b, d, p
  <2> DEFINE long == 100 * v.valley >= Mask!MinValley(v) /\ 100 * (v.run - v.valley) >= Mask!MinBody(v)
             wide == 100 * v.valley > Mask!MaxValley(v)
  <2> HIDE DEF e, long, wide
  <2>2. e = IF level = "dip" /\ ~v.peak
        THEN IF v.valley < 0 THEN a
             ELSE IF long
             THEN s
             ELSE IF wide THEN b
             ELSE v
        ELSE IF level = "high" /\ v.valley >= 0
        THEN d
        ELSE v
    BY <2>1 DEF long, wide
  <2> QED
    BY <2>2
<1> HIDE DEF e
<1>2. MaskGoes(w, v) /\ MaskWell(v) /\ v.has /\ v.high
  <2>1. MaskGoes(w, p) /\ MaskWell(p) /\ p.has = w.has /\ p.high = w.high
    BY PeakForgotten
  <2>2. MaskGoes(w, w)
    BY MaskStays DEF MaskWell
  <2>3. v \in {p, w}
    OBVIOUS
  <2> HIDE DEF p, v
  <2>4. CASE v = p
    BY <2>1, <2>4
  <2>5. CASE v = w
    BY <2>2, <2>5
  <2> QED
    BY <2>3, <2>4, <2>5
<1> HIDE DEF v, p
<1>3. MaskFeeds(v, a)
  BY <1>2, DipFeeds
<1>4. MaskFeeds(v, b)
  BY <1>2, DipFeeds
<1>5. MaskFeeds(v, d)
  BY <1>2, DipFeeds
<1>6. MaskFeeds(v, v)
  BY <1>2, StaysFed
<1>7. ASSUME ~(v.valley < 0) PROVE MaskFeeds(v, s)
  <2>1. v.valley \in Int /\ MaskGood(v) /\ MaskSounds(v) /\ Parted(v) /\ MaskBrief(v)
    BY <1>2, MaskTypes DEF MaskWell, MaskGood
  <2>2. v.valley >= 0
    BY <1>7, <2>1
  <2> QED
    BY <1>2, <2>1, <2>2, SplitFeeds
<1> HIDE DEF a, b, d, s
<1>8. MaskFeeds(v, e)
  BY <1>1, <1>3, <1>4, <1>5, <1>6, <1>7
<1>9. MaskGood(w)
  BY DEF MaskWell
<1>10. MaskFeeds(w, e)
  BY <1>2, <1>8, <1>9, FeedsOn
<1> QED
  BY <1>10 DEF e

\* A column.
LEMMA ColumnFeeds ==
  ASSUME NEW w, MaskWell(w), NEW level, level \in {"low", "dip", "high"},
         level # "low" /\ w.high => w.run < LongMask, NEW c, Chosen(c)
  PROVE  MaskFeeds(w, Mask!feedSample(w, level, c))
<1> DEFINE z == Mask!updateLocalMaskFromLookahead(Mask!Listen(Mask!Elapse(w)), c.look)
           f == Mask!flushLetterIfNeeded(z, z.since, c)
           high == level # "low"
           first == [z EXCEPT !.has = TRUE, !.high = high, !.run = 0, !.valley = -1, !.peak = FALSE]
           e == Mask!feedSample(w, level, c)
<1>1. \/ e = first /\ ~z.has
      \/ e = Mask!MarkOnset(z, c) /\ z.has /\ ~z.high
      \/ e = Mask!MarkEnd(z, c) /\ z.has /\ z.high
      \/ e = Mask!processIntraMarkValley(z, level, c) /\ z.has /\ z.high /\ level # "low"
      \/ e = f /\ ~z.high
  <2> DEFINE v == IF level = "low" /\ ~z.high THEN f ELSE z
  <2> HIDE DEF z, f, first
  <2>1. e = IF ~z.has THEN first
            ELSE IF level # "low" /\ ~z.high THEN Mask!MarkOnset(v, c)
            ELSE IF level = "low" /\ z.high THEN Mask!MarkEnd(v, c)
            ELSE IF level # "low" THEN Mask!processIntraMarkValley(v, level, c)
            ELSE v
    BY DEF Mask!feedSample, z, f, first
  <2>2. level # "low" \/ z.high => v = z
    OBVIOUS
  <2>3. level = "low" /\ ~z.high => v = f
    OBVIOUS
  <2> HIDE DEF v, e
  <2> QED
    BY <2>1, <2>2, <2>3
<1> SUFFICES MaskFeeds(w, e)
  OBVIOUS
<1> HIDE DEF e
<1>2. /\ MaskGoes(w, z) /\ MaskSounds(z) /\ Alert(z) /\ z.has = w.has /\ z.high = w.high
      /\ w.high /\ w.run < LongMask => z.run <= LongMask
  BY HearsGoes DEF Chosen
<1> HIDE DEF z
<1>3. MaskGood(w) /\ MaskGood(z)
  BY <1>2 DEF MaskWell, MaskGoes
<1>4. z.high => Parted(z)
  BY <1>2 DEF Alert, Parted
<1>11. MaskGoes(w, z)
  BY <1>2
<1>12. \A u : MaskFeeds(z, u) => MaskFeeds(w, u)
  BY <1>3, <1>11, FeedsOn
<1>5. CASE e = first /\ ~z.has
  <2>1. high \in BOOLEAN
    OBVIOUS
  <2>2. first = [z EXCEPT !.has = TRUE, !.high = high, !.run = 0, !.valley = -1, !.peak = FALSE]
    OBVIOUS
  <2> HIDE DEF first, high
  <2>3. MaskFeeds(z, first)
    BY <1>2, <1>3, <1>5, <2>1, <2>2, FirstFeeds
  <2> QED
    BY <1>5, <1>12, <2>3
<1>6. CASE e = Mask!MarkOnset(z, c) /\ z.has /\ ~z.high
  <2>1. MaskFeeds(z, e)
    BY <1>2, <1>3, <1>6, OnsetFeeds
  <2> QED
    BY <1>12, <2>1
<1>7. CASE e = Mask!MarkEnd(z, c) /\ z.has /\ z.high
  <2>1. MaskFeeds(z, e)
    BY <1>2, <1>3, <1>4, <1>7, EndFeeds
  <2> QED
    BY <1>12, <2>1
<1>8. CASE e = Mask!processIntraMarkValley(z, level, c) /\ z.has /\ z.high /\ level # "low"
  <2>1. MaskWell(z)
    BY <1>2, <1>3, <1>4, <1>8 DEF MaskWell, MaskBrief
  <2>2. MaskFeeds(z, e)
    BY <1>8, <2>1, ValleyFeeds
  <2> QED
    BY <1>12, <2>2
<1>9. CASE e = f /\ ~z.high
  <2>1. MaskFeeds(z, e)
    BY <1>2, <1>3, <1>9, SilenceFeeds
  <2> QED
    BY <1>12, <2>1
<1> HIDE DEF first, f, high
<1> QED
  BY <1>1, <1>5, <1>6, <1>7, <1>8, <1>9

\* A text that may be there when a button has been pressed.
MaskTextOK(text, next, first) ==
    /\ Rising(text) /\ Len(text) <= kMaxScrollChars /\ next # 0
    /\ \A m \in MarksOf(text) : m < next
    /\ \A i \in 1 .. Len(text) : Together(text[i], first)

\* v has that text and no open letter.
MaskFresh(w, v, text) ==
    /\ IsMask(v) /\ MaskClocks(v) /\ v.pending = << >> /\ v.text = text /\ v.next = w.next
    /\ v.first = w.first /\ MaskBrief(v)

LEMMA MaskFreshIsWell ==
  ASSUME NEW w, MaskGood(w), NEW text, MaskTextOK(text, w.next, w.first), NEW v, MaskFresh(w, v, text)
  PROVE  MaskWell(v)
<1>1. /\ IsMask(v) /\ MaskClocks(v) /\ v.pending = << >> /\ v.text = text /\ v.next = w.next
      /\ v.first = w.first /\ MaskBrief(v)
      /\ Rising(text) /\ Len(text) <= kMaxScrollChars /\ w.next # 0
      /\ (\A m \in MarksOf(text) : m < w.next)
      /\ \A i \in 1 .. Len(text) : Together(text[i], w.first)
  BY DEF MaskFresh, MaskTextOK
<1>2. Len(v.pending) = 0 /\ MaxPending \in Nat
  BY <1>1, EmptySeq, MaskConstants
<1>3. \A k : k \notin 1 .. Len(v.pending) /\ k \notin 2 .. Len(v.pending)
  BY <1>2
<1>4. Asc(v.pending) /\ Under(text, v.pending) /\ Together(v.pending, v.first) /\ Len(v.pending) <= MaxPending
  BY <1>2, <1>3 DEF Asc, Under, Together
<1>5. \A m \in w.first : m \in Nat /\ m # 0 /\ m < w.next
  BY DEF MaskGood, ElementsOK
<1>6. ElementsOK(v.pending, v.text, v.next, v.first)
  BY <1>1, <1>3, <1>4, <1>5 DEF ElementsOK
<1>7. MaskSounds(v) /\ Parted(v)
  BY <1>1 DEF MaskSounds, Parted
<1> QED
  BY <1>1, <1>6, <1>7 DEF MaskWell, MaskGood

LEMMA MaskTextStays ==
  ASSUME NEW w, MaskGood(w)
  PROVE  MaskTextOK(w.text, w.next, w.first) /\ w.text \in Seq(Seq(Nat))
<1>1. ElementsOK(w.pending, w.text, w.next, w.first) /\ w.text \in Seq(Seq(Nat))
  BY MaskTypes DEF MaskGood
<1> QED
  BY <1>1 DEF ElementsOK, MaskTextOK

LEMMA MaskNoText ==
  ASSUME NEW next, next # 0, NEW first
  PROVE  MaskTextOK(<< >>, next, first)
<1>1. TextOK(<< >>, next) /\ Len(<< >>) = 0 /\ kMaxScrollChars \in Nat
  BY NoText, EmptySeq, MaskConstants
<1>2. \A i : i \notin 1 .. 0
  OBVIOUS
<1> QED
  BY <1>1, <1>2 DEF TextOK, MaskTextOK

LEMMA MaskOldText ==
  ASSUME NEW next \in Nat, next # 0, NEW first
  PROVE  MaskTextOK(<< << 0 >> >>, next, first) /\ << << 0 >> >> \in Seq(Seq(Nat))
<1> DEFINE l == <<0>>
           t == << l >>
<1>1. TextOK(t, next) /\ t \in Seq(Seq(Nat))
  BY OldText
<1>2. l \in Seq(Nat) /\ Len(l) = 1
  OBVIOUS
<1>3. Len(t) = 1 /\ t[1] = l
  <2> HIDE DEF l
  <2> QED
    BY <1>2, OneLetter
<1>4. (\A i : i \in 1 .. 1 <=> i = 1) /\ (\A i : i \notin 2 .. 1)
  OBVIOUS
<1>5. Together(l, first)
  BY <1>2, <1>4 DEF Together
<1> HIDE DEF l, t
<1>6. \A i \in 1 .. Len(t) : Together(t[i], first)
  BY <1>3, <1>4, <1>5
<1>7. Len(t) <= kMaxScrollChars
  BY <1>3, MaskConstants
<1>8. MaskTextOK(t, next, first)
  BY <1>1, <1>6, <1>7 DEF TextOK, MaskTextOK
<1> QED
  BY <1>1, <1>8 DEF t, l

LEMMA MaskClears ==
  ASSUME NEW w, MaskWell(w)
  PROVE  MaskWell(Mask!clearDecode(w))
<1> DEFINE v == Mask!clearDecode(w)
           LM == Seq(Nat)
           LT == Seq(Seq(Nat))
           none == << >>
           blank == << >>
           nil == 0
<1>1. v = [w EXCEPT !.text = blank, !.pending = none, !.digits = nil]
  BY DEF Mask!clearDecode
<1>2. /\ MaskFields(LM, LT, w) /\ MaskClocks(w) /\ none \in LM /\ blank \in LT
      /\ nil \in Int /\ nil \in 0 .. 2 /\ MaskGood(w) /\ MaskBrief(w)
  BY EmptySeq DEF MaskWell, MaskGood, IsMask
<1> HIDE DEF LM, LT, none, blank, nil, v
<1>3. /\ MaskFields(LM, LT, v) /\ v.pending = none /\ v.text = blank /\ v.next = w.next
      /\ v.first = w.first
  BY <1>1, <1>2 DEF MaskFields
<1>4. /\ v.high = w.high /\ v.run = w.run /\ v.since = w.since /\ v.valley = w.valley
      /\ v.gaps = w.gaps /\ v.digits = nil
  BY <1>1, <1>2 DEF MaskFields
<1>5. MaskFresh(w, v, blank)
  <2>1. MaskClocks(v)
    BY <1>2, <1>4 DEF MaskClocks
  <2>2. MaskBrief(v)
    BY <1>2, <1>4 DEF MaskBrief
  <2> QED
    BY <1>3, <2>1, <2>2 DEF MaskFresh, IsMask, LM, LT, none
<1>6. w.next # 0
  BY <1>2 DEF MaskGood, ElementsOK
<1>7. MaskTextOK(blank, w.next, w.first)
  BY <1>6, MaskNoText DEF blank
<1>8. MaskWell(v)
  BY <1>2, <1>5, <1>7, MaskFreshIsWell
<1> QED
  BY <1>8 DEF v

LEMMA MaskResets ==
  ASSUME NEW w, MaskWell(w), NEW text, text \in Seq(Seq(Nat)), MaskTextOK(text, w.next, w.first)
  PROVE  /\ MaskWell(Mask!resetTiming(w))
         /\ MaskWell([Mask!resetTiming(w) EXCEPT !.text = text])
<1> DEFINE r == Mask!resetTiming(w)
           a == [r EXCEPT !.text = text]
           LM == Seq(Nat)
           LT == Seq(Seq(Nat))
           none == << >>
           no == FALSE
           nil == 0
           off == -1
           known == ~w.autoWpm \/ ~w.autoWidth
           unit == w.slider
<1>1. r = [w EXCEPT !.unit = unit, !.calibrated = known, !.gaps = nil,
              !.has = no, !.high = no, !.since = off, !.pending = none, !.valley = off,
              !.peak = no, !.digits = nil, !.run = nil]
  BY DEF Mask!resetTiming
<1>2. /\ MaskFields(LM, LT, w) /\ MaskGood(w) /\ none \in LM /\ no \in BOOLEAN /\ text \in LT
      /\ nil \in Int /\ nil \in 0 .. Mask!Cap /\ off \in Int /\ off \in -1 .. Mask!Cap
      /\ known \in BOOLEAN /\ nil \in 0 .. 2 /\ ~(off >= 0)
  BY EmptySeq, MaskCap DEF MaskWell, MaskGood, IsMask
<1>3. unit \in Units
  BY <1>2 DEF MaskFields
<1>4. ~no
  OBVIOUS
<1> HIDE DEF LM, LT, none, no, nil, off, known, unit, r
<1>5. /\ MaskFields(LM, LT, r) /\ r.run = nil /\ r.since = off /\ r.valley = off /\ r.gaps = nil
      /\ r.digits = nil /\ r.high = no /\ r.pending = none /\ r.text = w.text /\ r.next = w.next
      /\ r.first = w.first
  <2> DEFINE x == [w EXCEPT !.unit = unit, !.calibrated = known, !.gaps = nil]
             y == [x EXCEPT !.has = no, !.high = no, !.since = off]
             z == [y EXCEPT !.pending = none, !.valley = off, !.peak = no]
  <2>1. r = [z EXCEPT !.digits = nil, !.run = nil]
    BY <1>1
  <2>2. /\ MaskFields(LM, LT, x) /\ x.text = w.text /\ x.next = w.next /\ x.first = w.first
        /\ x.gaps = nil
    BY <1>2, <1>3 DEF MaskFields
  <2> HIDE DEF x
  <2>3. /\ MaskFields(LM, LT, y) /\ y.text = w.text /\ y.next = w.next /\ y.first = w.first
        /\ y.gaps = nil /\ y.high = no /\ y.since = off
    BY <1>2, <2>2 DEF MaskFields
  <2> HIDE DEF y
  <2>4. /\ MaskFields(LM, LT, z) /\ z.text = w.text /\ z.next = w.next /\ z.first = w.first
        /\ z.gaps = nil /\ z.high = no /\ z.since = off /\ z.pending = none /\ z.valley = off
    BY <1>2, <2>3 DEF MaskFields
  <2> HIDE DEF z
  <2> QED
    BY <1>2, <2>1, <2>4 DEF MaskFields
<1>6. /\ MaskFields(LM, LT, a) /\ a.run = nil /\ a.since = off /\ a.valley = off /\ a.gaps = nil
      /\ a.digits = nil /\ a.high = no /\ a.pending = none /\ a.text = text /\ a.next = w.next
      /\ a.first = w.first
  BY <1>2, <1>5 DEF MaskFields
<1> HIDE DEF a
<1>7. ASSUME NEW v, MaskFields(LM, LT, v), v.run = nil, v.since = off, v.valley = off, v.gaps = nil,
             v.digits = nil, v.high = no, v.pending = none, v.next = w.next, v.first = w.first
      PROVE  MaskFresh(w, v, v.text)
  <2>1. MaskClocks(v)
    BY <1>2, <1>7 DEF MaskClocks
  <2>2. MaskBrief(v)
    BY <1>4, <1>7 DEF MaskBrief
  <2> QED
    BY <1>7, <2>1, <2>2 DEF MaskFresh, IsMask, LM, LT, none
<1>8. MaskFresh(w, r, w.text) /\ MaskFresh(w, a, text)
  BY <1>5, <1>6, <1>7
<1>9. MaskTextOK(w.text, w.next, w.first)
  BY <1>2, MaskTextStays
<1>10. MaskWell(r)
  BY <1>2, <1>8, <1>9, MaskFreshIsWell
<1>11. MaskWell(a)
  BY <1>2, <1>8, MaskFreshIsWell
<1> QED
  BY <1>10, <1>11 DEF a, r

\* Of the window, only what is known of the dit changes.
LEMMA DitChanged ==
  ASSUME NEW w, MaskWell(w), NEW v, Measured(w, v)
  PROVE  MaskWell(v)
<1>1. /\ MaskTicks(w, v) /\ v.has = w.has /\ v.high = w.high /\ v.run = w.run /\ v.since = w.since
      /\ v.valley = w.valley /\ v.apart = w.apart /\ v.pending = w.pending
  BY DEF Measured, MaskTicks
<1>2. MaskGood(w) /\ MaskSounds(w) /\ MaskBrief(w) /\ Parted(w)
  BY DEF MaskWell
<1>3. MaskGood(v)
  BY <1>1, <1>2, MaskTicksGo DEF MaskGoes
<1>4. MaskSounds(v) /\ MaskBrief(v) /\ Parted(v)
  BY <1>1, <1>2 DEF MaskSounds, MaskBrief, Parted
<1> QED
  BY <1>3, <1>4 DEF MaskWell

LEMMA DitAsked ==
  ASSUME NEW w, MaskWell(w), NEW flag, flag \in BOOLEAN, NEW known, known \in BOOLEAN,
         NEW unit \in Units, NEW v,
         \/ v = [w EXCEPT !.autoWpm = flag]
         \/ v = [w EXCEPT !.autoWidth = flag]
         \/ v = [w EXCEPT !.autoWpm = flag, !.unit = unit, !.calibrated = known]
         \/ v = [w EXCEPT !.autoWidth = flag, !.unit = unit, !.calibrated = known]
         \/ v = [w EXCEPT !.autoWpm = flag, !.slider = unit, !.unit = unit, !.calibrated = known]
  PROVE  Measured(w, v)
<1> DEFINE LM == Seq(Nat)
           LT == Seq(Seq(Nat))
<1>1. MaskFields(LM, LT, w) /\ MaskClocks(w)
  BY DEF MaskWell, MaskGood, IsMask
<1> HIDE DEF LM, LT
<1>2. /\ MaskFields(LM, LT, v) /\ v.pending = w.pending /\ v.text = w.text /\ v.next = w.next
      /\ v.out = w.out /\ v.first = w.first
  <2> USE <1>1 DEF MaskFields
  <2>1. CASE v = [w EXCEPT !.autoWpm = flag]
    BY <2>1
  <2>2. CASE v = [w EXCEPT !.autoWidth = flag]
    BY <2>2
  <2>3. CASE v = [w EXCEPT !.autoWpm = flag, !.unit = unit, !.calibrated = known]
    BY <2>3
  <2>4. CASE v = [w EXCEPT !.autoWidth = flag, !.unit = unit, !.calibrated = known]
    BY <2>4
  <2>5. CASE v = [w EXCEPT !.autoWpm = flag, !.slider = unit, !.unit = unit, !.calibrated = known]
    BY <2>5
  <2> QED
    BY <2>1, <2>2, <2>3, <2>4, <2>5
<1>3. /\ v.has = w.has /\ v.high = w.high /\ v.run = w.run /\ v.since = w.since
      /\ v.valley = w.valley /\ v.apart = w.apart /\ v.gaps = w.gaps /\ v.digits = w.digits
  BY <1>1 DEF MaskFields
<1>4. MaskClocks(v)
  BY <1>1, <1>3 DEF MaskClocks
<1> QED
  BY <1>2, <1>3, <1>4 DEF Measured, MaskTicks, IsMask, LM, LT

\* The same of the elements. That a letter gap leaves no letter open, so that no
\* element is joined to one before the gap, follows from how long the key is up.
MaskInv == MaskWell(mwin) /\ mheard \in 0 .. MaxMarks /\ masks \in 0 .. MaxButtons

LEMMA MaskStarts ==
  ASSUME Mask!Init
  PROVE  MaskInv
<1> DEFINE w == Mask!Start
           none == << >>
           blank == << >>
           never == {}
           LM == Seq(Nat)
           LT == Seq(Seq(Nat))
<1>1. SeedWidth \in Units /\ none \in LM /\ blank \in LT /\ MaxMarks \in Nat /\ MaxButtons \in Nat
      /\ Mask!Cap \in Nat
  BY EmptySeq, MaskConstants, MaskCap
<1>2. w = [has |-> FALSE, high |-> FALSE, run |-> 0, since |-> -1, valley |-> -1, peak |-> FALSE,
           pending |-> none, gaps |-> 0, digits |-> 0, unit |-> SeedWidth, slider |-> SeedWidth,
           calibrated |-> FALSE, autoWpm |-> TRUE, autoWidth |-> TRUE, text |-> blank,
           next |-> 1, out |-> never, first |-> never, apart |-> FALSE]
  BY DEF Mask!Start
<1> HIDE DEF LM, LT, none, blank, never, w
<1>3. /\ w.run = 0 /\ w.since = -1 /\ w.valley = -1 /\ w.gaps = 0 /\ w.digits = 0
      /\ w.pending = none /\ w.text = blank /\ w.next = 1 /\ w.first = never
  BY <1>2
<1>4. ~w.high /\ ~w.apart
  BY <1>2
<1>5. MaskFields(LM, LT, w)
  BY <1>1, <1>2 DEF MaskFields
<1>6. IsMask(w)
  BY <1>5 DEF IsMask, LM, LT
<1>7. MaskClocks(w)
  BY <1>1, <1>3 DEF MaskClocks
<1>8. MaskTextOK(blank, w.next, w.first)
  BY <1>3, MaskNoText DEF blank
<1>9. Len(w.pending) = 0 /\ w.pending = << >> /\ MaxPending \in Nat
  BY <1>3, EmptySeq, MaskConstants DEF none
<1>10. \A k : k \notin 1 .. Len(w.pending) /\ k \notin 2 .. Len(w.pending)
  BY <1>9
<1>11. Asc(w.pending) /\ Under(w.text, w.pending) /\ Together(w.pending, w.first) /\ Len(w.pending) <= MaxPending
  BY <1>9, <1>10 DEF Asc, Under, Together
<1>12. \A m : m \notin w.first
  BY <1>3 DEF never
<1>13. ElementsOK(w.pending, w.text, w.next, w.first)
  BY <1>3, <1>8, <1>10, <1>11, <1>12 DEF ElementsOK, MaskTextOK
<1>14. MaskWell(w)
  BY <1>4, <1>6, <1>7, <1>9, <1>13 DEF MaskWell, MaskGood, MaskSounds, MaskBrief, Parted
<1>15. mwin = w /\ mheard = 0 /\ masks = 0
  BY DEF Mask!Init, w
<1> QED
  BY <1>1, <1>14, <1>15 DEF MaskInv

LEMMA MaskChoices ==
  ASSUME NEW w, NEW level, NEW c, c \in Mask!Outcomes(w, level) \cup {Mask!NoOutcome}
  PROVE  Chosen(c)
<1> DEFINE E == IF w.high THEN 0 .. 2 ELSE {0}
           U == IF w.high THEN {0} \cup Units ELSE {0}
           L == IF w.high \/ ~w.autoWidth THEN {0} ELSE {0} \cup Units
<1>1. E \subseteq 0 .. 2 /\ U \subseteq {0} \cup Units /\ L \subseteq {0} \cup Units
  OBVIOUS
<1>2. CASE c \in Mask!Outcomes(w, level)
  <2> HIDE DEF E, U, L
  <2>1. c.elements \in E /\ c.est \in U /\ c.look \in L
    BY <1>2 DEF Mask!Outcomes, E, U, L
  <2> QED
    BY <1>1, <2>1 DEF Chosen
<1>3. CASE c = Mask!NoOutcome
  BY <1>3 DEF Mask!NoOutcome, Chosen
<1> QED
  BY <1>2, <1>3

LEMMA MaskFeedGoes ==
  ASSUME MaskInv, NEW level, level \in {"low", "dip", "high"}, Mask!Feed(level)
  PROVE  MaskFeeds(mwin, mwin') /\ mheard' \in 0 .. MaxMarks /\ masks' = masks
<1>1. MaskWell(mwin) /\ mheard \in 0 .. MaxMarks /\ masks \in 0 .. MaxButtons
  BY DEF MaskInv
<1>2. PICK c \in (IF Mask!Settles(mwin, level) THEN Mask!Outcomes(mwin, level) ELSE {Mask!NoOutcome}) :
        mwin' = Mask!feedSample(mwin, level, c)
  BY DEF Mask!Feed
<1>3. Chosen(c)
  <2>1. c \in Mask!Outcomes(mwin, level) \cup {Mask!NoOutcome}
    <3> DEFINE O == Mask!Outcomes(mwin, level)
               N == Mask!NoOutcome
               S == Mask!Settles(mwin, level)
    <3>1. c \in (IF S THEN O ELSE {N})
      OBVIOUS
    <3> HIDE DEF O, N, S
    <3> QED
      BY <3>1 DEF O, N
  <2> QED
    BY <2>1, MaskChoices
<1>4. level # "low" /\ mwin.high => mwin.run < LongMask
  BY DEF Mask!Feed
<1>5. MaskFeeds(mwin, Mask!feedSample(mwin, level, c))
  BY <1>1, <1>3, <1>4, ColumnFeeds
<1>6. MaskFeeds(mwin, mwin')
  BY <1>2, <1>5
<1>7. mheard' \in 0 .. MaxMarks /\ masks' = masks
  <2> DEFINE starts == level # "low" /\ ~(mwin.has /\ mwin.high)
             dips == level = "dip" /\ mwin.has /\ mwin.high /\ mwin.valley < 0 /\ ~mwin.peak
             more == starts \/ dips
  <2>1. (more => mheard + masks < MaxMarks) /\ mheard' = (IF more THEN mheard + 1 ELSE mheard)
        /\ masks' = masks
    BY DEF Mask!Feed
  <2> HIDE DEF more
  <2>2. MaxMarks \in Nat /\ MaxButtons \in Nat
    BY MaskConstants
  <2> QED
    BY <1>1, <2>1, <2>2
<1> QED
  BY <1>6, <1>7

LEMMA MaskAskedIs ==
  ASSUME MaskInv, Mask!Asked
  PROVE  mheard' \in 0 .. MaxMarks /\ masks' \in 0 .. MaxButtons /\ masks' # masks
<1>1. mheard \in 0 .. MaxMarks /\ masks \in 0 .. MaxButtons /\ MaxButtons \in Nat
  BY MaskConstants DEF MaskInv
<1>2. masks < MaxButtons /\ masks' = masks + 1 /\ mheard' = mheard
  BY DEF Mask!Asked
<1> QED
  BY <1>1, <1>2

LEMMA MaskButton ==
  ASSUME MaskInv, Mask!Asked, MaskWell(mwin')
  PROVE  MaskInv' /\ masks' # masks
<1>1. mheard' \in 0 .. MaxMarks /\ masks' \in 0 .. MaxButtons /\ masks' # masks
  BY MaskAskedIs
<1>2. MaskWell(mwin)'
  OBVIOUS
<1> QED
  BY <1>1, <1>2 DEF MaskInv

LEMMA MaskStep ==
  ASSUME MaskInv, Mask!Next
  PROVE  MaskInv' /\ (masks' = masks => MaskKeeps(mwin, mwin'))
<1>1. /\ MaskWell(mwin) /\ MaskGood(mwin) /\ mwin.next \in Nat /\ mwin.next # 0
      /\ MaskTextOK(mwin.text, mwin.next, mwin.first) /\ mwin.text \in Seq(Seq(Nat))
  <2>1. MaskWell(mwin) /\ MaskGood(mwin)
    BY DEF MaskInv, MaskWell
  <2> QED
    BY <2>1, MaskTypes, MaskTextStays DEF MaskGood, ElementsOK
<1>2. /\ mwin.slider \in Units /\ mwin.autoWpm \in BOOLEAN /\ mwin.autoWidth \in BOOLEAN
  BY <1>1 DEF MaskGood, IsMask, MaskFields
<1>3. ASSUME NEW level \in {"low", "dip", "high"}, Mask!Feed(level)
      PROVE  MaskInv' /\ (masks' = masks => MaskKeeps(mwin, mwin'))
  <2>1. MaskFeeds(mwin, mwin') /\ mheard' \in 0 .. MaxMarks /\ masks' = masks
    BY <1>3, MaskFeedGoes
  <2>2. MaskWell(mwin') /\ MaskKeeps(mwin, mwin') /\ masks' \in 0 .. MaxButtons
    BY <2>1 DEF MaskFeeds, MaskWell, MaskGoes, MaskInv
  <2>3. MaskWell(mwin)'
    BY <2>2
  <2> QED
    BY <2>1, <2>2, <2>3 DEF MaskInv
<1>4. CASE Mask!Clear
  <2>1. Mask!Asked /\ mwin' = Mask!clearDecode(mwin)
    BY <1>4 DEF Mask!Clear
  <2>2. MaskWell(mwin')
    BY <1>1, <2>1, MaskClears
  <2> QED
    BY <2>1, <2>2, MaskButton
<1>5. CASE Mask!ResetTiming
  <2>1. Mask!Asked /\ mwin' = Mask!resetTiming(mwin)
    BY <1>5 DEF Mask!ResetTiming
  <2>2. MaskWell(mwin')
    BY <1>1, <2>1, MaskResets
  <2> QED
    BY <2>1, <2>2, MaskButton
<1>6. CASE Mask!prepareForPlayback
  <2> DEFINE c == Mask!clearDecode(mwin)
  <2>1. Mask!Asked /\ mwin' = Mask!resetTiming(c)
    BY <1>6 DEF Mask!prepareForPlayback
  <2>2. MaskWell(c)
    BY <1>1, MaskClears
  <2> HIDE DEF c
  <2>3. MaskTextOK(c.text, c.next, c.first) /\ c.text \in Seq(Seq(Nat))
    BY <2>2, MaskTextStays DEF MaskWell
  <2>4. MaskWell(Mask!resetTiming(c))
    BY <2>2, <2>3, MaskResets
  <2> QED
    BY <2>1, <2>4, MaskButton
<1>7. ASSUME NEW t \in {<< >>, << << 0 >> >>}, Mask!adoptText(t)
      PROVE  MaskInv' /\ (masks' = masks => MaskKeeps(mwin, mwin'))
  <2>1. Mask!Asked /\ mwin' = [Mask!resetTiming(mwin) EXCEPT !.text = t]
    BY <1>7 DEF Mask!adoptText
  <2>2. MaskTextOK(t, mwin.next, mwin.first) /\ t \in Seq(Seq(Nat))
    <3>1. CASE t = << >>
      BY <1>1, <3>1, MaskNoText, EmptySeq
    <3>2. CASE t = << << 0 >> >>
      BY <1>1, <3>2, MaskOldText
    <3> QED
      BY <3>1, <3>2
  <2>3. MaskWell([Mask!resetTiming(mwin) EXCEPT !.text = t])
    BY <1>1, <2>2, MaskResets
  <2>4. MaskWell(mwin')
    BY <2>1, <2>3
  <2> QED
    BY <2>1, <2>4, MaskButton
<1> DEFINE no == FALSE
           yes == TRUE
<1>8. no \in BOOLEAN /\ yes \in BOOLEAN
  OBVIOUS
<1>9. ASSUME NEW v, Measured(mwin, v), mwin' = v, Mask!Asked
      PROVE  MaskInv' /\ (masks' = masks => MaskKeeps(mwin, mwin'))
  <2>1. MaskWell(mwin')
    BY <1>1, <1>9, DitChanged
  <2> QED
    BY <1>9, <2>1, MaskButton
<1>10. ASSUME NEW unit \in Units, Mask!SetSpeed(unit)
       PROVE  MaskInv' /\ (masks' = masks => MaskKeeps(mwin, mwin'))
  <2> DEFINE v == [mwin EXCEPT !.autoWpm = no, !.slider = unit, !.unit = unit, !.calibrated = yes]
  <2>1. Mask!Asked /\ mwin' = v
    BY <1>10 DEF Mask!SetSpeed
  <2>2. v = [mwin EXCEPT !.autoWpm = no, !.slider = unit, !.unit = unit, !.calibrated = yes]
    OBVIOUS
  <2> HIDE DEF v, no, yes
  <2>3. Measured(mwin, v)
    BY <1>1, <1>8, <2>2, DitAsked
  <2> QED
    BY <1>9, <2>1, <2>3
<1>11. ASSUME NEW unit \in Units, Mask!SetWidth(unit)
       PROVE  MaskInv' /\ (masks' = masks => MaskKeeps(mwin, mwin'))
  <2> DEFINE v == [mwin EXCEPT !.autoWidth = no, !.unit = unit, !.calibrated = yes]
  <2>1. Mask!Asked /\ mwin' = v
    BY <1>11 DEF Mask!SetWidth
  <2>2. v = [mwin EXCEPT !.autoWidth = no, !.unit = unit, !.calibrated = yes]
    OBVIOUS
  <2> HIDE DEF v, no, yes
  <2>3. Measured(mwin, v)
    BY <1>1, <1>8, <2>2, DitAsked
  <2> QED
    BY <1>9, <2>1, <2>3
<1>12. CASE Mask!ToggleAuto
  <2> DEFINE unit == mwin.slider
             a == [mwin EXCEPT !.autoWpm = no, !.unit = unit, !.calibrated = yes]
             b == [mwin EXCEPT !.autoWpm = yes]
  <2>1. Mask!Asked /\ mwin' = (IF mwin.autoWpm THEN a ELSE b)
    BY <1>12 DEF Mask!ToggleAuto
  <2>2. a = [mwin EXCEPT !.autoWpm = no, !.unit = unit, !.calibrated = yes]
    OBVIOUS
  <2>3. b = [mwin EXCEPT !.autoWpm = yes]
    OBVIOUS
  <2>4. unit \in Units
    BY <1>2
  <2> HIDE DEF a, b, no, yes, unit
  <2>5. Measured(mwin, a)
    BY <1>1, <1>8, <2>2, <2>4, DitAsked
  <2>6. Measured(mwin, b)
    BY <1>1, <1>8, <2>3, <2>4, DitAsked
  <2> QED
    BY <1>9, <2>1, <2>5, <2>6
<1>13. ASSUME NEW est \in Units, Mask!ToggleAutoWidth(est)
       PROVE  MaskInv' /\ (masks' = masks => MaskKeeps(mwin, mwin'))
  <2> DEFINE a == [mwin EXCEPT !.autoWidth = no, !.unit = est, !.calibrated = yes]
             b == [mwin EXCEPT !.autoWidth = yes]
             r == Mask!recomputeDitDahWidths(b, est)
  <2>1. Mask!Asked /\ mwin' = (IF mwin.autoWidth THEN a ELSE r)
    BY <1>13 DEF Mask!ToggleAutoWidth
  <2>2. a = [mwin EXCEPT !.autoWidth = no, !.unit = est, !.calibrated = yes]
    OBVIOUS
  <2>3. b = [mwin EXCEPT !.autoWidth = yes]
    OBVIOUS
  <2> HIDE DEF a, b, no, yes
  <2>4. Measured(mwin, a)
    BY <1>1, <1>8, <2>2, DitAsked
  <2>5. Measured(mwin, b)
    BY <1>1, <1>8, <2>3, DitAsked
  <2>6. MaskWell(a) /\ MaskWell(b)
    BY <1>1, <2>4, <2>5, DitChanged
  <2>7. Measured(b, r)
    BY <2>6, WidthMeasured DEF MaskWell
  <2> HIDE DEF r
  <2>8. MaskWell(r)
    BY <2>6, <2>7, DitChanged
  <2>9. MaskWell(mwin')
    BY <2>1, <2>6, <2>8
  <2> QED
    BY <2>1, <2>9, MaskButton
<1> QED
  BY <1>3, <1>4, <1>5, <1>6, <1>7, <1>10, <1>11, <1>12, <1>13 DEF Mask!Next

LEMMA MaskTyped ==
  ASSUME MaskInv
  PROVE  Mask!TypeOK
<1>1. IsMask(mwin) /\ MaskClocks(mwin) /\ ElementsOK(mwin.pending, mwin.text, mwin.next, mwin.first)
  BY DEF MaskInv, MaskWell, MaskGood
<1>2. mwin.unit \in Units /\ mwin.slider \in Units
  BY <1>1 DEF IsMask, MaskFields
<1> QED
  BY <1>1, <1>2 DEF Mask!TypeOK, MaskInv, MaskClocks, ElementsOK

LEMMA MaskApart ==
  ASSUME MaskInv
  PROVE  Mask!LettersApart
<1>1. /\ Together(mwin.pending, mwin.first) /\ mwin.text \in Seq(Seq(Nat))
      /\ \A i \in 1 .. Len(mwin.text) : Together(mwin.text[i], mwin.first)
  BY MaskTypes DEF MaskInv, MaskWell, MaskGood, ElementsOK
<1>2. DOMAIN mwin.text = 1 .. Len(mwin.text)
  BY <1>1
<1>3. \A l \in Mask!ToSet(mwin.text) : Together(l, mwin.first)
  BY <1>1, <1>2 DEF Mask!ToSet
<1> QED
  BY <1>1, <1>3 DEF Mask!LettersApart, Together

LEMMA MaskOrdered ==
  ASSUME NEW w, MaskGood(w)
  PROVE  Mask!InOrder(Mask!Shown(w))
<1> DEFINE s == Mask!FlattenSeq(w.text)
           j == s \o w.pending
<1>1. ElementsOK(w.pending, w.text, w.next, w.first) /\ w.text \in Seq(Seq(Nat)) /\ w.pending \in Seq(Nat)
  BY MaskTypes DEF MaskGood
<1>2. FlatFacts(w.text, s)
  <2>1. FlatFacts(w.text, Flat(w.text))
    BY <1>1, FlatIs
  <2>2. Mask!FlattenSeq(w.text) = Flat(w.text)
    BY FlattensAreFlat
  <2> QED
    BY <2>1, <2>2
<1> HIDE DEF s
<1>3. Asc(w.pending) /\ Rising(w.text) /\ Under(w.text, w.pending)
  BY <1>1 DEF ElementsOK
<1>4. s \in Seq(Nat) /\ Asc(s) /\ \A m \in Nat : Holds(s, m) => m \in MarksOf(w.text)
  BY <1>2, <1>3 DEF FlatFacts
<1>5. Before(s, w.pending)
  <2> SUFFICES ASSUME NEW k \in 1 .. Len(s), NEW n \in 1 .. Len(w.pending), s[k] # 0, w.pending[n] # 0
               PROVE  s[k] < w.pending[n]
    BY DEF Before
  <2>1. s[k] \in Nat
    BY <1>4, ElementOfSeq
  <2>2. s[k] \in MarksOf(w.text)
    BY <1>4, <2>1 DEF Holds
  <2> QED
    BY <1>3, <2>2 DEF Under
<1>6. Asc(j)
  BY <1>1, <1>3, <1>4, <1>5, AscJoined
<1> HIDE DEF j
<1>7. \A k, n \in 1 .. Len(j) : k < n /\ j[k] > 0 /\ j[n] > 0 => j[k] < j[n]
  <2>1. \A k, n \in 1 .. Len(j) : k < n /\ j[k] # 0 /\ j[n] # 0 => j[k] < j[n]
    BY <1>6 DEF Asc
  <2>2. \A x : x > 0 => x # 0
    OBVIOUS
  <2> QED
    BY <2>1, <2>2
<1>8. Mask!InOrder(j)
  BY <1>7 DEF Mask!InOrder
<1>9. j = Mask!Shown(w)
  BY DEF Mask!Shown, j, s
<1> QED
  BY <1>8, <1>9

LEMMA MaskLost ==
  ASSUME NEW w, NEW v, MaskGood(w), MaskGood(v), MaskKeeps(w, v)
  PROVE  Mask!Lost(v) \subseteq Mask!Lost(w)
<1>1. /\ w.text \in Seq(Seq(Nat)) /\ w.pending \in Seq(Nat) /\ w.next \in Nat
      /\ v.text \in Seq(Seq(Nat)) /\ v.pending \in Seq(Nat) /\ v.next \in Nat
  BY MaskTypes DEF MaskGood
<1>2. ASSUME NEW u, u.text \in Seq(Seq(Nat)), u.pending \in Seq(Nat), NEW m \in Nat
      PROVE  m \in Mask!ToSet(Mask!Shown(u)) \cup u.out <=> m \in MaskKept(u)
  <2> DEFINE s == Mask!FlattenSeq(u.text)
             j == s \o u.pending
  <2>1. FlatFacts(u.text, s)
    <3>1. FlatFacts(u.text, Flat(u.text))
      BY <1>2, FlatIs
    <3>2. Mask!FlattenSeq(u.text) = Flat(u.text)
      BY FlattensAreFlat
    <3> QED
      BY <3>1, <3>2
  <2> HIDE DEF s
  <2>2. s \in Seq(Nat) /\ (Holds(s, m) <=> m \in MarksOf(u.text))
    BY <2>1 DEF FlatFacts
  <2>3. Holds(j, m) <=> Holds(s, m) \/ Holds(u.pending, m)
    BY <1>2, <2>2, HoldsJoined
  <2>4. j \in Seq(Nat) /\ DOMAIN j = 1 .. Len(j)
    BY <1>2, <2>2
  <2>5. Mask!Shown(u) = j
    BY DEF Mask!Shown, s
  <2> HIDE DEF j
  <2>6. m \in Mask!ToSet(j) <=> Holds(j, m)
    BY <2>4 DEF Mask!ToSet, Holds
  <2> QED
    BY <2>2, <2>3, <2>5, <2>6 DEF MaskKept, Ids
<1>3. MaskKept(w) \subseteq MaskKept(v) /\ \A m \in Nat : w.next <= m /\ m < v.next => m \in MaskKept(v)
  BY DEF MaskKeeps
<1>4. ASSUME NEW m \in Mask!Lost(v) PROVE m \in Mask!Lost(w)
  <2>1. m \in 1 .. v.next - 1 /\ m \in Nat
    BY <1>1 DEF Mask!Lost
  <2>2. m \notin Mask!ToSet(Mask!Shown(v)) \cup v.out
    BY DEF Mask!Lost
  <2>3. m \notin MaskKept(v)
    BY <1>1, <1>2, <2>1, <2>2
  <2>4. m \notin MaskKept(w) /\ ~(w.next <= m)
    BY <1>1, <1>3, <2>1, <2>3
  <2>5. m \notin Mask!ToSet(Mask!Shown(w)) \cup w.out
    BY <1>1, <1>2, <2>1, <2>4
  <2>6. m \in 1 .. w.next - 1
    BY <1>1, <2>1, <2>4
  <2> QED
    BY <2>5, <2>6 DEF Mask!Lost
<1> QED
  BY <1>4

-------------------------------------------------------------------------------
(* Both windows: the two theorems.                                           *)
LettersInv == ThresholdInv /\ MaskInv

LEMMA LettersStart == WindowsInit => LettersInv
BY ThresholdStarts, MaskStarts DEF WindowsInit, LettersInv

LEMMA ThresholdUnmoved ==
  ASSUME ThresholdInv, UNCHANGED threshold
  PROVE  ThresholdInv'
<1>1. win' = win /\ heard' = heard /\ buttons' = buttons
  BY DEF threshold
<1>2. Well(win')
  BY <1>1 DEF ThresholdInv
<1>3. Well(win)'
  BY <1>2
<1> QED
  BY <1>1, <1>3 DEF ThresholdInv

LEMMA MaskUnmoved ==
  ASSUME MaskInv, UNCHANGED mask
  PROVE  MaskInv'
<1>1. mwin' = mwin /\ mheard' = mheard /\ masks' = masks
  BY DEF mask
<1>2. MaskWell(mwin')
  BY <1>1 DEF MaskInv
<1>3. MaskWell(mwin)'
  BY <1>2
<1> QED
  BY <1>1, <1>3 DEF MaskInv

LEMMA LettersMove ==
  ASSUME LettersInv, [WindowsNext]_all
  PROVE  /\ LettersInv'
         /\ UNCHANGED threshold \/ Threshold!Next
         /\ UNCHANGED mask \/ Mask!Next
<1>1. ThresholdInv /\ MaskInv
  BY DEF LettersInv
<1>2. UNCHANGED threshold \/ Threshold!Next
  BY DEF WindowsNext, all
<1>3. UNCHANGED mask \/ Mask!Next
  BY DEF WindowsNext, all
<1>4. ThresholdInv'
  BY <1>1, <1>2, ThresholdStep, ThresholdUnmoved
<1>5. MaskInv'
  BY <1>1, <1>3, MaskStep, MaskUnmoved
<1> QED
  BY <1>2, <1>3, <1>4, <1>5 DEF LettersInv

(* Both windows show what was keyed in the order it was keyed and once, the   *)
(* threshold window no two spaces in a row, and the mask window no letter     *)
(* that holds elements a letter gap apart, whatever is measured, keyed,       *)
(* clicked and scrolled away in between.                                      *)
THEOREM LettersAreInOrder == WindowsSpec => []LettersInOrder
<1>1. WindowsInit => LettersInv
  BY LettersStart
<1>2. LettersInv /\ [WindowsNext]_all => LettersInv'
  BY LettersMove
<1>3. LettersInv => LettersInOrder
  BY ThresholdTyped, ThresholdOrdered, MaskTyped, MaskApart DEF LettersInv, LettersInOrder
<1> QED
  BY <1>1, <1>2, <1>3, PTL DEF WindowsSpec

LEMMA ThresholdShows ==
  ASSUME LettersInv, [WindowsNext]_all
  PROVE  [(buttons' = buttons /\ (win.open => win'.open))
            => Threshold!Lost(win') \subseteq Threshold!Lost(win)]_(Threshold!vars)
<1>1. LettersInv' /\ (UNCHANGED threshold \/ Threshold!Next)
  BY LettersMove
<1>2. ThresholdInv /\ ThresholdInv'
  BY <1>1 DEF LettersInv
<1>3. CASE UNCHANGED threshold
  BY <1>3 DEF threshold, Threshold!vars
<1>4. CASE Threshold!Next
  <2> SUFFICES ASSUME buttons' = buttons, win.open => win'.open
               PROVE  Threshold!Lost(win') \subseteq Threshold!Lost(win)
    OBVIOUS
  <2>1. Keeps(win, win')
    BY <1>2, <1>4, ThresholdStep
  <2> QED
    BY <1>2, <2>1, ThresholdLost
<1> QED
  BY <1>1, <1>3, <1>4

LEMMA MaskShows ==
  ASSUME LettersInv, [WindowsNext]_all
  PROVE  [masks' = masks
            => Mask!Lost(mwin') \subseteq Mask!Lost(mwin) /\ Mask!InOrder(Mask!Shown(mwin'))]_(Mask!vars)
<1>1. LettersInv' /\ (UNCHANGED mask \/ Mask!Next)
  BY LettersMove
<1>2. MaskInv /\ MaskInv'
  BY <1>1 DEF LettersInv
<1>3. CASE UNCHANGED mask
  BY <1>3 DEF mask, Mask!vars
<1>4. CASE Mask!Next
  <2> SUFFICES ASSUME masks' = masks
               PROVE  Mask!Lost(mwin') \subseteq Mask!Lost(mwin) /\ Mask!InOrder(Mask!Shown(mwin'))
    OBVIOUS
  <2>1. MaskKeeps(mwin, mwin')
    BY <1>2, <1>4, MaskStep
  <2>2. MaskGood(mwin) /\ MaskGood(mwin')
    BY <1>2 DEF MaskInv, MaskWell
  <2> QED
    BY <2>1, <2>2, MaskLost, MaskOrdered
<1> QED
  BY <1>1, <1>3, <1>4

(* What either window recognised becomes text: a mark or an element is lost   *)
(* only to a request, to the closing squelch, to noise, to a letter too long  *)
(* to be one, or by scrolling away.                                           *)
THEOREM MarksAreShown == WindowsSpec => MarksShown
<1>1. WindowsInit => LettersInv
  BY LettersStart
<1>2. LettersInv /\ [WindowsNext]_all => LettersInv'
  BY LettersMove
<1>3. LettersInv /\ [WindowsNext]_all
        => [(buttons' = buttons /\ (win.open => win'.open))
              => Threshold!Lost(win') \subseteq Threshold!Lost(win)]_(Threshold!vars)
  BY ThresholdShows
<1>4. LettersInv /\ [WindowsNext]_all
        => [masks' = masks
              => Mask!Lost(mwin') \subseteq Mask!Lost(mwin) /\ Mask!InOrder(Mask!Shown(mwin'))]_(Mask!vars)
  BY MaskShows
<1>5. WindowsSpec => WindowsInit /\ [][WindowsNext]_all
  BY PTL DEF WindowsSpec
<1>6. WindowsSpec => []LettersInv /\ [][WindowsNext]_all
  BY <1>1, <1>2, <1>5, PTL
<1>7. WindowsSpec => [][(buttons' = buttons /\ (win.open => win'.open))
                          => Threshold!Lost(win') \subseteq Threshold!Lost(win)]_(Threshold!vars)
  BY <1>3, <1>6, PTL
<1>8. WindowsSpec => [][masks' = masks
                          => Mask!Lost(mwin') \subseteq Mask!Lost(mwin) /\ Mask!InOrder(Mask!Shown(mwin'))]_(Mask!vars)
  BY <1>4, <1>6, PTL
<1> QED
  BY <1>7, <1>8 DEF MarksShown, Threshold!MarksBecomeText, Mask!ElementsBecomeText
===============================================================================
