----------------------------- MODULE SignalTrace -----------------------------
(* The signal trace of the GUI (gui/signaltracewindow.cpp) with the slots of  *)
(* the main window that drive it: the plot of the newest columns at the       *)
(* clicked frequency, the detection of the key half a span behind them, the   *)
(* freeze for copying by hand, the recording and the playback of a capture.   *)
(*                                                                            *)
(* A sample is a record: id numbers the samples in the order they come (0 for *)
(* one seeded from the waterfall) and t is the time it is stamped with; time  *)
(* is counted in columns, and levels are left out: whether a sample is above  *)
(* the threshold, which moves, is a choice.  One handler is one step, as they *)
(* all run on the GUI thread.                                                 *)
EXTENDS Integers, Sequences, FiniteSets, SequencesExt

CONSTANTS
    Spans,        \* samples the plot holds, for each span of the combo box
    FirstSpan,    \* the span it starts with
    Histories,    \* lengths of the waterfall's history
    Files,        \* older captures: the times of their samples, from the first one
    MaxPerTick,   \* samples that one tick of a playback injects at most: 40
    kMaxCaptureSamples,
    MaxSamples,   \* bound of the model: samples that come in a behaviour
    MaxAsks,      \* bound of the model: clicks and buttons in a behaviour
    MaxStart,     \* bound of the model: a playback starts by this time
    MaxWall       \* bound of the model: where the clock of the window stands still

Longest == CHOOSE s \in Spans : \A r \in Spans : r <= s

TraceAssumption ==
    /\ Spans \subseteq Nat \ {0} /\ FirstSpan \in Spans
    /\ \E s \in Spans : \A r \in Spans : r <= s
    /\ Histories \subseteq Nat /\ {MaxPerTick, kMaxCaptureSamples} \subseteq Nat \ {0}
    /\ {MaxSamples, MaxAsks, MaxStart, MaxWall} \subseteq Nat
    /\ Files \subseteq Seq(Nat)
    /\ \A f \in Files : Len(f) >= 2 /\ f[1] = 0 /\ MaxStart + Last(f) <= MaxWall

VARIABLES
    scope,  \* the fields of the window
    wall,   \* m_clock, restarted by a click
    fed,    \* the samples the last step gave to the Morse decoder
    asks    \* clicks and buttons so far

vars == <<scope, wall, fed, asks>>

-------------------------------------------------------------------------------
(* The plot.                                                                 *)
Shown(s) == IF s.frozen THEN s.snapshot ELSE s.samples

Newest(q, n) == SubSeq(q, Len(q) - n + 1, Len(q))
trimToMax(q, n) == IF Len(q) > n THEN Newest(q, n) ELSE q

\* mutant: the frozen plot takes samples
plotAppendFrozen(s, x) ==
    [s EXCEPT !.samples = trimToMax(Append(s.samples, x), s.span),
              !.snapshot = IF s.frozen THEN trimToMax(Append(@, x), s.span) ELSE @]

plotAppend(s, x) ==
    IF s.frozen THEN s ELSE [s EXCEPT !.samples = trimToMax(Append(@, x), s.span)]

plotClear(s) == IF s.frozen THEN s ELSE [s EXCEPT !.samples = << >>]

\* to freeze takes a snapshot, to resume goes on from it
setFrozen(s, frozen) ==
    CASE frozen /\ ~s.frozen -> [s EXCEPT !.frozen = TRUE, !.snapshot = s.samples,
                                          !.mixed = @ \/ s.playing]
      [] ~frozen /\ s.frozen -> [s EXCEPT !.frozen = FALSE, !.samples = s.snapshot,
                                          !.snapshot = << >>]
      [] OTHER -> s

\* the place of the detection cursor, half a span behind the newest sample
midSampleIndex(s) == Len(Shown(s)) - (s.span + 1) \div 2

-------------------------------------------------------------------------------
(* A sample comes.                                                           *)
\* mutant: the times follow the span only, not what the plot holds
timesOfSpan(s, times) == trimToMax(times, s.span)

sampleTimes(s, times) == trimToMax(trimToMax(times, s.span), Len(Shown(s)))

(* t is the time a played sample has, or -1 for the clock of the columns.    *)
(* The key is what the sample under the cursor says, and only when that is   *)
(* another one than before; it is this key that is recorded with the newest  *)
(* sample.                                                                   *)
appendSample(s, t, wantHigh) ==
    LET now   == IF t >= 0 THEN t ELSE IF s.clock < 0 THEN 0 ELSE s.clock
        plot  == plotAppend(s, [id |-> s.next, t |-> now])
        times == sampleTimes(plot, Append(s.times, now))
        mid   == midSampleIndex(plot)
        time  == IF mid \in 1 .. Len(times) THEN times[mid] ELSE now
        isNew == mid >= 1 /\ time # s.last
        key   == IF isNew THEN wantHigh ELSE s.key
        of    == IF isNew THEN Shown(plot)[mid].id ELSE s.keyOf
        entry == [id |-> s.next, t |-> now, above |-> key, keyOf |-> of]
    IN  [state |-> [plot EXCEPT !.next = @ + 1, !.clock = now + 1, !.times = times,
                      !.last = IF isNew THEN time ELSE @, !.key = key, !.keyOf = of,
                      !.capture = IF s.recording
                                  THEN trimToMax(Append(@, entry), kMaxCaptureSamples) ELSE @],
         fed   |-> IF isNew THEN << [sample |-> Shown(plot)[mid], time |-> time] >> ELSE << >>]

\* a column of the live spectrum
Live == scope.visible /\ scope.target /\ ~scope.frozen /\ ~scope.playing
Column ==
    /\ Live /\ scope.next <= MaxSamples
    /\ \E wantHigh \in BOOLEAN :
           LET r == appendSample(scope, -1, wantHigh) IN scope' = r.state /\ fed' = r.fed
    /\ UNCHANGED <<wall, asks>>

(* Samples from the waterfall's history, with times up to now; the column    *)
(* clock is left where it was.                                               *)
seedHistory(s, n, now) ==
    LET h == [i \in 1 .. n |-> [id |-> 0, t |-> now - (n - i)]]
    IN  IF ~s.target \/ s.frozen THEN s
        ELSE [s EXCEPT !.samples = trimToMax(h, s.span), !.times = [i \in 1 .. n |-> h[i].t]]

-------------------------------------------------------------------------------
(* Playback of a capture.                                                    *)
stopPlayback(s) == [s EXCEPT !.playing = FALSE, !.index = 0, !.file = << >>]

\* mutant: the tick waits for the sample after the last one
FinishedLate(s) == s.index > Len(s.file)

Finished(s) == s.index >= Len(s.file)

\* the next n samples of the file, one after the other
injected(s, n, wants) ==
    LET upto[i \in 0 .. n] ==
            IF i = 0 THEN [state |-> s, fed |-> << >>]
            ELSE LET r == upto[i - 1]
                     a == appendSample(r.state, s.start + s.file[s.index + i], wants[i])
                 IN  [state |-> a.state, fed |-> r.fed \o a.fed]
    IN  upto

\* how many samples are due, up to what one tick injects
Due(s, now) ==
    LET due == {i \in s.index + 1 .. Len(s.file) :
                   \A j \in s.index + 1 .. i : s.file[j] <= now - s.start}
    IN  IF Cardinality(due) > MaxPerTick THEN MaxPerTick ELSE Cardinality(due)

\* what is due is injected, a live column is not taken meanwhile
onPlaybackTick(s, now, wants) ==
    LET n    == Due(s, now)
        play == injected(s, n, wants)[n]
        done == [play.state EXCEPT !.index = s.index + n]
    IN  [state |-> IF Finished(done) THEN [done EXCEPT !.playing = FALSE, !.file = << >>] ELSE done,
         fed   |-> play.fed]

Tick ==
    /\ scope.playing /\ scope.next + Len(scope.file) - scope.index <= MaxSamples + 1
    /\ \E wants \in [1 .. MaxPerTick -> BOOLEAN] :
           LET r == onPlaybackTick(scope, wall, wants) IN scope' = r.state /\ fed' = r.fed
    /\ UNCHANGED <<wall, asks>>

Clock ==
    wall < MaxWall /\ wall' = wall + 1 /\ fed' = << >> /\ UNCHANGED <<scope, asks>>

\* the shortest span that the capture fits in, or the longest there is
spanFor(f) ==
    LET fit == {n \in Spans : n >= Last(f) + 2}
    IN  IF fit = {} THEN Longest ELSE CHOOSE n \in fit : \A m \in fit : n <= m

\* a recording that runs is given up, and the first samples are injected
startPlayback(s, f, now, wants) ==
    LET u == setFrozen(stopPlayback(s), FALSE)
    IN  onPlaybackTick([u EXCEPT !.target = TRUE, !.recording = FALSE, !.capture = << >>,
                           !.samples = << >>, !.times = << >>, !.key = FALSE, !.last = -1,
                           !.clock = -1, !.mixed = FALSE, !.span = spanFor(f), !.file = f,
                           !.index = 0, !.playing = TRUE, !.start = now], now, wants)

-------------------------------------------------------------------------------

(* Recording.                                                                *)
\* a recording starts live and empty
startRecording(s) ==
    IF s.recording THEN s
    ELSE [setFrozen(s, FALSE) EXCEPT !.recording = TRUE, !.capture = << >>]

\* the time, the power and the key of each sample, as text and as a keyed tone
saveCapture(s) == [s EXCEPT !.saved = s.capture]

\* the plot is frozen, and what was captured is written if it is enough
stopRecording(s) ==
    LET u == [setFrozen([s EXCEPT !.recording = FALSE], TRUE) EXCEPT !.visible = TRUE]
    IN  IF ~s.recording THEN s
        ELSE IF Len(s.capture) >= 2 THEN saveCapture(u) ELSE u

-------------------------------------------------------------------------------
(* Clicks and buttons.                                                       *)
clearTrace(s) ==
    [plotClear(setFrozen(stopPlayback(s), FALSE)) EXCEPT !.times = << >>, !.capture = << >>,
                                                         !.mixed = FALSE]

(* A click on the waterfall: live again, cleared, and the clock of the       *)
(* window starts anew, under a playback too.                                 *)
setTarget(s) ==
    [plotClear(setFrozen(s, FALSE)) EXCEPT !.target = TRUE, !.key = FALSE, !.last = -1,
        !.clock = -1, !.times = << >>, !.capture = << >>, !.mixed = FALSE]

Asked == asks < MaxAsks /\ asks' = asks + 1
Do(s) == Asked /\ scope' = s /\ fed' = << >> /\ UNCHANGED wall

onSignalTraceRequested(n) ==
    /\ Asked /\ fed' = << >> /\ wall' = 0
    /\ scope' = [seedHistory(setTarget(scope), n, 0) EXCEPT !.visible = TRUE]

reseedTraceFromWaterfall(s, n) == seedHistory(s, n, wall)

\* the sliders for fine tuning and for the bins: cleared and seeded again
onFreqSliderChanged(n) ==
    ~scope.frozen /\ Do(reseedTraceFromWaterfall(plotClear(scope), n))

onSpanChanged(n) ==
    /\ ~scope.frozen
    /\ Do([scope EXCEPT !.span = n, !.samples = trimToMax(@, n)])

onFreezeToggled == Do(setFrozen(scope, ~scope.frozen))
onClearClicked == Do(clearTrace(scope))
closeEvent == scope.visible /\ Do([stopPlayback(scope) EXCEPT !.visible = FALSE])
onRecordToggled == Do(IF scope.recording THEN stopRecording(scope) ELSE startRecording(scope))
onStopPlaybackClicked == scope.playing /\ Do(stopPlayback(scope))

\* a file that cannot be loaded still ends the playback that runs
PlayFails == Do([stopPlayback(scope) EXCEPT !.visible = TRUE])
\* the times of a saved capture, from its first sample
loadCwTraceFile(c) == [i \in 1 .. Len(c) |-> c[i].t - c[1].t]
Captures == Files \cup (IF scope.saved = << >> THEN {} ELSE {loadCwTraceFile(scope.saved)})
Play(f) ==
    /\ Asked /\ UNCHANGED wall /\ wall <= MaxStart /\ scope.next + Len(f) <= MaxSamples + 1
    /\ \E wants \in [1 .. MaxPerTick -> BOOLEAN] :
           LET r == startPlayback([scope EXCEPT !.visible = TRUE], f, wall, wants)
           IN  scope' = r.state /\ fed' = r.fed

Init ==
    /\ scope = [target |-> FALSE, frozen |-> FALSE, playing |-> FALSE, recording |-> FALSE,
                visible |-> FALSE, samples |-> << >>, snapshot |-> << >>, times |-> << >>,
                span |-> FirstSpan, clock |-> -1, key |-> FALSE, keyOf |-> 0, last |-> -1,
                capture |-> << >>, saved |-> << >>, file |-> << >>, index |-> 0, start |-> 0,
                next |-> 1, mixed |-> FALSE]
    /\ wall = 0 /\ fed = << >> /\ asks = 0

Next ==
    \/ Column \/ Tick \/ Clock
    \/ \E n \in Histories : onSignalTraceRequested(n) \/ onFreqSliderChanged(n)
    \/ \E n \in Spans : onSpanChanged(n)
    \/ \E f \in Captures : Play(f)
    \/ PlayFails \/ onFreezeToggled \/ onClearClicked \/ closeEvent \/ onRecordToggled
    \/ onStopPlaybackClicked

Spec == Init /\ [][Next]_vars

(* Time goes on and the 10 ms timer of a playback injects what is due: weak  *)
(* fairness of Tick, with its ENABLED written out.                           *)
NothingDue ==
    \/ scope.index >= Len(scope.file)
    \/ scope.file[scope.index + 1] > wall - scope.start
FairSpec ==
    /\ Spec /\ WF_wall(Clock)
    /\ []<>NothingDue \/ []<><<scope'.index > scope.index>>_scope

-------------------------------------------------------------------------------
TypeOK ==
    /\ scope.span \in Spans /\ Len(scope.samples) <= scope.span
    /\ Len(scope.capture) <= kMaxCaptureSamples
    /\ scope.playing => scope.index \in 0 .. Len(scope.file)
    /\ wall \in 0 .. MaxWall /\ asks \in 0 .. MaxAsks

(* What is frozen for copying by hand is not touched by a column, a seed, a  *)
(* slider, a playback or a button until the trace is live again.             *)
FrozenStays == [][scope.frozen /\ scope'.frozen => Shown(scope') = Shown(scope)]_vars

(* The decoder is told each sample with the time that sample came at, though *)
(* samples and times are two lists that are cleared, seeded, trimmed and     *)
(* frozen in different handlers.  A freeze in the middle of a playback joins *)
(* other times to the samples until the next clear, click or playback.       *)
FedAtItsTime ==
    ~scope.mixed => \A i \in 1 .. Len(fed) : fed[i].time = fed[i].sample.t

(* What a recording holds is every sample that came since it began, was      *)
(* cleared or was retuned, in order and without a gap, and so is the file.   *)
Whole(c) == \A i \in 1 .. Len(c) - 1 : c[i + 1].id = c[i].id + 1
RecordingWhole ==
    /\ Whole(scope.capture) /\ Whole(scope.saved)
    /\ scope.recording /\ scope.capture # << >> => Last(scope.capture).id = scope.next - 1

(* A playback comes to its end, also when a click on the waterfall restarts  *)
(* the clock it is timed by.                                                 *)
PlaybackEnds == scope.playing ~> ~scope.playing

=============================================================================
