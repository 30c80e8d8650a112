-------------------------- MODULE ThresholdMorse --------------------------
(* The streaming Morse decoder of the GUI (gui/thresholdmorsewindow.cpp):     *)
(* it is fed one sample of the keyed envelope at a time, keeps the mark that  *)
(* may still grow, the marks and gaps of the letter that is still open, an    *)
(* estimate of the dit, a squelch, and text that is only ever appended to.    *)
(*                                                                            *)
(* Time is counted in ticks. A mark is a number (the how-manieth mark), a     *)
(* letter is the sequence of its marks and a space is the empty sequence, so  *)
(* the text says which marks were decoded, where. What depends on levels or   *)
(* on the wording of the copy is a choice, under the condition the code has   *)
(* for it: see Choices.                                                       *)
EXTENDS Integers, Sequences, FiniteSets, SequencesExt, FiniteSetsExt

CONSTANTS
    Units,          \* dits the estimator may find, in ticks
    SeedUnit,       \* the 12 WPM dit that the decoder starts from
    UncalLetter,    \* key-up that closes a letter before the dit is known (0.9 s)
    UncalWord,      \* key-up that is a word before the dit is known (1.2 s)
    Quiet,          \* key-up after which the squelch closes (8 s)
    MaxOpen,        \* marks an open letter may hold (10)
    MaxScroll,      \* characters kept (kMaxScrollChars)
    MaxMarks,       \* bound of the model: key-downs and dips, a button taking the place of one
    Columns,        \* ticks that a run of equal columns lasts, 0: less than one
    LongMark,       \* bound of the model: no other mark is longer
    MaxAsks         \* bound of the model: buttons pressed per behaviour

ThresholdAssumption ==
    /\ Units \subseteq Nat \ {0} /\ IsFiniteSet(Units) /\ SeedUnit \in Units
    /\ Columns \subseteq Nat /\ 1 \in Columns /\ MaxScroll # 0
    /\ {UncalLetter, UncalWord, Quiet, MaxOpen, MaxScroll, MaxMarks, LongMark, MaxAsks} \subseteq Nat

VARIABLES
    win,    \* the fields of the window
    heard,  \* key-downs and dips so far
    asks    \* buttons and other requests so far

vars == <<win, heard, asks>>

Space == << >>
Cap == Max(Units \cup {UncalWord, Quiet, LongMark, 4 * Max(Units)}) + 1
Marks(t) == ToSet(FlattenSeq(t))

(***************************************************************************)
(* What levels and wording decide in one call: the dits the estimator      *)
(* arrives at in its two runs (0: it cannot tell), the word threshold in   *)
(* tenths of a dit (what the median of the letter gaps says, of which the  *)
(* bounds are taken), which mark is taken for noise (the leading one of a  *)
(* letter, a lone one, or a lone E or T as spam), and whether a space is   *)
(* put before or behind a "DE".                                            *)
(***************************************************************************)
Estimates == {<<u, u>> : u \in {0} \cup Units} \cup ({0} \X Units)
NoOutcome == [est |-> <<0, 0>>, word |-> 40, noise |-> "none", protocol |-> FALSE]
Outcomes(w) ==
    [est : IF w.auto THEN Estimates ELSE {<<0, 0>>}, word : {35, 100},
     noise : {"none", "leading", "lone"}, protocol : IF w.text = << >> THEN {FALSE} ELSE BOOLEAN]

(* Marks and element gaps give the dit, unless they cannot tell a dit from a *)
(* dah; a dit that is known only moves.                                      *)
recomputeUnitFromMarks(w, est) ==
    IF ~w.auto THEN [w EXCEPT !.unit = w.slider, !.calibrated = TRUE]
    ELSE IF est = 0 THEN w
    ELSE [w EXCEPT !.unit = est, !.calibrated = TRUE]

\* in tenths of a tick, as all thresholds of gaps are
wordMinSeconds(w, c) == IF ~w.calibrated THEN 10 * UncalWord ELSE c.word * w.unit

(* mutant: nothing scrolls away.                                             *)
trimNothing(t) == t

(* Only the characters that fit are kept; the cut is behind a space when one *)
(* is near.                                                                  *)
trimScrollBuffer(t) ==
    IF Len(t) <= MaxScroll THEN t
    ELSE LET drop == Len(t) - MaxScroll + 1
             near == {i \in drop .. Len(t) - 1 : t[i] = Space}
         IN SubSeq(t, (IF near = {} THEN drop ELSE Min(near)) + 1, Len(t))

Squeeze(t) ==
    LET kept[i \in 0 .. Len(t)] ==
            IF i = 0 THEN << >>
            ELSE IF t[i] = Space /\ (i = 1 \/ t[i - 1] = Space) THEN kept[i - 1]
            ELSE Append(kept[i - 1], t[i])
    IN kept[Len(t)]

(* appendChar for each of the characters that t has more than the text: no   *)
(* space is put at the start or behind a space, and `out` remembers which of *)
(* the marks were taken for noise or scrolled away.                               *)
Grow(w, t, noise) ==
    LET kept == trimScrollBuffer(Squeeze(t))
    IN [w EXCEPT !.text = kept, !.out = @ \cup noise \cup (Marks(t) \ Marks(kept))]

appendSpace(w) == Grow(w, Append(w.text, Space), {})

maybeInsertProtocolSpace(c) == IF c.protocol THEN <<Space>> ELSE << >>

(* A lone mark may be noise (too short for an E or a T, or too weak) or a T  *)
(* or E too many. Several marks always give characters, if only "?".         *)
emitOneLetter(letter, c) ==
    IF Len(letter) = 1 /\ c.noise = "lone" THEN << >>
    ELSE maybeInsertProtocolSpace(c) \o <<letter>>

(* The gaps that look like those inside a letter, in ascending order, and    *)
(* twice their median; no gap does if only one would.                        *)
ShortGaps(gaps) ==
    LET Short(g) == \A i \in DOMAIN gaps : 10 * g <= 16 * gaps[i]
        low == SortSeq(SelectSeq(gaps, Short), <)
    IN IF Len(low) < 2 \/ low[1] = 0 THEN << >> ELSE low
TwiceMedian(low) == low[(Len(low) + 1) \div 2] + low[Len(low) \div 2 + 1]

(* The gap that parts letters inside one run of marks, and the one that      *)
(* parts words: what the dit says, or what stands out of the short gaps.     *)
splitGapSeconds(w, gaps) ==
    LET low == ShortGaps(gaps)
        unit == IF w.calibrated THEN 22 * w.unit ELSE 10 * (Cap + 1)
    IN IF low = << >> THEN unit ELSE Min({unit, 13 * TwiceMedian(low)})

wordCutForGaps(w, gaps, c) ==
    LET low == ShortGaps(gaps)
        ref == TwiceMedian(low)
        like == ~w.calibrated \/ (10 * ref >= 11 * w.unit /\ 10 * ref <= 36 * w.unit)
    IN IF low # << >> /\ like THEN Min({wordMinSeconds(w, c), 30 * ref}) ELSE wordMinSeconds(w, c)

(* mutant: the last group is only emitted when a gap closes it.              *)
ClosedBoundaries(split, marks, gaps) ==
    {i \in 1 .. Len(marks) : i <= Len(gaps) /\ 10 * gaps[i] >= split}

Boundaries(split, marks, gaps) ==
    {i \in 1 .. Len(marks) : i = Len(marks) \/ (i <= Len(gaps) /\ 10 * gaps[i] >= split)}

(* The marks are cut at the boundaries and each group is a letter; the gap   *)
(* behind it may be a word gap.                                              *)
EmitGroups(w, marks, gaps, split, c) ==
    LET cuts == Boundaries(split, marks, gaps)
        From(i) == Max({0} \cup {j \in cuts : j < i}) + 1
        Piece(i) == emitOneLetter(SubSeq(marks, From(i), i), c)
                    \o (IF i <= Len(gaps) /\ 10 * gaps[i] >= wordCutForGaps(w, gaps, c)
                        THEN <<Space>> ELSE << >>)
    IN Grow(w, FlattenSeq(<<w.text>> \o [i \in 1 .. Len(marks) |-> IF i \in cuts THEN Piece(i) ELSE << >>]),
            IF c.noise = "lone" THEN {marks[i] : i \in {j \in cuts : From(j) = j}} ELSE {})

(* A leading mark much shorter than the others may be noise.                 *)
StripNoise(marks, c) == IF c.noise = "leading" /\ Len(marks) >= 2 THEN Tail(marks) ELSE marks

flushPendingLetter(w, c) ==
    IF w.marks = << >> THEN w
    ELSE LET v == recomputeUnitFromMarks(w, c.est[2])
             marks == StripNoise(w.marks, c)
             out == w.out \cup (ToSet(w.marks) \ ToSet(marks))
         IN EmitGroups([v EXCEPT !.marks = << >>, !.gaps = << >>, !.out = out],
                       marks, w.gaps, splitGapSeconds(v, w.gaps), c)

(* mutant: the released marks stay in the letter that is still open.         *)
releaseKeepsLast(w, c) ==
    LET split == splitGapSeconds(w, w.gaps)
        closed == {i \in 1 .. Len(w.marks) : i <= Len(w.gaps) /\ 10 * w.gaps[i] >= split}
        n == Max(closed)
        v == [w EXCEPT !.marks = SubSeq(@, n, Len(@)), !.gaps = SubSeq(@, n, Len(@))]
        e == EmitGroups(v, SubSeq(w.marks, 1, n), SubSeq(w.gaps, 1, n), split, c)
    IN IF w.marks = << >> \/ Len(w.gaps) < Len(w.marks) \/ closed = {} THEN w
       ELSE [e EXCEPT !.emitted = @ \/ e.marks = << >>]

(* Letters whose following gap is a boundary leave; the open tail stays.     *)
releaseClosedLetters(w, c) ==
    LET split == splitGapSeconds(w, w.gaps)
        closed == {i \in 1 .. Len(w.marks) : i <= Len(w.gaps) /\ 10 * w.gaps[i] >= split}
        n == Max(closed)
        v == [w EXCEPT !.marks = SubSeq(@, n + 1, Len(@)), !.gaps = SubSeq(@, n + 1, Len(@))]
        e == EmitGroups(v, SubSeq(w.marks, 1, n), SubSeq(w.gaps, 1, n), split, c)
    IN IF w.marks = << >> \/ Len(w.gaps) < Len(w.marks) \/ closed = {} THEN w
       ELSE [e EXCEPT !.emitted = @ \/ e.marks = << >>]

(* The dahs a glued "O" is taken apart into; 1 for an ordinary mark.         *)
Dahs(w) ==
    IF ~w.calibrated \/ 10 * w.pen < 72 * w.unit THEN 1
    ELSE IF 10 * w.pen >= 78 * w.unit /\ 10 * w.pen <= 108 * w.unit THEN 3
    ELSE Max({2, Min({5, (w.pen + w.unit) \div (3 * w.unit)})})

(* The mark held in case its end was only a dropout joins the open letter.   *)
commitPendingMarkToLetter(w, c) ==
    LET u == [w EXCEPT !.have = FALSE, !.pen = 0]
        n == Dahs(w)
        v == recomputeUnitFromMarks(u, c.est[1])
        ids == [i \in 1 .. n |-> w.next + i - 1]
        a == [v EXCEPT !.marks = @ \o ids, !.next = @ + n]
    IN IF ~w.have THEN w
       ELSE IF w.pen = 0 THEN u                      \* shorter than 15 ms, or a fifth of a dit
       ELSE IF ~w.open THEN v
       ELSE IF Len(a.marks) > MaxOpen THEN flushPendingLetter(a, c) ELSE a

handleMarkEnd(w, ticks) == [w EXCEPT !.pen = Min({(IF w.have THEN @ ELSE 0) + ticks, Cap}), !.have = TRUE]

(* The end of a key-up of that many ticks.                                   *)
handleSpaceEnd(w, ticks, c) ==
    LET v == commitPendingMarkToLetter(w, c)
        held == [v EXCEPT !.gaps = Append(@, ticks)]
        u == recomputeUnitFromMarks(v, c.est[2])
        f == [flushPendingLetter(u, c) EXCEPT !.emitted = TRUE]
        Word(x) == IF 10 * ticks >= wordMinSeconds(x, c) THEN appendSpace(x) ELSE x
    IN IF ticks = 0 /\ w.have THEN w                  \* a dropout inside the mark
       ELSE IF ~v.open THEN [v EXCEPT !.marks = << >>, !.gaps = << >>]
       ELSE IF v.marks = << >> THEN (IF v.emitted THEN Word(v) ELSE v)
       ELSE IF 10 * ticks < 22 * v.unit \/ ~v.calibrated
            THEN releaseClosedLetters(recomputeUnitFromMarks(held, c.est[2]), c)
       ELSE Word(f)

(* The key is up for long enough: the letter is complete.                    *)
checkLetterTimeout(w, c) ==
    LET v == commitPendingMarkToLetter(w, c)
        f == [flushPendingLetter(v, c) EXCEPT !.emitted = TRUE]
    IN IF ~w.open \/ w.emitted \/ w.high
          \/ (IF w.calibrated THEN 10 * w.run < 26 * w.unit ELSE w.run < UncalLetter) THEN w
       ELSE IF v.marks = << >> THEN v
       ELSE IF 10 * w.run >= wordMinSeconds(f, c) THEN appendSpace(f) ELSE f

(* A valley deep enough inside a mark that never ended: the mark is closed   *)
(* where the valley began, and an element gap follows.                       *)
splitMarkAtValley(w, c) ==
    LET m == handleMarkEnd(w, w.run - w.valley)
        s == handleSpaceEnd(m, Max({1, Min({w.valley, w.unit})}), c)
    IN IF w.run <= w.valley THEN [w EXCEPT !.valley = 0]
       ELSE [s EXCEPT !.high = TRUE, !.run = 0, !.valley = 0, !.emitted = FALSE]

ValleySplits(w) ==
    LET body == w.run - w.valley
    IN /\ w.valley >= 1
       /\ body >= (IF w.calibrated THEN Max({1, (85 * w.unit + 99) \div 100}) ELSE 2)
       /\ 100 * w.valley >= (IF w.calibrated THEN 45 * w.unit ELSE 80)

processIntraMarkValley(w, level, c) ==
    IF level = "dip" THEN
        IF w.valley < 0 THEN [w EXCEPT !.valley = 0]
        ELSE IF ValleySplits(w) THEN splitMarkAtValley(w, c) ELSE w
    ELSE IF w.valley >= 0 THEN [w EXCEPT !.valley = -1, !.run = 0] ELSE w

(* A mark or a gap has ended.                                                *)
processStateChange(w, above, level, c) ==
    LET m == handleMarkEnd(w, w.run)
        s == handleSpaceEnd(w, w.run, c)
    IN IF w.high THEN [m EXCEPT !.high = above, !.run = 0]
       ELSE [s EXCEPT !.high = above, !.run = 0, !.emitted = FALSE]

(* Opened by a strong column, or at any column by marks that were strong;    *)
(* closed, with what is pending, 8 s after the last strong one.  Weak marks  *)
(* do not count for that time, so that it may be over at any column but a    *)
(* strong one, and is over after a long key-up (counted from the last edge). *)
(* Never closed while a capture is played.                                   *)
updateSquelch(w, level, turns) ==
    IF w.play THEN [w EXCEPT !.open = TRUE]
    ELSE IF ~w.open THEN [w EXCEPT !.open = turns]
    ELSE IF level # "high" /\ (turns \/ (level = "low" /\ ~w.high /\ w.run > Quiet))
         THEN [w EXCEPT !.open = FALSE, !.marks = << >>, !.gaps = << >>, !.have = FALSE, !.pen = 0]
    ELSE w

Elapse(w, dt) ==
    [w EXCEPT !.run = Min({@ + dt, Cap}), !.valley = IF @ < 0 THEN @ ELSE Min({@ + dt, Cap})]

feedSample(w0, level, turns, dt, c) ==
    LET w == updateSquelch(Elapse(w0, dt), level, turns)
        above == level # "low"
    IN IF ~w.has THEN [w EXCEPT !.has = TRUE, !.high = above, !.run = 0, !.valley = -1]
       ELSE IF above # w.high THEN processStateChange([w EXCEPT !.valley = -1], above, level, c)
       ELSE IF w.high THEN processIntraMarkValley(w, level, c)
       ELSE IF w.open THEN checkLetterTimeout(w, c)
       ELSE w

clearDecode(w) ==
    [w EXCEPT !.text = << >>, !.marks = << >>, !.gaps = << >>, !.have = FALSE, !.pen = 0, !.emitted = FALSE]

resetTiming(w) ==
    [w EXCEPT !.unit = w.slider, !.calibrated = ~w.auto, !.has = FALSE, !.marks = << >>, !.gaps = << >>,
              !.have = FALSE, !.pen = 0, !.emitted = FALSE, !.valley = -1, !.open = w.play]

Start ==
    [has |-> FALSE, high |-> FALSE, run |-> 0, valley |-> -1, have |-> FALSE, pen |-> 0,
     marks |-> << >>, gaps |-> << >>, emitted |-> FALSE, unit |-> SeedUnit, slider |-> SeedUnit,
     calibrated |-> FALSE, auto |-> TRUE, open |-> FALSE, play |-> FALSE, text |-> << >>, next |-> 1, out |-> {}]

Init == win = Start /\ heard = 0 /\ asks = 0

(* Only a sample that ends a gap, or that meets a waiting letter or a dip,   *)
(* lets the outcomes matter.                                                 *)
Settles(w, level) ==
    /\ w.have \/ w.marks # << >> \/ w.emitted \/ w.valley > 0
    /\ IF w.high THEN level = "dip" /\ w.valley >= 0
       ELSE level # "low" \/ (w.open /\ ~w.emitted)

Feed(level, dt) ==
    LET starts == level # "low" /\ ~(win.has /\ win.high)
        dips == level = "dip" /\ win.has /\ win.high /\ win.valley < 0
    IN /\ starts \/ dips => heard + asks < MaxMarks
       /\ heard' = IF starts \/ dips THEN heard + 1 ELSE heard
       /\ level # "low" /\ win.high /\ dt = 1 => win.run < LongMark
       /\ dt = 0 => (level = "low") = win.high
       /\ dt > 1 => level = "high" /\ win.high /\ win.valley < 0 /\ win.run < LongMark
       /\ \E turns \in IF heard' > 0 /\ (level = "high" => ~win.open) THEN BOOLEAN ELSE {FALSE} :
          \E c \in IF Settles(win, level) THEN Outcomes(win) ELSE {NoOutcome} :
             win' = feedSample(win, level, turns, dt, c)
       /\ UNCHANGED asks

Asked == asks < MaxAsks /\ asks' = asks + 1 /\ UNCHANGED heard

Clear == Asked /\ win' = clearDecode(win)
ResetTiming == Asked /\ win' = resetTiming(win)
adoptText(t) == Asked /\ win' = [resetTiming(win) EXCEPT !.text = t]
prepareForPlayback == Asked /\ win' = [resetTiming(clearDecode([win EXCEPT !.play = TRUE])) EXCEPT !.open = TRUE]
EndPlayback == Asked /\ win.play /\ win' = [win EXCEPT !.play = FALSE]
(* The check box and the slider: the slider is the dit when Auto is off.     *)
SetSpeed(auto, unit) ==
    /\ Asked
    /\ win' = [win EXCEPT !.auto = auto, !.slider = unit, !.unit = IF auto THEN @ ELSE unit, !.calibrated = @ \/ ~auto]

Next ==
    \/ \E level \in {"low", "dip", "high"}, dt \in Columns : Feed(level, dt)
    \/ Clear \/ ResetTiming \/ prepareForPlayback \/ EndPlayback
    \/ \E t \in {<< >>, << <<0>> >>} : adoptText(t)
    \/ \E auto \in BOOLEAN, unit \in Units : SetSpeed(auto, unit)

Spec == Init /\ [][Next]_vars

(* Columns keep arriving: when the key stays up the key-up grows longer.     *)
(* This is weak fairness of Feed("low", 1), with its ENABLED written out.    *)
ColumnsArrive ==
    []<>(win.high \/ ~win.has \/ win.run = Cap) \/ []<><<~win'.high /\ win'.run > win.run>>_win
FairSpec == Spec /\ ColumnsArrive

TypeOK ==
    /\ win.run \in 0 .. Cap /\ win.valley \in -1 .. Cap /\ win.pen \in 0 .. Cap
    /\ win.unit \in Units /\ Len(win.marks) <= MaxOpen /\ Len(win.text) <= MaxScroll
    /\ heard \in 0 .. MaxMarks /\ asks \in 0 .. MaxAsks

(* The text followed by the open letter has the marks in the order they were *)
(* keyed, none of them twice, and never two spaces in a row.                 *)
MarksInOrder ==
    LET all == FlattenSeq(win.text) \o win.marks
    IN /\ \A i, j \in 1 .. Len(all) :
              i < j /\ all[i] # 0 /\ all[j] # 0 => all[i] < all[j]
       /\ \A i \in 1 .. Len(win.text) - 1 : ~(win.text[i] = Space /\ win.text[i + 1] = Space)

(* A mark heard with the squelch open becomes text: it is lost only to a     *)
(* request, to the closing squelch, or as noise.                             *)
Lost(w) == (1 .. w.next - 1) \ (Marks(w.text) \cup ToSet(w.marks) \cup w.out)
MarksBecomeText == [][(asks' = asks /\ (win.open => win'.open)) => Lost(win') \subseteq Lost(win)]_vars

(* When the key stays up, the last letter is shown and not kept waiting for  *)
(* the next mark.                                                            *)
Waiting == win.open /\ win.has /\ ~win.high /\ (win.have \/ win.marks # << >>)
LastLetterShown == Waiting ~> (~Waiting)

=============================================================================
