------------------------------ MODULE MaskMorse ------------------------------
(* The mask decoder of the GUI (gui/maskmorsewindow.cpp): a pulse of the      *)
(* keyed envelope is laid against a dit mask and a dah mask when it ends, the *)
(* elements of the open letter are pending until the key-up is long enough,   *)
(* and the letters and spaces are appended to text.                           *)
(*                                                                            *)
(* Time is counted in columns.  An element is its number; a letter is the     *)
(* sequence of its elements and a space is the empty sequence.  What levels   *)
(* decide is a choice, under the condition the code has for it: whether a     *)
(* pulse is taken for one element, for the glued dahs of an "O" or for        *)
(* nothing, the width of the dit after a measurement, the median of the       *)
(* letter gaps, and whether the letter is a "5", no letter at all ("?") or    *)
(* another.  Energy that widens a pulse before it is scored is left out.      *)
EXTENDS Integers, Sequences, FiniteSets, SequencesExt, FiniteSetsExt

CONSTANTS
    Units,          \* widths of the dit, in columns
    SeedUnit,       \* the one the slider starts from
    UncalElement,   \* key-up that parts letters before the dit is known: 0.80 s
    UncalLetter,    \* key-up that completes a letter before that: 0.90 s
    UncalWord,      \* key-up that is a word before that: 1.20 s
    LongPulse,      \* 0.75 s, the shortest glued "O"
    MinPulse,       \* columns a pulse has at least: 3
    MaxPending,     \* elements after which the letter is garbage: 10
    WordDits,       \* dits that are a word however long the letter gaps are: 10
    kMaxScrollChars,
    MaxMarks,       \* bound of the model: key-downs and dips, a button taking the place of one
    LongMark,       \* bound of the model: no mark is longer
    MaxAsks         \* bound of the model: buttons pressed per behaviour

MaskAssumption ==
    /\ Units \subseteq Nat \ {0} /\ IsFiniteSet(Units) /\ SeedUnit \in Units
    /\ {UncalElement, UncalLetter, UncalWord, LongPulse, MinPulse, MaxPending,
        kMaxScrollChars, WordDits, MaxMarks, LongMark, MaxAsks} \subseteq Nat
    /\ UncalElement <= UncalLetter /\ kMaxScrollChars # 0

VARIABLES
    win,    \* the fields of the window
    heard,  \* key-downs and dips so far
    asks    \* buttons and other requests so far

vars == <<win, heard, asks>>

Space == << >>
Cap == Max({WordDits * u : u \in Units} \cup {UncalWord, LongMark}) + 1
Elements(t) == ToSet(FlattenSeq(t))

-------------------------------------------------------------------------------
(* Widths.                                                                   *)
\* recomputeDitDahWidths, when a mark has ended: the slider stays if both
\* check boxes are off
recomputeDitDahWidths(w, est) ==
    IF est = 0 \/ ~(w.autoWidth \/ w.autoWpm) THEN w
    ELSE [w EXCEPT !.unit = est, !.calibrated = TRUE]

\* updateLocalMaskFromLookahead, with every column
updateLocalMaskFromLookahead(w, est) ==
    IF est = 0 \/ ~w.autoWidth THEN w
    ELSE [w EXCEPT !.unit = est, !.calibrated = TRUE]

\* the shortest word: 4 dits, or 1.2 letter gaps but 3.5 to WordDits dits
wordMinSeconds(w, med) ==
    IF ~w.calibrated THEN UncalWord
    ELSE IF w.gaps < 2 THEN 4 * w.unit
    ELSE Min({Max({(7 * w.unit + 1) \div 2, (6 * med + 4) \div 5}), WordDits * w.unit})

\* in tenths of a column
elemMax(w) == IF w.calibrated THEN 22 * w.unit ELSE 10 * UncalElement

\* mutant: a letter that is known by its timing waits for the next mark
letterMinNever(w) == IF w.calibrated THEN 10 * Cap + 1 ELSE 10 * UncalLetter

letterMin(w) == IF w.calibrated THEN 26 * w.unit ELSE 10 * UncalLetter

-------------------------------------------------------------------------------
(* Text.                                                                     *)
\* mutant: nothing scrolls away
trimNothing(t) == t

trimScrollBuffer(t) ==
    IF Len(t) <= kMaxScrollChars THEN t
    ELSE SubSeq(t, Len(t) - (3 * kMaxScrollChars) \div 4 + 1, Len(t))

\* appendChar: a "5" opens a group of digits, a space or a "?" ends it
appendChar(w, char, kind) ==
    LET t == trimScrollBuffer(Append(w.text, char))
    IN  [w EXCEPT !.text = t,
                  !.out = @ \cup (Elements(Append(w.text, char)) \ Elements(t)),
                  !.digits = CASE kind = "5" -> 2 [] kind \in {" ", "?"} -> 0 [] OTHER -> @]

noteLetterGap(w) == [w EXCEPT !.gaps = Min({@ + 1, 2}), !.digits = Max({@ - 1, 0})]

appendSpace(w) ==
    LET v == IF w.text = << >> \/ Last(w.text) = Space THEN w ELSE appendChar(w, Space, " ")
    IN  [v EXCEPT !.digits = 0]

(* The key has been up for gap columns: an element gap, a letter gap or a    *)
(* word gap; inside a group of digits only 6 dits are a word.                *)
handleSpaceGap(w, gap, c) ==
    LET v    == [appendChar(w, w.pending, c.kind) EXCEPT !.pending = << >>]
        word == gap >= wordMinSeconds(v, c.med)
    IN  IF w.pending = << >> \/ 10 * gap < elemMax(w) THEN w
        ELSE IF word /\ (v.digits = 0 \/ gap >= 6 * v.unit) THEN appendSpace(v)
        ELSE noteLetterGap(v)

flushLetterIfNeeded(w, gap, c) ==
    IF w.pending = << >> \/ w.since < 0 \/ 10 * gap < letterMin(w) THEN w
    ELSE handleSpaceGap(w, gap, c)

-------------------------------------------------------------------------------

(* Pulses.                                                                   *)
\* more than MaxPending elements are no letter
emitElement(w) ==
    LET p == Append(w.pending, w.next)
    IN  [w EXCEPT !.pending = IF Len(p) > MaxPending THEN << >> ELSE p,
                  !.out = IF Len(p) > MaxPending THEN @ \cup ToSet(p) ELSE @,
                  !.first = IF w.apart THEN @ \cup {w.next} ELSE @,
                  !.next = @ + 1, !.apart = FALSE]

emit(w, n) ==
    LET after[i \in 0 .. n] == IF i = 0 THEN w ELSE emitElement(after[i - 1])
    IN  after[n]

(* A pulse of len columns: nothing if it is too short or fits neither mask;  *)
(* otherwise a dit or a dah, or the dahs of a glued "O" (2 stand for 2 to 5), which only a *)
(* pulse that opens a letter can be.                                         *)
MayBeGlued(w, len) ==
    /\ w.pending = << >> /\ w.digits = 0
    /\ len >= LongPulse \/ 10 * len >= 72 * w.unit

tryMatchPulse(w, len, allowLongSplit, c) ==
    LET n == IF c.elements <= 1 \/ (allowLongSplit /\ MayBeGlued(w, len))
             THEN c.elements ELSE 1
    IN  IF len < MinPulse THEN w ELSE emit(w, n)

Matched(w, v) == v.next > w.next

\* the valley of a glued mark begins inside it: the part before is an element
splitMarkAtValley(w, c) ==
    LET v == recomputeDitDahWidths(w, c.est)
        m == tryMatchPulse(v, w.run - w.valley, FALSE, c)
    IN  IF w.run <= w.valley THEN [w EXCEPT !.valley = -1]
        ELSE [m EXCEPT !.since = IF Matched(v, m) THEN w.valley ELSE @,
                       !.run = 0, !.valley = -1, !.peak = TRUE]

\* hundredths of a column: the body before a valley, and the valley itself
MinBody(w)   == IF w.calibrated THEN 240 * w.unit ELSE 240 * SeedUnit
MinValley(w) == IF w.calibrated THEN 45 * w.unit ELSE 45 * SeedUnit
MaxValley(w) == IF w.calibrated THEN 160 * w.unit ELSE 160 * SeedUnit

(* A dip that is deep enough starts a valley; a valley behind a body that is *)
(* long enough is an element gap, a long one behind a short body is not, and *)
(* no other counts until the level is back.  A mark restarts where a valley  *)
(* that split nothing ends.                                                  *)
processIntraMarkValley(w, level, c) ==
    LET v == IF level = "high" THEN [w EXCEPT !.peak = FALSE] ELSE w
    IN  IF level = "dip" /\ ~v.peak
        THEN IF v.valley < 0 THEN [v EXCEPT !.valley = 0]
             ELSE IF 100 * v.valley >= MinValley(v) /\ 100 * (v.run - v.valley) >= MinBody(v)
             THEN splitMarkAtValley(v, c)
             ELSE IF 100 * v.valley > MaxValley(v) THEN [v EXCEPT !.valley = -1, !.peak = TRUE]
             ELSE v
        ELSE IF level = "high" /\ v.valley >= 0
        THEN [v EXCEPT !.valley = -1, !.run = 0]
        ELSE v

\* the gap is counted from the end of the last pulse that was an element
MarkOnset(w, c) ==
    LET v == [w EXCEPT !.high = TRUE, !.run = 0, !.valley = -1, !.peak = FALSE]
    IN  IF w.since < 0 THEN v ELSE handleSpaceGap(v, w.since, c)

(* The pulse ends, where its valley began if it is in one.  The letter is    *)
(* then asked for as if 2.5 dits had passed.                                 *)
MarkEnd(w, c) ==
    LET len == IF w.valley >= 0 /\ w.run > w.valley THEN w.run - w.valley ELSE w.run
        v   == recomputeDitDahWidths(w, c.est)
        m   == tryMatchPulse(v, len, TRUE, c)
        e   == [m EXCEPT !.since = IF w.since < 0 \/ Matched(v, m) THEN 0 ELSE @,
                         !.high = FALSE, !.run = 0, !.valley = -1, !.peak = FALSE]
    IN  flushLetterIfNeeded(e, e.since + (5 * e.unit) \div 2, c)

\* one column; up is the model's own clock: how long the key has been up, and
\* apart whether that ever was a letter gap since the last element
Elapse(w) ==
    [w EXCEPT !.run = Min({@ + 1, Cap}), !.since = IF @ < 0 THEN @ ELSE Min({@ + 1, Cap}),
              !.valley = IF @ < 0 THEN @ ELSE @ + 1]

LetterSure == Max({(26 * u + 9) \div 10 : u \in Units} \cup {UncalLetter})

Listen(w) == [w EXCEPT !.apart = @ \/ (w.has /\ ~w.high /\ w.run >= LetterSure)]

feedSample(w0, level, c) ==
    LET w == updateLocalMaskFromLookahead(Listen(Elapse(w0)), c.look)
        v == IF level = "low" /\ ~w.high THEN flushLetterIfNeeded(w, w.since, c) ELSE w
    IN  IF ~w.has THEN [w EXCEPT !.has = TRUE, !.high = level # "low", !.run = 0,
                                 !.valley = -1, !.peak = FALSE]
        ELSE IF level # "low" /\ ~w.high THEN MarkOnset(v, c)
        ELSE IF level = "low" /\ w.high THEN MarkEnd(v, c)
        ELSE IF level # "low" THEN processIntraMarkValley(v, level, c)
        ELSE v

-------------------------------------------------------------------------------
(* Buttons.                                                                  *)
clearDecode(w) ==
    [w EXCEPT !.text = << >>, !.pending = << >>, !.digits = 0]

resetTiming(w) ==
    [w EXCEPT !.unit = w.slider, !.calibrated = ~w.autoWpm \/ ~w.autoWidth, !.gaps = 0,
              !.has = FALSE, !.high = FALSE, !.since = -1, !.pending = << >>, !.valley = -1,
              !.peak = FALSE, !.digits = 0, !.run = 0]

Start ==
    [has |-> FALSE, high |-> FALSE, run |-> 0, since |-> -1, valley |-> -1, peak |-> FALSE,
     pending |-> << >>, gaps |-> 0, digits |-> 0, unit |-> SeedUnit, slider |-> SeedUnit,
     calibrated |-> FALSE, autoWpm |-> TRUE, autoWidth |-> TRUE, text |-> << >>,
     next |-> 1, out |-> {}, first |-> {}, apart |-> FALSE]

Init == win = Start /\ heard = 0 /\ asks = 0

Asked == asks < MaxAsks /\ asks' = asks + 1 /\ UNCHANGED heard

Clear == Asked /\ win' = clearDecode(win)
ResetTiming == Asked /\ win' = resetTiming(win)
adoptText(t) == Asked /\ win' = [resetTiming(win) EXCEPT !.text = t]
prepareForPlayback == Asked /\ win' = resetTiming(clearDecode(win))

\* the slider for the speed, and the two for the widths, which set the dit too
SetSpeed(unit) ==
    Asked /\ win' = [win EXCEPT !.autoWpm = FALSE, !.slider = unit, !.unit = unit, !.calibrated = TRUE]
SetWidth(unit) ==
    Asked /\ win' = [win EXCEPT !.autoWidth = FALSE, !.unit = unit, !.calibrated = TRUE]
\* the check boxes
ToggleAuto ==
    /\ Asked
    /\ win' = IF win.autoWpm THEN [win EXCEPT !.autoWpm = FALSE, !.unit = win.slider, !.calibrated = TRUE]
              ELSE [win EXCEPT !.autoWpm = TRUE]
ToggleAutoWidth(est) ==
    /\ Asked
    /\ win' = IF win.autoWidth THEN [win EXCEPT !.autoWidth = FALSE, !.unit = est, !.calibrated = TRUE]
              ELSE recomputeDitDahWidths([win EXCEPT !.autoWidth = TRUE], est)

(* The choices matter only to a column that ends a mark or a gap, that meets *)
(* a waiting letter, or that deepens a valley.                               *)
NoOutcome == [elements |-> 0, est |-> 0, look |-> 0, kind |-> "x", med |-> 0]

Settles(w, level) ==
    \/ w.pending # << >> /\ ~w.high
    \/ w.high /\ level = "low"
    \/ w.high /\ level = "dip" /\ w.valley >= 0

Outcomes(w, level) ==
    [elements : IF w.high THEN 0 .. 2 ELSE {0}, est : IF w.high THEN {0} \cup Units ELSE {0},
     look : IF w.high \/ ~w.autoWidth THEN {0} ELSE {0} \cup Units,
     kind : IF w.pending = << >> THEN {"x"} ELSE {"5", "?", "x"},
     med : IF w.gaps < 2 THEN {0} ELSE {LetterSure, Cap}]

Feed(level) ==
    LET starts == level # "low" /\ ~(win.has /\ win.high)
        dips   == level = "dip" /\ win.has /\ win.high /\ win.valley < 0 /\ ~win.peak
    IN  /\ starts \/ dips => heard + asks < MaxMarks
        /\ heard' = IF starts \/ dips THEN heard + 1 ELSE heard
        /\ level # "low" /\ win.high => win.run < LongMark
        /\ \E c \in IF Settles(win, level) THEN Outcomes(win, level) ELSE {NoOutcome} :
               win' = feedSample(win, level, c)
        /\ UNCHANGED asks

Next ==
    \/ \E level \in {"low", "dip", "high"} : Feed(level)
    \/ Clear \/ ResetTiming \/ prepareForPlayback
    \/ \E t \in {<< >>, << <<0>> >>} : adoptText(t)
    \/ \E unit \in Units : SetSpeed(unit) \/ SetWidth(unit) \/ ToggleAutoWidth(unit)
    \/ ToggleAuto

Spec == Init /\ [][Next]_vars

(* Columns keep arriving: when the key stays up the key-up grows longer.     *)
(* This is weak fairness of Feed("low"), with its ENABLED written out.       *)
ColumnsArrive ==
    []<>(win.high \/ ~win.has \/ win.run = Cap) \/ []<><<~win'.high /\ win'.run > win.run>>_win
FairSpec == Spec /\ ColumnsArrive

-------------------------------------------------------------------------------
TypeOK ==
    /\ win.run \in 0 .. Cap /\ win.since \in -1 .. Cap /\ win.valley \in -1 .. Cap
    /\ win.unit \in Units /\ win.slider \in Units /\ win.digits \in 0 .. 2 /\ win.gaps \in 0 .. 2
    /\ Len(win.pending) <= MaxPending /\ Len(win.text) <= kMaxScrollChars
    /\ heard \in 0 .. MaxMarks /\ asks \in 0 .. MaxAsks

(* An element that was recognised stays in the open letter until it is text, *)
(* in the order it was keyed and once: it is lost only to a request, to a    *)
(* letter that is too long to be one, or by scrolling away.                  *)
Shown(w) == FlattenSeq(w.text) \o w.pending
Lost(w)  == (1 .. w.next - 1) \ (ToSet(Shown(w)) \cup w.out)
InOrder(s) == \A i, j \in 1 .. Len(s) : i < j /\ s[i] > 0 /\ s[j] > 0 => s[i] < s[j]
ElementsBecomeText ==
    [][asks' = asks => Lost(win') \subseteq Lost(win) /\ InOrder(Shown(win'))]_vars

(* Two elements with a key-up between them that is a letter gap whatever the *)
(* dit is never share a letter, also when pulses that were no elements, a    *)
(* new dit or a request lie between them.                                    *)
LettersApart ==
    \A l \in ToSet(win.text) \cup {win.pending} : \A i \in 2 .. Len(l) : l[i] \notin win.first

(* When the key stays up, the last letter is shown and not kept waiting for  *)
(* the next mark.                                                            *)
Waiting == win.has /\ ~win.high /\ win.pending # << >>
LastLetterShown == Waiting ~> ~Waiting

=============================================================================
