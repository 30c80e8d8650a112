----------------------------- MODULE BlocksProofs -----------------------------
(***************************************************************************)
(* For any length of the ring, of the batches and of the queue of columns, *)
(* and any number of blocks, starts and Shift+clicks: what is saved is     *)
(* what was heard last when the operator clicked, and the waterfall draws  *)
(* its columns in order and is not left frozen.                            *)
(*                                                                         *)
(* For any rates, lengths of the transforms and of the queue that satisfy  *)
(* the assumption of the sample path: the spectra of undisturbed blocks    *)
(* reach the callback in order, without a gap and over their own span.     *)
(***************************************************************************)
EXTENDS Blocks, SequenceTheorems, TLAPS

Frequencies == Centres \cup {ConfigCentre, "none"}
Captures    == [samples : Seq(Nat), centre : Frequencies]
Files       == [saved : Captures, clicked : Captures]
Rings       == [samples : [0 .. Cap - 1 -> Nat], write_pos : 0 .. Cap - 1,
                count : 0 .. Cap]
Posted      == [kind : {"columns"}, cols : Seq(Nat)] \cup
               [kind : {"status"}, on : BOOLEAN]

-----------------------------------------------------------------------------
(* The ring.  Item i of the n last written before slot w is in this slot.  *)
Slot(w, n, i) == LET x == w - n + i - 1 IN IF x < 0 THEN x + Cap ELSE x

\* r holds the newest blocks of h.
Holds(r, h) ==
    /\ r.count = IF Len(h) < Cap THEN Len(h) ELSE Cap
    /\ \A i \in 1 .. r.count :
          r.samples[Slot(r.write_pos, r.count, i)] = h[Len(h) - r.count + i]

-----------------------------------------------------------------------------
(* What is saved.                                                          *)
OfTheClick(saved, click) ==
    /\ saved.samples = LastBlocks(click.samples)
    /\ click.centre # "none" => saved.centre = click.centre

SavedInv ==
    /\ ring \in Rings /\ heard \in Seq(Nat) /\ received \in Nat
    /\ radio \in Centres \cup {"none"}
    /\ frozen \in Captures /\ clicked \in Captures /\ files \in Seq(Files)
    /\ Holds(ring, heard)
    /\ gui = "dialog" => frozen.samples # << >> /\ OfTheClick(frozen, clicked)
    /\ SavedIsTheClick

-----------------------------------------------------------------------------
(* What is drawn: every column is of a later block than those before it on *)
(* the way from the detection pthread to the screen.                       *)
Rising(s)    == \A i, j \in 1 .. Len(s) : i < j => s[i] < s[j]
Before(s, t) == \A i \in 1 .. Len(s), j \in 1 .. Len(t) : s[i] < t[j]
UpTo(s, n)   == \A i \in 1 .. Len(s) : s[i] <= n

Cols(e) == IF e.kind = "columns" THEN e.cols ELSE << >>

\* s may be drawn after the events of w
After(w, s)   == \A i \in 1 .. Len(w) : Before(Cols(w[i]), s)
Queue(w)      == /\ \A i \in 1 .. Len(w) : Rising(Cols(w[i]))
                 /\ \A i, j \in 1 .. Len(w) : i < j => Before(Cols(w[i]), Cols(w[j]))
Ahead(s, w)   == \A i \in 1 .. Len(w) : Before(s, Cols(w[i]))
AllUpTo(w, n) == \A i \in 1 .. Len(w) : UpTo(Cols(w[i]), n)

DrawnTypes ==
    /\ received \in Nat
    /\ shown \in Seq(Nat) /\ column \in Seq(Nat) /\ pending \in Seq(Nat)
    /\ events \in Seq(Posted)

DrawnOrder ==
    /\ Rising(shown) /\ Ahead(shown, events) /\ Queue(events)
    /\ Before(shown, pending) /\ After(events, pending) /\ Rising(pending)
    /\ Before(shown, column) /\ After(events, column) /\ Rising(column)
    /\ Before(pending, column)

DrawnBound ==
    /\ UpTo(shown, received) /\ UpTo(pending, received) /\ UpTo(column, received)
    /\ AllUpTo(events, received)

InHand == /\ dpc \notin {"callback", "append", "emit"} => column = << >>
          /\ dpc = "emit" => pending = << >>
          /\ ~launched => dpc = "none"

DrawnInv == DrawnTypes /\ DrawnOrder /\ DrawnBound /\ InHand

-----------------------------------------------------------------------------
(* What keeps the waterfall from being left frozen.                        *)
Looping == {"open", "loop", "callback", "append", "flush", "emit"}

StopAwaited ==
    /\ calls \in Seq({"start", "stop", "ended"})
    /\ \A i \in 1 .. Len(calls) : calls[i] = "stop" => gui = "stopping" /\ wpc = "idle"
    /\ \A i, j \in 1 .. Len(calls) : calls[i] = "stop" /\ calls[j] = "stop" => i = j
    /\ wpc \in {"idle", "join"}
    /\ wpc = "join" => gui = "stopping"

\* The waterfall will be released: a session's start is still to be reported.
Coming(w) == \E i \in 1 .. Len(w) : w[i].kind = "status" /\ w[i].on

LiveInv ==
    /\ StopAwaited
    /\ freeze \in BOOLEAN /\ active \in BOOLEAN /\ events \in Seq(Posted)
    /\ gui = "free" /\ active /\ dpc \in Looping => accept
    /\ gui = "free" /\ active /\ freeze => Coming(events)

-----------------------------------------------------------------------------
\* An index that went round the ring at most once is taken modulo its length.
LEMMA Wrapped ==
  ASSUME NEW x \in 0 .. 2 * Cap - 1
  PROVE  x % Cap = IF x < Cap THEN x ELSE x - Cap
<1>1. Cap \in Nat \ {0}
  BY CaptureAssumption
<1>2. CASE x < Cap
  BY <1>1, <1>2
<1>3. CASE x >= Cap
  <2> DEFINE m == x % Cap
             d == x \div Cap
             y == Cap * d
  <2>1. /\ x \in Nat /\ x < 2 * Cap
        /\ m \in 0 .. Cap - 1 /\ d \in Int /\ y \in Int
    BY <1>1
  <2>2. x = y + m
    BY <1>1, <2>1
  <2>3. /\ d <= 0 => y <= 0
        /\ d >= 2 => y >= 2 * Cap
        /\ d = 1 => y = Cap
    BY <1>1, <2>1
  <2> HIDE DEF m, d, y
  <2>4. d = 1
    BY <1>1, <1>3, <2>1, <2>2, <2>3
  <2>5. m = x - Cap
    BY <1>1, <2>1, <2>2, <2>3, <2>4
  <2> QED
    BY <1>1, <1>3, <2>5 DEF m
<1> QED
  BY <1>1, <1>2, <1>3

LEMMA SlotIs ==
  ASSUME NEW w \in 0 .. Cap - 1, NEW n \in 0 .. Cap, NEW i \in 1 .. n
  PROVE  /\ (((w + Cap - n) % Cap) + i - 1) % Cap = Slot(w, n, i)
         /\ Slot(w, n, i) \in 0 .. Cap - 1
<1>1. Cap \in Nat \ {0}
  BY CaptureAssumption
<1> DEFINE b == w + Cap - n
           t == b % Cap
           x == t + i - 1
<1>2. b \in 0 .. 2 * Cap - 1
  BY <1>1
<1> HIDE DEF b
<1>3. t = IF b < Cap THEN b ELSE b - Cap
  BY <1>2, Wrapped
<1>4. x \in 0 .. 2 * Cap - 1
  BY <1>1, <1>2, <1>3 DEF b
<1> HIDE DEF t
<1>5. x % Cap = IF x < Cap THEN x ELSE x - Cap
  <2> HIDE DEF x
  <2> QED
    BY <1>4, Wrapped
<1>6. x % Cap = Slot(w, n, i)
  BY <1>1, <1>3, <1>5 DEF Slot, b
<1>7. Slot(w, n, i) \in 0 .. Cap - 1
  BY <1>1 DEF Slot
<1> QED
  BY <1>6, <1>7 DEF t, b

\* cw_capture_ring_copy: what the ring gives are the newest blocks, the oldest
\* of them first.
LEMMA CopyIsLast ==
  ASSUME NEW r \in Rings, NEW h \in Seq(Nat), Holds(r, h)
  PROVE  /\ ringCopy(r) = LastBlocks(h) /\ ringCopy(r) \in Seq(Nat)
         /\ Len(ringCopy(r)) = r.count
<1>1. Cap \in Nat \ {0} /\ Len(h) \in Nat
  BY CaptureAssumption, LenProperties
<1> DEFINE w == r.write_pos
           n == r.count
           s == r.samples
           g(i) == s[(((w + Cap - n) % Cap) + i - 1) % Cap]
           q == [i \in 1 .. n |-> g(i)]
           l == LastBlocks(h)
<1>2. w \in 0 .. Cap - 1 /\ n \in 0 .. Cap /\ s \in [0 .. Cap - 1 -> Nat] /\ n \in Nat
  BY <1>1 DEF Rings
<1>3. ringCopy(r) = q
  BY DEF ringCopy
<1>4. /\ n = IF Len(h) < Cap THEN Len(h) ELSE Cap
      /\ \A i \in 1 .. n : s[Slot(w, n, i)] = h[Len(h) - n + i]
  BY DEF Holds
<1> HIDE DEF w, n, s
<1>5. ASSUME NEW i \in 1 .. n
      PROVE  g(i) = h[Len(h) - n + i] /\ g(i) \in Nat
  <2>1. g(i) = s[Slot(w, n, i)] /\ Slot(w, n, i) \in 0 .. Cap - 1
    BY <1>2, SlotIs
  <2> HIDE DEF g
  <2> QED
    BY <1>2, <1>4, <2>1
<1> HIDE DEF g
<1>6. q \in Seq(Nat) /\ Len(q) = n /\ \A i \in 1 .. n : q[i] = h[Len(h) - n + i]
  BY <1>2, <1>5
<1>7. l \in Seq(Nat) /\ Len(l) = n /\ \A i \in 1 .. n : l[i] = h[Len(h) - n + i]
  <2>1. CASE Len(h) > Cap
    <3>1. l = SubSeq(h, Len(h) - Cap + 1, Len(h)) /\ n = Cap
      BY <1>1, <1>4, <2>1, SMTT(40) DEF LastBlocks
    <3>2. \A i \in Len(h) - Cap + 1 .. Len(h) : h[i] \in Nat
      BY <1>1, <2>1, ElementOfSeq
    <3>3. /\ SubSeq(h, Len(h) - Cap + 1, Len(h)) \in Seq(Nat)
          /\ Len(SubSeq(h, Len(h) - Cap + 1, Len(h))) = Cap
          /\ \A i \in 1 .. Cap :
                SubSeq(h, Len(h) - Cap + 1, Len(h))[i] = h[Len(h) - Cap + i]
      BY <1>1, <2>1, <3>2
    <3> QED
      BY <3>1, <3>3
  <2>2. CASE ~(Len(h) > Cap)
    <3>1. l = h /\ n = Len(h)
      BY <1>1, <1>4, <2>2 DEF LastBlocks
    <3> QED
      BY <1>1, <3>1
  <2> QED
    BY <2>1, <2>2
<1> HIDE DEF q, l
<1>8. q = l
  BY <1>6, <1>7, SeqEqual
<1> QED
  BY <1>3, <1>6, <1>8 DEF l, n

\* cw_capture_ring_write: a block more was heard.
LEMMA WriteKeeps ==
  ASSUME NEW r \in Rings, NEW h \in Seq(Nat), NEW b \in Nat, Holds(r, h)
  PROVE  ringWrite(r, b) \in Rings /\ Holds(ringWrite(r, b), Append(h, b))
<1>1. Cap \in Nat \ {0} /\ Len(h) \in Nat
  BY CaptureAssumption, LenProperties
<1> DEFINE w == r.write_pos
           n == r.count
           s == r.samples
           v == IF w + 1 >= Cap THEN 0 ELSE w + 1
           m == IF n < Cap THEN n + 1 ELSE n
           u == [s EXCEPT ![w] = b]
           k == Append(h, b)
<1>2. w \in 0 .. Cap - 1 /\ n \in 0 .. Cap /\ s \in [0 .. Cap - 1 -> Nat]
  BY DEF Rings
<1>3. /\ ringWrite(r, b).write_pos = v /\ ringWrite(r, b).count = m
      /\ ringWrite(r, b).samples = u
      /\ ringWrite(r, b) = [samples |-> u, write_pos |-> v, count |-> m]
  BY DEF ringWrite
<1>4. /\ n = IF Len(h) < Cap THEN Len(h) ELSE Cap
      /\ \A i \in 1 .. n : s[Slot(w, n, i)] = h[Len(h) - n + i]
  BY DEF Holds
<1> HIDE DEF w, n, s
<1>5. v \in 0 .. Cap - 1 /\ m \in 0 .. Cap /\ u \in [0 .. Cap - 1 -> Nat]
  BY <1>1, <1>2
<1>6. ringWrite(r, b) \in Rings
  BY <1>3, <1>5 DEF Rings
<1>7. /\ k \in Seq(Nat) /\ Len(k) = Len(h) + 1 /\ k[Len(h) + 1] = b
      /\ \A i \in 1 .. Len(h) : k[i] = h[i]
  BY AppendProperties
<1>8. u[w] = b /\ \A i \in 0 .. Cap - 1 : i # w => u[i] = s[i]
  BY <1>2
<1> HIDE DEF u, k
<1>9. m = IF Len(k) < Cap THEN Len(k) ELSE Cap
  BY <1>1, <1>4, <1>7
<1>10. ASSUME NEW i \in 1 .. m
       PROVE  u[Slot(v, m, i)] = k[Len(k) - m + i]
  <2>1. CASE i = m
    <3>1. Slot(v, m, i) = w
      BY <1>1, <1>2, <1>4, <2>1 DEF Slot
    <3>2. Len(k) - m + i = Len(h) + 1
      BY <1>1, <1>4, <1>7, <2>1
    <3> QED
      BY <1>7, <1>8, <3>1, <3>2
  <2>2. CASE i # m
    <3> DEFINE j == IF n < Cap THEN i ELSE i + 1
    <3>1. j \in 1 .. n
      BY <1>1, <1>2, <1>4, <2>2, SMTT(40)
    <3>2. /\ Slot(v, m, i) = Slot(w, n, j) /\ Slot(w, n, j) # w
          /\ Len(k) - m + i = Len(h) - n + j
      <4>1. CASE n < Cap
        <5>1. m = n + 1 /\ j = i
          BY <4>1
        <5>2. i \in 1 .. n
          BY <1>1, <1>2, <2>2, <5>1
        <5> HIDE DEF m, j
        <5>3. Slot(v, n + 1, i) = Slot(w, n, i) /\ Slot(w, n, i) # w
          BY <1>1, <1>2, <4>1, <5>2 DEF Slot
        <5> QED
          BY <1>1, <1>2, <1>7, <5>1, <5>2, <5>3
      <4>2. CASE ~(n < Cap)
        <5>1. m = Cap /\ n = Cap /\ j = i + 1
          BY <1>1, <1>2, <4>2
        <5>2. i \in 1 .. Cap - 1
          BY <1>1, <1>2, <2>2, <5>1
        <5> HIDE DEF m, j
        <5>3. Slot(v, Cap, i) = Slot(w, Cap, i + 1) /\ Slot(w, Cap, i + 1) # w
          BY <1>1, <1>2, <5>2 DEF Slot
        <5> QED
          BY <1>1, <1>2, <1>7, <5>1, <5>2, <5>3
      <4> QED
        BY <4>1, <4>2
    <3> HIDE DEF j
    <3>4. Slot(w, n, j) \in 0 .. Cap - 1
      BY <1>2, <3>1, SlotIs
    <3>5. u[Slot(v, m, i)] = h[Len(h) - n + j]
      BY <1>4, <1>8, <3>1, <3>2, <3>4
    <3>6. Len(h) - n + j \in 1 .. Len(h)
      BY <1>1, <1>2, <1>4, <3>1
    <3> QED
      BY <1>7, <3>2, <3>5, <3>6
  <2> QED
    BY <2>1, <2>2
<1>11. Holds(ringWrite(r, b), Append(h, b))
  BY <1>3, <1>9, <1>10 DEF Holds, k
<1> QED
  BY <1>6, <1>11

\* The ring of a session starts empty.
LEMMA EmptyHolds == EmptyRing \in Rings /\ Holds(EmptyRing, << >>)
<1>1. Cap \in Nat \ {0} /\ Len(<< >>) = 0
  BY CaptureAssumption, EmptySeq
<1>2. [i \in 0 .. Cap - 1 |-> 0] \in [0 .. Cap - 1 -> Nat]
  OBVIOUS
<1>3. 0 \in 0 .. Cap - 1 /\ 0 \in 0 .. Cap
  BY <1>1
<1> QED
  BY <1>1, <1>2, <1>3 DEF EmptyRing, Rings, Holds

-----------------------------------------------------------------------------
\* A step that touches neither ring nor files, nor opens the dialog.
LEMMA SavedRests ==
  ASSUME SavedInv, UNCHANGED <<ring, heard, received, frozen, clicked, files>>,
         radio' \in Centres \cup {"none"}, gui' = "dialog" => gui = "dialog"
  PROVE  SavedInv'
BY DEF SavedInv, SavedIsTheClick, Holds, OfTheClick, LastBlocks, Slot

LEMMA SavedInit == Init => SavedInv
<1> SUFFICES ASSUME Init PROVE SavedInv
  OBVIOUS
<1>1. << >> \in Seq(Nat) /\ << >> \in Seq(Files) /\ Len(<< >>) = 0
  BY EmptySeq
<1>2. NoCapture \in Captures
  BY <1>1 DEF NoCapture, Captures, Frequencies
<1> QED
  BY <1>1, <1>2, EmptyHolds DEF Init, SavedInv, SavedIsTheClick

LEMMA OpenSaved == ASSUME SavedInv, Open PROVE SavedInv'
<1>1. UNCHANGED <<received, frozen, clicked, files, gui>> /\ radio' \in Centres \cup {"none"}
  BY DEF Open, fileVars, guiVars, SavedInv
<1>2. CASE UNCHANGED <<ring, heard>>
  BY <1>1, <1>2, SavedRests
<1>3. CASE ring' = EmptyRing /\ heard' = << >>
  <2>1. ring' \in Rings /\ heard' \in Seq(Nat)
    BY <1>3, EmptyHolds, EmptySeq
  <2>2. Holds(ring, heard)'
    BY <1>3, EmptyHolds DEF Holds, Slot
  <2>3. (gui = "dialog" => frozen.samples # << >> /\ OfTheClick(frozen, clicked))'
    BY <1>1 DEF SavedInv, OfTheClick, LastBlocks
  <2>4. SavedIsTheClick'
    BY <1>1 DEF SavedInv, SavedIsTheClick, LastBlocks
  <2> QED
    BY <1>1, <2>1, <2>2, <2>3, <2>4 DEF SavedInv
<1> QED
  BY <1>2, <1>3 DEF Open, ringVars

LEMMA BlockSaved == ASSUME SavedInv, Block PROVE SavedInv'
<1>1. /\ UNCHANGED <<frozen, clicked, files, gui, radio>>
      /\ received' = received + 1 /\ ring' = ringWrite(ring, received')
      /\ heard' = Append(heard, received')
  BY DEF Block, fileVars, guiVars
<1>2. received' \in Nat /\ heard' \in Seq(Nat)
  <2>1. received' \in Nat
    BY <1>1 DEF SavedInv
  <2> QED
    BY <1>1, <2>1, AppendProperties DEF SavedInv
<1>3. ring' \in Rings /\ Holds(ringWrite(ring, received'), Append(heard, received'))
  BY <1>1, <1>2, WriteKeeps DEF SavedInv
<1>4. Holds(ring, heard)'
  BY <1>1, <1>3 DEF Holds, Slot
<1>5. (gui = "dialog" => frozen.samples # << >> /\ OfTheClick(frozen, clicked))'
  BY <1>1 DEF SavedInv, OfTheClick, LastBlocks
<1>6. SavedIsTheClick'
  BY <1>1 DEF SavedInv, SavedIsTheClick, LastBlocks
<1> QED
  BY <1>1, <1>2, <1>3, <1>4, <1>5, <1>6 DEF SavedInv

\* cwskimmer_freeze_capture: the snapshot is what was heard last.
LEMMA FreezeSaved == ASSUME SavedInv, FreezeCapture PROVE SavedInv'
<1>1. UNCHANGED <<ring, heard, received, radio, files>>
  BY DEF FreezeCapture, GuiRest, ringVars, detVars
<1>2. SavedIsTheClick'
  BY <1>1 DEF SavedInv, SavedIsTheClick, LastBlocks
<1>3. Holds(ring, heard)'
  BY <1>1 DEF SavedInv, Holds, Slot
<1>4. NoCapture \in Captures
  BY EmptySeq DEF NoCapture, Captures, Frequencies
<1>5. CASE ring.count = 0
  <2>1. frozen' = NoCapture /\ clicked' = clicked /\ gui' = "resume"
    BY <1>5 DEF FreezeCapture, Gui
  <2> QED
    BY <1>1, <1>2, <1>3, <1>4, <2>1 DEF SavedInv
<1>6. CASE ring.count # 0
  <2>1. /\ frozen' = [samples |-> ringCopy(ring), centre |-> radioCentre]
        /\ clicked' = [samples |-> heard, centre |-> radio]
    BY <1>6 DEF FreezeCapture
  <2>2. /\ ringCopy(ring) = LastBlocks(heard) /\ ringCopy(ring) \in Seq(Nat)
        /\ Len(ringCopy(ring)) = ring.count
    BY CopyIsLast DEF SavedInv
  <2>3. radioCentre \in Frequencies /\ radio \in Frequencies
    BY DEF radioCentre, Frequencies, SavedInv
  <2>4. heard \in Seq(Nat) /\ radio # "none" => radioCentre = radio
    BY DEF radioCentre, SavedInv
  <2>5. frozen' \in Captures /\ clicked' \in Captures
    BY <2>1, <2>2, <2>3 DEF Captures, SavedInv
  <2>6. ringCopy(ring) # << >>
    BY <1>6, <2>2, EmptySeq
  <2>7. frozen'.samples # << >> /\ frozen'.samples = LastBlocks(heard)
    BY <2>1, <2>2, <2>6
  <2>8. clicked'.centre # "none" => frozen'.centre = clicked'.centre
    BY <2>1 DEF radioCentre
  <2>9. OfTheClick(frozen, clicked)'
    BY <2>1, <2>7, <2>8 DEF OfTheClick, LastBlocks
  <2> QED
    BY <1>1, <1>2, <1>3, <2>5, <2>7, <2>9 DEF SavedInv
<1> QED
  BY <1>5, <1>6

\* cwskimmer_save_capture writes the snapshot.
LEMMA SaveSaved == ASSUME SavedInv, Save PROVE SavedInv'
<1>1. /\ UNCHANGED <<ring, heard, received, radio, clicked>>
      /\ frozen' = NoCapture /\ gui' = "notice" /\ gui = "dialog"
  BY DEF Save, GuiRest, Gui, ringVars, detVars
<1>2. NoCapture \in Captures
  BY EmptySeq DEF NoCapture, Captures, Frequencies
<1>3. Holds(ring, heard)'
  BY <1>1 DEF SavedInv, Holds, Slot
<1>4. files' \in Seq(Files) /\ SavedIsTheClick'
  <2>1. CASE UNCHANGED files
    BY <2>1 DEF SavedInv, SavedIsTheClick, LastBlocks
  <2>2. CASE files' = Append(files, [saved |-> saveCapture, clicked |-> clicked])
    <3> DEFINE e == [saved |-> frozen, clicked |-> clicked]
    <3>1. saveCapture = frozen /\ OfTheClick(frozen, clicked)
      BY <1>1 DEF saveCapture, SavedInv
    <3>2. files' = Append(files, e)
      BY <2>2, <3>1
    <3>3. e \in Files /\ OfTheClick(e.saved, e.clicked)
      BY <3>1 DEF Files, SavedInv
    <3> HIDE DEF e
    <3>4. files \in Seq(Files) /\ Len(files) \in Nat
      BY LenProperties DEF SavedInv
    <3>5. /\ files' \in Seq(Files) /\ Len(files') = Len(files) + 1
          /\ files'[Len(files) + 1] = e
          /\ \A i \in 1 .. Len(files) : files'[i] = files[i]
      BY <3>2, <3>3, <3>4, AppendProperties
    <3>6. \A i \in 1 .. Len(files) : OfTheClick(files[i].saved, files[i].clicked)
      BY DEF SavedInv, SavedIsTheClick, OfTheClick
    <3>7. \A i \in 1 .. Len(files') : OfTheClick(files'[i].saved, files'[i].clicked)
      BY <3>3, <3>4, <3>5, <3>6
    <3>8. SavedIsTheClick'
      BY <3>7 DEF SavedIsTheClick, OfTheClick, LastBlocks
    <3> QED
      BY <3>5, <3>8
  <2> QED
    BY <2>1, <2>2 DEF Save, writeFile
<1> QED
  BY <1>1, <1>2, <1>3, <1>4 DEF SavedInv

LEMMA CancelSaved == ASSUME SavedInv, Cancel PROVE SavedInv'
<1>1. /\ UNCHANGED <<ring, heard, received, radio, clicked, files>>
      /\ frozen' = NoCapture /\ gui' = "finish"
  BY DEF Cancel, GuiRest, Gui, ringVars, detVars
<1>2. NoCapture \in Captures
  BY EmptySeq DEF NoCapture, Captures, Frequencies
<1> QED
  BY <1>1, <1>2 DEF SavedInv, SavedIsTheClick, LastBlocks, Holds, Slot

LEMMA SavedStep == ASSUME SavedInv, [Next]_vars PROVE SavedInv'
<1> USE DEF ringVars, fileVars, detVars, guiVars, Gui, GuiRest
<1>1. CASE Detection
  <2>1. CASE Retune
    <3>1. radio' \in Centres
      BY <2>1 DEF Retune
    <3> QED
      BY <2>1, <3>1, SavedRests DEF Retune
  <2>2. CASE Gate \/ Gather \/ Flush \/ Emit
    BY <2>2, SavedRests DEF Gate, Gather, Flush, Emit, SavedInv
  <2>3. CASE Leave \/ Refuse \/ Inactive \/ PostEnded
    BY <2>3, SavedRests DEF Leave, Refuse, Inactive, PostEnded, SavedInv
  <2> QED
    BY <1>1, <2>1, <2>2, <2>3, OpenSaved, BlockSaved DEF Detection
<1>2. CASE Worker
  <2>1. CASE WorkerStart
    <3>1. UNCHANGED <<ring, heard, received, frozen, clicked, files, radio, gui>>
      BY <2>1 DEF WorkerStart
    <3> QED
      BY <3>1, SavedRests DEF SavedInv
  <2>2. CASE WorkerJoin
    <3>1. UNCHANGED <<ring, heard, received, frozen, clicked, files, radio>>
      BY <2>2 DEF WorkerJoin
    <3>2. gui' = "dialog" => gui = "dialog"
      BY <2>2 DEF WorkerJoin
    <3> QED
      BY <3>1, <3>2, SavedRests DEF SavedInv
  <2>3. CASE WorkerStop \/ WorkerEnded
    <3>1. UNCHANGED <<ring, heard, received, frozen, clicked, files, radio, gui>>
      BY <2>3 DEF WorkerStop, WorkerEnded
    <3> QED
      BY <3>1, SavedRests DEF SavedInv
  <2> QED
    BY <1>2, <2>1, <2>2, <2>3 DEF Worker
<1>3. CASE Window
  <2>1. CASE ClickStart \/ ClickStop \/ Stop \/ ClickCapture \/ Pause
    <3>1. UNCHANGED <<ring, heard, received, frozen, clicked, files, radio>>
      BY <2>1 DEF ClickStart, ClickStop, Stop, ClickCapture, Pause
    <3>2. gui' = "dialog" => gui = "dialog"
      BY <2>1 DEF ClickStart, ClickStop, Stop, ClickCapture, Pause
    <3> QED
      BY <3>1, <3>2, SavedRests DEF SavedInv
  <2>2. CASE Handle
    <3>1. UNCHANGED <<ring, heard, received, frozen, clicked, files, radio, gui>>
      BY <2>2 DEF Handle
    <3> QED
      BY <3>1, SavedRests DEF SavedInv
  <2>3. CASE Acknowledge \/ Finish \/ Resume \/ Resumed
    <3>1. UNCHANGED <<ring, heard, received, frozen, clicked, files, radio>>
      BY <2>3 DEF Acknowledge, Finish, Resume, Resumed
    <3>2. gui' # "dialog"
      BY <2>3 DEF Acknowledge, Finish, Resume, Resumed
    <3> QED
      BY <3>1, <3>2, SavedRests DEF SavedInv
  <2> QED
    BY <1>3, <2>1, <2>2, <2>3, FreezeSaved, CancelSaved, SaveSaved DEF Window
<1>4. CASE UNCHANGED vars
  BY <1>4, SavedRests DEF vars, SavedInv
<1> QED
  BY <1>1, <1>2, <1>3, <1>4 DEF Next

\* A saved capture is the IQ of the moment of the Shift+click, however long the
\* dialog was open and whatever the session did meanwhile.
THEOREM CaptureOfTheClick == Spec => []SavedIsTheClick
<1>1. SavedInv => SavedIsTheClick
  BY DEF SavedInv
<1>2. SavedInv /\ [Next]_vars => SavedInv'
  BY SavedStep
<1> QED
  BY <1>1, <1>2, SavedInit, PTL DEF Spec

-----------------------------------------------------------------------------
\* The relations of the columns on their way.
LEMMA NothingFits ==
  /\ << >> \in Seq(Nat) /\ Rising(<< >>)
  /\ \A s : Before(<< >>, s) /\ Before(s, << >>)
  /\ \A w : After(w, << >>) /\ Ahead(<< >>, w)
  /\ \A n : UpTo(<< >>, n)
BY EmptySeq DEF Rising, Before, After, Ahead, UpTo

LEMMA ColsType == ASSUME NEW e \in Posted PROVE Cols(e) \in Seq(Nat)
<1>1. e.kind = "columns" => e.cols \in Seq(Nat)
  BY DEF Posted
<1> QED
  BY <1>1, EmptySeq DEF Cols

\* One after the other.
LEMMA Chained ==
  ASSUME NEW s \in Seq(Nat), NEW t \in Seq(Nat)
  PROVE  /\ s \o t \in Seq(Nat)
         /\ Rising(s) /\ Rising(t) /\ Before(s, t) => Rising(s \o t)
         /\ \A u : Before(s, u) /\ Before(t, u) => Before(s \o t, u)
         /\ \A u : Before(u, s) /\ Before(u, t) => Before(u, s \o t)
         /\ \A n : UpTo(s, n) /\ UpTo(t, n) => UpTo(s \o t, n)
<1> DEFINE c == s \o t
<1>1. /\ c \in Seq(Nat) /\ Len(c) = Len(s) + Len(t) /\ Len(s) \in Nat /\ Len(t) \in Nat
      /\ \A i \in 1 .. Len(s) : c[i] = s[i]
      /\ \A i \in 1 .. Len(t) : c[Len(s) + i] = t[i]
  OBVIOUS
<1>2. ASSUME NEW i \in 1 .. Len(c)
      PROVE  \/ i \in 1 .. Len(s) /\ c[i] = s[i]
             \/ i - Len(s) \in 1 .. Len(t) /\ c[i] = t[i - Len(s)]
  <2>1. CASE i <= Len(s)
    BY <1>1, <2>1
  <2>2. CASE i > Len(s)
    <3>1. i - Len(s) \in 1 .. Len(t) /\ Len(s) + (i - Len(s)) = i
      BY <1>1, <2>2
    <3> QED
      BY <1>1, <3>1
  <2> QED
    BY <1>1, <2>1, <2>2
<1> HIDE DEF c
<1>3. ASSUME Rising(s), Rising(t), Before(s, t) PROVE Rising(c)
  <2> SUFFICES ASSUME NEW i \in 1 .. Len(c), NEW j \in 1 .. Len(c), i < j
               PROVE  c[i] < c[j]
    BY DEF Rising
  <2>1. CASE i <= Len(s) /\ j <= Len(s)
    BY <1>1, <1>3, <2>1 DEF Rising
  <2>2. CASE i <= Len(s) /\ j > Len(s)
    <3>1. i \in 1 .. Len(s) /\ c[i] = s[i]
      <4>1. \/ i \in 1 .. Len(s) /\ c[i] = s[i]
            \/ i - Len(s) \in 1 .. Len(t) /\ c[i] = t[i - Len(s)]
        BY <1>2
      <4>2. ~(i - Len(s) \in 1 .. Len(t))
        BY <1>1, <2>2
      <4> QED
        BY <4>1, <4>2
    <3>2. \/ j \in 1 .. Len(s) /\ c[j] = s[j]
          \/ j - Len(s) \in 1 .. Len(t) /\ c[j] = t[j - Len(s)]
      BY <1>2
    <3>3. j - Len(s) \in 1 .. Len(t) /\ c[j] = t[j - Len(s)]
      BY <1>1, <2>2, <3>2
    <3> QED
      BY <1>3, <3>1, <3>3 DEF Before
  <2>3. CASE i > Len(s) /\ j > Len(s)
    <3>1. i - Len(s) \in 1 .. Len(t) /\ c[i] = t[i - Len(s)]
      <4>1. \/ i \in 1 .. Len(s) /\ c[i] = s[i]
            \/ i - Len(s) \in 1 .. Len(t) /\ c[i] = t[i - Len(s)]
        BY <1>2
      <4> QED
        BY <1>1, <2>3, <4>1
    <3>2. j - Len(s) \in 1 .. Len(t) /\ c[j] = t[j - Len(s)]
      <4>1. \/ j \in 1 .. Len(s) /\ c[j] = s[j]
            \/ j - Len(s) \in 1 .. Len(t) /\ c[j] = t[j - Len(s)]
        BY <1>2
      <4> QED
        BY <1>1, <2>3, <4>1
    <3>3. i - Len(s) < j - Len(s)
      BY <1>1
    <3> QED
      BY <1>3, <3>1, <3>2, <3>3 DEF Rising
  <2> QED
    BY <1>1, <2>1, <2>2, <2>3, SMTT(40)
<1>4. ASSUME NEW u, Before(s, u), Before(t, u) PROVE Before(c, u)
  BY <1>2, <1>4 DEF Before
<1>5. ASSUME NEW u, Before(u, s), Before(u, t) PROVE Before(u, c)
  BY <1>2, <1>5 DEF Before
<1>6. ASSUME NEW n, UpTo(s, n), UpTo(t, n) PROVE UpTo(c, n)
  BY <1>2, <1>6 DEF UpTo
<1> QED
  BY <1>1, <1>3, <1>4, <1>5, <1>6 DEF c

\* What is kept when the oldest columns are dropped.
LEMMA NewestKeeps ==
  ASSUME NEW s \in Seq(Nat)
  PROVE  /\ Newest(s) \in Seq(Nat)
         /\ Rising(s) => Rising(Newest(s))
         /\ \A u : Before(u, s) => Before(u, Newest(s))
         /\ \A n : UpTo(s, n) => UpTo(Newest(s), n)
<1>1. Depth \in Nat \ {0} /\ Len(s) \in Nat
  BY CaptureAssumption, LenProperties
<1> DEFINE c == Newest(s)
           d == IF Len(s) > Depth THEN Len(s) - Depth ELSE 0
<1>2. d \in Nat
  BY <1>1
<1>3. /\ c \in Seq(Nat) /\ Len(c) = Len(s) - d
      /\ \A i \in 1 .. Len(c) : c[i] = s[d + i]
  <2>1. CASE Len(s) > Depth
    <3>1. \A i \in Len(s) - Depth + 1 .. Len(s) : s[i] \in Nat
      BY <1>1, <2>1, ElementOfSeq
    <3>2. c = SubSeq(s, Len(s) - Depth + 1, Len(s)) /\ d = Len(s) - Depth
      BY <2>1 DEF Newest
    <3>3. /\ SubSeq(s, Len(s) - Depth + 1, Len(s)) \in Seq(Nat)
          /\ Len(SubSeq(s, Len(s) - Depth + 1, Len(s))) = Depth
          /\ \A i \in 1 .. Depth :
                SubSeq(s, Len(s) - Depth + 1, Len(s))[i] = s[Len(s) - Depth + i]
      BY <1>1, <2>1, <3>1
    <3>4. c \in Seq(Nat) /\ Len(c) = Depth /\ \A i \in 1 .. Depth : c[i] = s[d + i]
      BY <3>2, <3>3
    <3>5. Len(s) - d = Depth
      BY <1>1, <3>2
    <3> QED
      BY <3>4, <3>5
  <2>2. CASE ~(Len(s) > Depth)
    <3>1. c = s /\ d = 0
      BY <2>2 DEF Newest
    <3> QED
      BY <1>1, <3>1
  <2> QED
    BY <2>1, <2>2
<1> HIDE DEF c, d
<1>4. ASSUME NEW i \in 1 .. Len(c) PROVE d + i \in 1 .. Len(s) /\ c[i] = s[d + i]
  BY <1>1, <1>2, <1>3
<1>5. ASSUME Rising(s) PROVE Rising(c)
  <2> SUFFICES ASSUME NEW i \in 1 .. Len(c), NEW j \in 1 .. Len(c), i < j
               PROVE  c[i] < c[j]
    BY DEF Rising
  <2>1. d + i \in 1 .. Len(s) /\ c[i] = s[d + i]
    BY <1>4
  <2>2. d + j \in 1 .. Len(s) /\ c[j] = s[d + j]
    BY <1>4
  <2>3. d + i < d + j
    BY <1>2
  <2> QED
    BY <1>5, <2>1, <2>2, <2>3 DEF Rising
<1>6. ASSUME NEW u, Before(u, s) PROVE Before(u, c)
  BY <1>4, <1>6 DEF Before
<1>7. ASSUME NEW n, UpTo(s, n) PROVE UpTo(c, n)
  BY <1>4, <1>7 DEF UpTo
<1> QED
  BY <1>3, <1>5, <1>6, <1>7 DEF c

\* An event is posted.
LEMMA EventPosted ==
  ASSUME NEW w \in Seq(Posted), NEW e \in Posted
  PROVE  /\ Append(w, e) \in Seq(Posted)
         /\ \A s : Ahead(s, w) /\ Before(s, Cols(e)) => Ahead(s, Append(w, e))
         /\ \A s : After(w, s) /\ Before(Cols(e), s) => After(Append(w, e), s)
         /\ Queue(w) /\ Rising(Cols(e)) /\ After(w, Cols(e)) => Queue(Append(w, e))
         /\ \A n : AllUpTo(w, n) /\ UpTo(Cols(e), n) => AllUpTo(Append(w, e), n)
<1> DEFINE v == Append(w, e)
<1>1. /\ v \in Seq(Posted) /\ Len(v) = Len(w) + 1 /\ v[Len(w) + 1] = e
      /\ \A i \in 1 .. Len(w) : v[i] = w[i]
      /\ Len(w) \in Nat
  BY AppendProperties, LenProperties
<1> HIDE DEF v
<1>2. ASSUME NEW i \in 1 .. Len(v)
      PROVE  \/ i \in 1 .. Len(w) /\ v[i] = w[i]
             \/ i = Len(w) + 1 /\ v[i] = e
  BY <1>1
<1>3. ASSUME NEW s, Ahead(s, w), Before(s, Cols(e)) PROVE Ahead(s, v)
  BY <1>2, <1>3 DEF Ahead
<1>4. ASSUME NEW s, After(w, s), Before(Cols(e), s) PROVE After(v, s)
  BY <1>2, <1>4 DEF After
<1>5. ASSUME Queue(w), Rising(Cols(e)), After(w, Cols(e)) PROVE Queue(v)
  <2>1. \A i \in 1 .. Len(v) : Rising(Cols(v[i]))
    BY <1>2, <1>5 DEF Queue
  <2>2. ASSUME NEW i \in 1 .. Len(v), NEW j \in 1 .. Len(v), i < j
        PROVE  Before(Cols(v[i]), Cols(v[j]))
    <3>1. i \in 1 .. Len(w) /\ v[i] = w[i]
      BY <1>1, <2>2
    <3>2. CASE j \in 1 .. Len(w)
      BY <1>1, <1>5, <2>2, <3>1, <3>2 DEF Queue
    <3>3. CASE v[j] = e
      BY <1>5, <3>1, <3>3 DEF After
    <3> QED
      BY <1>2, <3>2, <3>3
  <2> QED
    BY <2>1, <2>2 DEF Queue
<1>6. ASSUME NEW n, AllUpTo(w, n), UpTo(Cols(e), n) PROVE AllUpTo(v, n)
  BY <1>2, <1>6 DEF AllUpTo
<1> QED
  BY <1>1, <1>3, <1>4, <1>5, <1>6 DEF v

\* An event is taken.
LEMMA EventTaken ==
  ASSUME NEW w \in Seq(Posted), w # << >>
  PROVE  /\ Head(w) \in Posted /\ Tail(w) \in Seq(Posted)
         /\ \A s : Ahead(s, w) => Before(s, Cols(Head(w))) /\ Ahead(s, Tail(w))
         /\ \A s : After(w, s) => Before(Cols(Head(w)), s) /\ After(Tail(w), s)
         /\ Queue(w) => /\ Queue(Tail(w)) /\ Rising(Cols(Head(w)))
                        /\ Ahead(Cols(Head(w)), Tail(w))
         /\ \A n : AllUpTo(w, n) => UpTo(Cols(Head(w)), n) /\ AllUpTo(Tail(w), n)
<1> DEFINE v == Tail(w)
           e == Head(w)
<1>1. /\ v \in Seq(Posted) /\ e \in Posted /\ Len(v) = Len(w) - 1 /\ e = w[1]
      /\ \A i \in 1 .. Len(v) : v[i] = w[i + 1]
      /\ Len(w) \in Nat \ {0} /\ Len(v) \in Nat
  BY HeadTailProperties, LenProperties, EmptySeq
<1> HIDE DEF v, e
<1>2. ASSUME NEW i \in 1 .. Len(v) PROVE i + 1 \in 1 .. Len(w) /\ v[i] = w[i + 1]
  BY <1>1
<1>3. 1 \in 1 .. Len(w)
  BY <1>1
<1>4. ASSUME NEW s, Ahead(s, w) PROVE Before(s, Cols(e)) /\ Ahead(s, v)
  BY <1>1, <1>2, <1>3, <1>4 DEF Ahead
<1>5. ASSUME NEW s, After(w, s) PROVE Before(Cols(e), s) /\ After(v, s)
  BY <1>1, <1>2, <1>3, <1>5 DEF After
<1>6. ASSUME Queue(w) PROVE Queue(v) /\ Rising(Cols(e)) /\ Ahead(Cols(e), v)
  <2>1. Rising(Cols(e)) /\ \A i \in 1 .. Len(v) : Rising(Cols(v[i]))
    BY <1>1, <1>2, <1>3, <1>6 DEF Queue
  <2>2. ASSUME NEW i \in 1 .. Len(v), NEW j \in 1 .. Len(v), i < j
        PROVE  Before(Cols(v[i]), Cols(v[j]))
    <3>1. i + 1 \in 1 .. Len(w) /\ v[i] = w[i + 1]
      BY <1>2
    <3>2. j + 1 \in 1 .. Len(w) /\ v[j] = w[j + 1]
      BY <1>2
    <3>3. i + 1 < j + 1
      BY <1>1, <2>2
    <3> QED
      BY <1>6, <3>1, <3>2, <3>3 DEF Queue
  <2>3. ASSUME NEW i \in 1 .. Len(v) PROVE Before(Cols(e), Cols(v[i]))
    <3>1. i + 1 \in 1 .. Len(w) /\ v[i] = w[i + 1] /\ 1 < i + 1
      BY <1>1, <1>2
    <3> QED
      BY <1>1, <1>3, <1>6, <3>1 DEF Queue
  <2> QED
    BY <2>1, <2>2, <2>3 DEF Queue, Ahead
<1>7. ASSUME NEW n, AllUpTo(w, n) PROVE UpTo(Cols(e), n) /\ AllUpTo(v, n)
  BY <1>1, <1>2, <1>3, <1>7 DEF AllUpTo
<1> QED
  BY <1>1, <1>4, <1>5, <1>6, <1>7 DEF v, e

\* A block more was received.
LEMMA BoundGrows ==
  ASSUME NEW n \in Nat
  PROVE  /\ \A s \in Seq(Nat) : UpTo(s, n) => UpTo(s, n + 1) /\ Before(s, <<n + 1>>)
         /\ \A w \in Seq(Posted) : AllUpTo(w, n) =>
                AllUpTo(w, n + 1) /\ After(w, <<n + 1>>)
         /\ <<n + 1>> \in Seq(Nat) /\ Rising(<<n + 1>>) /\ UpTo(<<n + 1>>, n + 1)
<1> DEFINE b == <<n + 1>>
<1>1. b \in Seq(Nat) /\ Len(b) = 1 /\ b[1] = n + 1
  OBVIOUS
<1> HIDE DEF b
<1>2. Rising(b) /\ UpTo(b, n + 1)
  BY <1>1 DEF Rising, UpTo
<1>3. ASSUME NEW s \in Seq(Nat), UpTo(s, n) PROVE UpTo(s, n + 1) /\ Before(s, b)
  <2>1. ASSUME NEW i \in 1 .. Len(s) PROVE s[i] \in Nat /\ s[i] <= n
    BY <1>3, ElementOfSeq DEF UpTo
  <2> QED
    BY <1>1, <2>1 DEF UpTo, Before
<1>4. ASSUME NEW w \in Seq(Posted), AllUpTo(w, n)
      PROVE  AllUpTo(w, n + 1) /\ After(w, b)
  <2> SUFFICES ASSUME NEW i \in 1 .. Len(w)
               PROVE  UpTo(Cols(w[i]), n + 1) /\ Before(Cols(w[i]), b)
    BY DEF AllUpTo, After
  <2>1. Cols(w[i]) \in Seq(Nat)
    BY ColsType, ElementOfSeq
  <2>2. UpTo(Cols(w[i]), n)
    BY <1>4 DEF AllUpTo
  <2> QED
    BY <1>3, <2>1, <2>2
<1> QED
  BY <1>1, <1>2, <1>3, <1>4 DEF b

-----------------------------------------------------------------------------
\* The steps of what is drawn.  Nothing moves; the columns that wait may be
\* dropped.
LEMMA DrawnRests ==
  ASSUME DrawnInv, UNCHANGED <<received, shown, column, events>>,
         pending' \in {pending, << >>}, InHand'
  PROVE  DrawnInv'
<1>1. CASE pending' = pending
  <2>1. DrawnTypes' /\ DrawnBound'
    BY <1>1 DEF DrawnInv, DrawnTypes, DrawnBound
  <2>2. DrawnOrder'
    BY <1>1 DEF DrawnInv, DrawnOrder
  <2> QED
    BY <2>1, <2>2 DEF DrawnInv
<1>2. CASE pending' = << >>
  <2>1. DrawnTypes' /\ DrawnBound'
    BY <1>2, NothingFits DEF DrawnInv, DrawnTypes, DrawnBound
  <2>2. DrawnOrder'
    BY <1>2, NothingFits DEF DrawnInv, DrawnOrder
  <2> QED
    BY <2>1, <2>2 DEF DrawnInv
<1> QED
  BY <1>1, <1>2

\* A status is posted; the columns that wait may be dropped.
LEMMA StatusPosted ==
  ASSUME DrawnInv, NEW b \in BOOLEAN, events' = Append(events, Status(b)),
         UNCHANGED <<received, shown, column>>,
         pending' \in {pending, << >>}, InHand'
  PROVE  DrawnInv'
<1> DEFINE e == Status(b)
<1>1. e \in Posted /\ Cols(e) = << >>
  BY DEF Status, Posted, Cols
<1>2. events \in Seq(Posted)
  BY DEF DrawnInv, DrawnTypes
<1> HIDE DEF e
<1>3. /\ events' \in Seq(Posted)
      /\ \A s : Ahead(s, events) => Ahead(s, events')
      /\ \A s : After(events, s) => After(events', s)
      /\ Queue(events) => Queue(events')
      /\ \A n : AllUpTo(events, n) => AllUpTo(events', n)
  <2>1. events' = Append(events, e)
    BY DEF e
  <2>2. /\ \A s : Before(s, Cols(e)) /\ Before(Cols(e), s) /\ After(events, Cols(e))
        /\ Rising(Cols(e)) /\ \A n : UpTo(Cols(e), n)
    BY <1>1, NothingFits
  <2> QED
    BY <1>1, <1>2, <2>1, <2>2, EventPosted
<1>4. pending' \in Seq(Nat) /\ UpTo(pending', received)
  BY NothingFits DEF DrawnInv, DrawnTypes, DrawnBound
<1>5. /\ Before(shown, pending') /\ After(events, pending') /\ Rising(pending')
      /\ Before(pending', column)
  BY NothingFits DEF DrawnInv, DrawnOrder
<1>6. DrawnTypes' /\ DrawnBound'
  BY <1>3, <1>4 DEF DrawnInv, DrawnTypes, DrawnBound
<1>7. DrawnOrder'
  BY <1>3, <1>5 DEF DrawnInv, DrawnOrder
<1> QED
  BY <1>6, <1>7 DEF DrawnInv

\* A block more, and perhaps its column.
LEMMA BlockDrawn == ASSUME DrawnInv, Block PROVE DrawnInv'
<1>1. /\ received' = received + 1 /\ received \in Nat
      /\ UNCHANGED <<shown, pending, events, launched>>
      /\ dpc = "loop" /\ column = << >>
      /\ \/ dpc' = "callback" /\ column' = <<received + 1>>
         \/ dpc' = dpc /\ column' = column
  BY DEF Block, batchVars, guiVars, gateVars, DrawnInv, DrawnTypes, InHand
<1>2. InHand'
  BY <1>1 DEF DrawnInv, InHand
<1> DEFINE b == <<received + 1>>
<1>3. /\ b \in Seq(Nat) /\ Rising(b) /\ UpTo(b, received + 1)
      /\ Before(shown, b) /\ Before(pending, b) /\ After(events, b)
      /\ UpTo(shown, received + 1) /\ UpTo(pending, received + 1)
      /\ AllUpTo(events, received + 1)
  BY <1>1, BoundGrows DEF DrawnInv, DrawnTypes, DrawnBound
<1>4. column' = b \/ column' = << >>
  BY <1>1
<1> HIDE DEF b
<1>5. /\ column' \in Seq(Nat) /\ Rising(column') /\ UpTo(column', received + 1)
      /\ Before(shown, column') /\ Before(pending, column') /\ After(events, column')
  BY <1>3, <1>4, NothingFits
<1>6. DrawnTypes' /\ DrawnBound'
  BY <1>1, <1>3, <1>5 DEF DrawnInv, DrawnTypes, DrawnBound
<1>7. DrawnOrder'
  BY <1>1, <1>5 DEF DrawnInv, DrawnOrder
<1> QED
  BY <1>2, <1>6, <1>7 DEF DrawnInv

\* The pthread hands its column over, or gives it up.
LEMMA GateDrawn == ASSUME DrawnInv, Gate PROVE DrawnInv'
<1>1. /\ UNCHANGED <<received, shown, pending, events, launched>>
      /\ dpc = "callback"
      /\ \/ dpc' = "append" /\ column' = column
         \/ dpc' = "loop" /\ column' = << >>
  BY DEF Gate, batchVars, guiVars, gateVars
<1>2. InHand'
  BY <1>1 DEF DrawnInv, InHand
<1>3. CASE column' = column
  BY <1>1, <1>2, <1>3, DrawnRests
<1>4. CASE column' = << >>
  <2>1. DrawnTypes' /\ DrawnBound'
    BY <1>1, <1>4, NothingFits DEF DrawnInv, DrawnTypes, DrawnBound
  <2>2. DrawnOrder'
    BY <1>1, <1>4, NothingFits DEF DrawnInv, DrawnOrder
  <2> QED
    BY <1>2, <2>1, <2>2 DEF DrawnInv
<1> QED
  BY <1>1, <1>3, <1>4

LEMMA GatherDrawn == ASSUME DrawnInv, Gather PROVE DrawnInv'
<1>1. /\ UNCHANGED <<received, shown, events, launched>>
      /\ dpc = "append" /\ dpc' \in {"flush", "loop"}
      /\ pending' = Newest(pending \o column) /\ column' = << >>
  BY DEF Gather, gateVars, guiVars
<1>2. InHand'
  BY <1>1 DEF DrawnInv, InHand
<1> DEFINE p == pending \o column
<1>3. pending \in Seq(Nat) /\ column \in Seq(Nat)
  BY DEF DrawnInv, DrawnTypes
<1>4. /\ p \in Seq(Nat) /\ Rising(p) /\ UpTo(p, received) /\ Before(shown, p)
      /\ After(events, p)
  <2>1. /\ p \in Seq(Nat) /\ Rising(p) /\ UpTo(p, received) /\ Before(shown, p)
    BY <1>3, Chained DEF DrawnInv, DrawnOrder, DrawnBound
  <2>2. ASSUME NEW i \in 1 .. Len(events) PROVE Before(Cols(events[i]), p)
    <3>1. Before(Cols(events[i]), pending) /\ Before(Cols(events[i]), column)
      BY DEF DrawnInv, DrawnOrder, After
    <3> QED
      BY <1>3, <3>1, Chained
  <2> QED
    BY <2>1, <2>2 DEF After
<1> HIDE DEF p
<1>5. /\ pending' \in Seq(Nat) /\ Rising(pending') /\ UpTo(pending', received)
      /\ Before(shown, pending') /\ After(events, pending')
  <2>1. pending' = Newest(p)
    BY <1>1 DEF p
  <2>2. /\ Newest(p) \in Seq(Nat) /\ Rising(Newest(p)) /\ UpTo(Newest(p), received)
        /\ \A u : Before(u, p) => Before(u, Newest(p))
    BY <1>4, NewestKeeps
  <2>3. After(events, Newest(p))
    BY <1>4, <2>2 DEF After
  <2> QED
    BY <1>4, <2>1, <2>2, <2>3
<1>6. DrawnTypes' /\ DrawnBound'
  BY <1>1, <1>5, NothingFits DEF DrawnInv, DrawnTypes, DrawnBound
<1>7. DrawnOrder'
  BY <1>1, <1>5, NothingFits DEF DrawnInv, DrawnOrder
<1> QED
  BY <1>2, <1>6, <1>7 DEF DrawnInv

LEMMA FlushDrawn == ASSUME DrawnInv, Flush PROVE DrawnInv'
<1>1. /\ UNCHANGED <<received, shown, events, launched>>
      /\ dpc = "flush" /\ dpc' = IF pending = << >> THEN "loop" ELSE "emit"
      /\ column' = pending /\ pending' = << >>
  BY DEF Flush, gateVars, guiVars
<1>2. InHand'
  BY <1>1 DEF DrawnInv, InHand
<1>3. DrawnTypes' /\ DrawnBound'
  BY <1>1, NothingFits DEF DrawnInv, DrawnTypes, DrawnBound
<1>4. DrawnOrder'
  BY <1>1, NothingFits DEF DrawnInv, DrawnOrder
<1> QED
  BY <1>2, <1>3, <1>4 DEF DrawnInv

LEMMA EmitDrawn == ASSUME DrawnInv, Emit PROVE DrawnInv'
<1> DEFINE e == [kind |-> "columns", cols |-> column]
<1>1. /\ UNCHANGED <<received, shown, pending, launched>>
      /\ dpc = "emit" /\ dpc' = "loop" /\ pending = << >>
      /\ events' = Append(events, e) /\ column' = << >>
  BY DEF Emit, gateVars, guiVars, batchVars, DrawnInv, InHand
<1>2. InHand'
  BY <1>1 DEF DrawnInv, InHand
<1>3. e \in Posted /\ Cols(e) = column
  BY DEF Posted, Cols, DrawnInv, DrawnTypes
<1> HIDE DEF e
<1>4. /\ events' \in Seq(Posted) /\ Ahead(shown, events') /\ Queue(events')
      /\ AllUpTo(events', received)
  BY <1>1, <1>3, EventPosted DEF DrawnInv, DrawnTypes, DrawnOrder, DrawnBound
<1>5. DrawnTypes' /\ DrawnBound'
  BY <1>1, <1>4, NothingFits DEF DrawnInv, DrawnTypes, DrawnBound
<1>6. DrawnOrder'
  BY <1>1, <1>4, NothingFits DEF DrawnInv, DrawnOrder
<1> QED
  BY <1>2, <1>5, <1>6 DEF DrawnInv

\* The GUI thread takes an event and draws its columns, or does not.
LEMMA HandleDrawn == ASSUME DrawnInv, Handle PROVE DrawnInv'
<1> DEFINE e == Head(events)
           w == Tail(events)
<1>1. /\ UNCHANGED <<received, column, pending, dpc, launched>>
      /\ events # << >> /\ events' = w
      /\ \/ shown' = shown
         \/ e.kind = "columns" /\ shown' = shown \o e.cols
  BY DEF Handle, GuiRest, detVars, batchVars
<1>2. InHand'
  BY <1>1 DEF DrawnInv, InHand
<1>3. events \in Seq(Posted) /\ shown \in Seq(Nat)
  BY DEF DrawnInv, DrawnTypes
<1>4. /\ e \in Posted /\ w \in Seq(Posted)
      /\ Before(shown, Cols(e)) /\ Ahead(shown, w)
      /\ Before(Cols(e), pending) /\ After(w, pending)
      /\ Before(Cols(e), column) /\ After(w, column)
      /\ Queue(w) /\ Rising(Cols(e)) /\ Ahead(Cols(e), w)
      /\ UpTo(Cols(e), received) /\ AllUpTo(w, received)
  BY <1>1, <1>3, EventTaken DEF DrawnInv, DrawnOrder, DrawnBound
<1> HIDE DEF e, w
<1>5. CASE shown' = shown
  <2>1. DrawnTypes' /\ DrawnBound'
    BY <1>1, <1>4, <1>5 DEF DrawnInv, DrawnTypes, DrawnBound
  <2>2. DrawnOrder'
    BY <1>1, <1>4, <1>5 DEF DrawnInv, DrawnOrder
  <2> QED
    BY <1>2, <2>1, <2>2 DEF DrawnInv
<1>6. CASE e.kind = "columns" /\ shown' = shown \o e.cols
  <2> DEFINE s == Cols(e)
  <2>1. shown' = shown \o s /\ s \in Seq(Nat)
    BY <1>4, <1>6, ColsType DEF Cols
  <2>2. Before(shown, s) /\ Rising(s) /\ UpTo(s, received) /\ Before(s, pending)
        /\ Before(s, column) /\ Ahead(s, w)
    BY <1>4
  <2> HIDE DEF s
  <2>3. /\ shown' \in Seq(Nat) /\ Rising(shown') /\ UpTo(shown', received)
        /\ Before(shown', pending) /\ Before(shown', column)
    BY <1>3, <2>1, <2>2, Chained DEF DrawnInv, DrawnOrder, DrawnBound
  <2>4. Ahead(shown', w)
    <3> SUFFICES ASSUME NEW i \in 1 .. Len(w) PROVE Before(shown', Cols(w[i]))
      BY DEF Ahead
    <3>1. Before(shown, Cols(w[i])) /\ Before(s, Cols(w[i]))
      BY <1>4, <2>2 DEF Ahead
    <3> QED
      BY <1>3, <2>1, <3>1, Chained
  <2>5. DrawnTypes' /\ DrawnBound'
    BY <1>1, <1>4, <2>3 DEF DrawnInv, DrawnTypes, DrawnBound
  <2>6. DrawnOrder'
    BY <1>1, <1>4, <2>3, <2>4 DEF DrawnInv, DrawnOrder
  <2> QED
    BY <1>2, <2>5, <2>6 DEF DrawnInv
<1> QED
  BY <1>1, <1>5, <1>6

LEMMA DrawnInit == Init => DrawnInv
<1> SUFFICES ASSUME Init PROVE DrawnInv
  OBVIOUS
<1>1. << >> \in Seq(Posted) /\ Queue(<< >>) /\ \A n : AllUpTo(<< >>, n)
  BY EmptySeq DEF Queue, AllUpTo
<1>2. DrawnTypes /\ DrawnBound
  BY <1>1, NothingFits DEF Init, DrawnTypes, DrawnBound
<1>3. DrawnOrder /\ InHand
  BY <1>1, NothingFits DEF Init, DrawnOrder, InHand
<1> QED
  BY <1>2, <1>3 DEF DrawnInv

LEMMA DrawnStep == ASSUME DrawnInv, [Next]_vars PROVE DrawnInv'
<1> USE DEF ringVars, fileVars, detVars, gateVars, batchVars, guiVars, Gui, GuiRest,
            ClearBatch
<1>1. CASE Detection
  <2>1. CASE \/ Open \/ Retune \/ Leave \/ Refuse \/ Inactive \/ PostEnded
    <3>1. UNCHANGED <<received, shown, column, events, pending, launched>>
      BY <2>1 DEF Open, Retune, Leave, Refuse, Inactive, PostEnded
    <3>2. /\ dpc \notin {"callback", "append", "emit", "none"}
          /\ dpc' \notin {"callback", "append", "emit"}
      BY <2>1 DEF Open, Retune, Leave, Refuse, Inactive, PostEnded
    <3>3. InHand'
      BY <3>1, <3>2 DEF DrawnInv, InHand
    <3> QED
      BY <3>1, <3>3, DrawnRests
  <2> QED
    BY <1>1, <2>1, BlockDrawn, GateDrawn, GatherDrawn, FlushDrawn, EmitDrawn
       DEF Detection
<1>2. CASE Worker
  <2>1. CASE WorkerStart
    <3>1. CASE active
      <4>1. UNCHANGED <<received, shown, column, events, pending, dpc, launched>>
        BY <2>1, <3>1 DEF WorkerStart
      <4> QED
        BY <4>1, DrawnRests DEF DrawnInv, InHand
    <3>2. CASE ~active
      <4>1. /\ UNCHANGED <<received, shown, column>> /\ pending' = << >>
            /\ events' = Append(events, Status(TRUE))
            /\ launched' /\ dpc' = "open"
            /\ launched => dpc = "exited"
        BY <2>1, <3>2 DEF WorkerStart
      <4>2. InHand'
        BY <4>1 DEF DrawnInv, InHand
      <4> QED
        BY <4>1, <4>2, StatusPosted
    <3> QED
      BY <3>1, <3>2
  <2>2. CASE WorkerStop
    <3>1. /\ UNCHANGED <<received, shown, column, events, dpc, launched>>
          /\ pending' = << >>
      BY <2>2 DEF WorkerStop
    <3> QED
      BY <3>1, DrawnRests DEF DrawnInv, InHand
  <2>3. CASE WorkerJoin
    <3>1. /\ UNCHANGED <<received, shown, column, pending>>
          /\ events' = Append(events, Status(FALSE))
          /\ dpc \in {"none", "exited"} /\ dpc' = "none"
      BY <2>3 DEF WorkerJoin
    <3>2. InHand'
      BY <3>1 DEF DrawnInv, InHand
    <3> QED
      BY <3>1, <3>2, StatusPosted
  <2>4. CASE WorkerEnded
    <3>1. /\ UNCHANGED <<received, shown, column, dpc, launched>> /\ pending' = << >>
          /\ events' = Append(events, Status(FALSE))
      BY <2>4 DEF WorkerEnded
    <3>2. InHand'
      BY <3>1 DEF DrawnInv, InHand
    <3> QED
      BY <3>1, <3>2, StatusPosted
  <2> QED
    BY <1>2, <2>1, <2>2, <2>3, <2>4 DEF Worker
<1>3. CASE Window
  <2>1. CASE Handle
    BY <2>1, HandleDrawn
  <2>2. CASE ~Handle
    <3>1. UNCHANGED <<received, shown, column, events, dpc, launched>>
      BY <1>3, <2>2 DEF Window, ClickStart, ClickStop, Stop, ClickCapture, Pause,
         FreezeCapture, Cancel, Save, Acknowledge, Finish, Resume, Resumed
    <3>2. pending' \in {pending, << >>}
      BY <1>3, <2>2 DEF Window, ClickStart, ClickStop, Stop, ClickCapture, Pause,
         FreezeCapture, Cancel, Save, Acknowledge, Finish, Resume, Resumed
    <3> QED
      BY <3>1, <3>2, DrawnRests DEF DrawnInv, InHand
  <2> QED
    BY <2>1, <2>2
<1>4. CASE UNCHANGED vars
  BY <1>4, DrawnRests DEF vars, DrawnInv, InHand
<1> QED
  BY <1>1, <1>2, <1>3, <1>4 DEF Next

-----------------------------------------------------------------------------
LEMMA LiveInit == Init => LiveInv
<1> SUFFICES ASSUME Init PROVE LiveInv
  OBVIOUS
<1>1. /\ calls = << >> /\ events = << >> /\ wpc = "idle"
      /\ ~freeze /\ ~active /\ freeze \in BOOLEAN /\ active \in BOOLEAN
  BY DEF Init
<1>2. << >> \in Seq({"start", "stop", "ended"}) /\ << >> \in Seq(Posted) /\ Len(<< >>) = 0
  BY EmptySeq
<1>3. StopAwaited
  BY <1>1, <1>2 DEF StopAwaited
<1> QED
  BY <1>1, <1>2, <1>3 DEF LiveInv

\* A request other than a stop is posted to the worker.
LEMMA RequestPosted ==
  ASSUME StopAwaited, NEW r \in {"start", "ended"}, calls' = Append(calls, r),
         gui' = gui, wpc' = wpc
  PROVE  StopAwaited'
<1>1. /\ calls \in Seq({"start", "stop", "ended"}) /\ Len(calls) \in Nat
      /\ r \in {"start", "stop", "ended"}
  BY LenProperties DEF StopAwaited
<1>2. /\ calls' \in Seq({"start", "stop", "ended"}) /\ Len(calls') = Len(calls) + 1
      /\ calls'[Len(calls) + 1] = r
      /\ \A i \in 1 .. Len(calls) : calls'[i] = calls[i]
  BY <1>1, AppendProperties
<1>3. ASSUME NEW i \in 1 .. Len(calls'), calls'[i] = "stop"
      PROVE  i \in 1 .. Len(calls) /\ calls[i] = "stop"
  <2>1. CASE i = Len(calls) + 1
    BY <1>2, <1>3, <2>1
  <2>2. CASE i # Len(calls) + 1
    <3>1. i \in 1 .. Len(calls)
      BY <1>1, <1>2, <2>2
    <3> QED
      BY <1>2, <1>3, <3>1
  <2> QED
    BY <2>1, <2>2
<1>4. (\A i \in 1 .. Len(calls) : calls[i] = "stop" => gui = "stopping" /\ wpc = "idle")'
  BY <1>3 DEF StopAwaited
<1>5. (\A i, j \in 1 .. Len(calls) : calls[i] = "stop" /\ calls[j] = "stop" => i = j)'
  BY <1>3 DEF StopAwaited
<1> QED
  BY <1>2, <1>4, <1>5 DEF StopAwaited

\* The worker takes a request; when it is a stop there is none behind it.
LEMMA RequestTaken ==
  ASSUME StopAwaited, calls # << >>, calls' = Tail(calls), gui' = gui,
         \/ Head(calls) # "stop" /\ wpc' = wpc
         \/ Head(calls) = "stop" /\ wpc' = "join"
  PROVE  StopAwaited'
<1>1. /\ calls \in Seq({"start", "stop", "ended"})
      /\ \A i \in 1 .. Len(calls) : calls[i] = "stop" => gui = "stopping" /\ wpc = "idle"
      /\ \A i, j \in 1 .. Len(calls) : calls[i] = "stop" /\ calls[j] = "stop" => i = j
      /\ wpc = "join" => gui = "stopping"
  BY DEF StopAwaited
<1>2. /\ calls' \in Seq({"start", "stop", "ended"}) /\ Len(calls') = Len(calls) - 1
      /\ \A i \in 1 .. Len(calls') : calls'[i] = calls[i + 1]
      /\ Len(calls) \in Nat \ {0} /\ Head(calls) = calls[1]
  BY <1>1, HeadTailProperties, LenProperties, EmptySeq
<1>3. ASSUME NEW i \in 1 .. Len(calls') PROVE i + 1 \in 1 .. Len(calls) /\ calls'[i] = calls[i + 1]
  BY <1>2
<1>4. (\A i, j \in 1 .. Len(calls) : calls[i] = "stop" /\ calls[j] = "stop" => i = j)'
  <2> SUFFICES ASSUME NEW i \in 1 .. Len(calls'), NEW j \in 1 .. Len(calls'),
                      calls'[i] = "stop", calls'[j] = "stop"
               PROVE  i = j
    OBVIOUS
  <2>1. i + 1 \in 1 .. Len(calls) /\ calls[i + 1] = "stop"
    BY <1>3
  <2>2. j + 1 \in 1 .. Len(calls) /\ calls[j + 1] = "stop"
    BY <1>3
  <2>3. i + 1 = j + 1
    BY <1>1, <2>1, <2>2
  <2> QED
    BY <1>2, <2>3
<1>5. CASE Head(calls) # "stop" /\ wpc' = wpc
  <2>1. (\A i \in 1 .. Len(calls) : calls[i] = "stop" => gui = "stopping" /\ wpc = "idle")'
    BY <1>1, <1>3, <1>5
  <2> QED
    BY <1>1, <1>2, <1>4, <1>5, <2>1 DEF StopAwaited
<1>6. CASE Head(calls) = "stop" /\ wpc' = "join"
  <2>1. 1 \in 1 .. Len(calls) /\ calls[1] = "stop"
    BY <1>2, <1>6
  <2>2. gui = "stopping"
    BY <1>1, <2>1
  <2>3. ASSUME NEW i \in 1 .. Len(calls') PROVE calls'[i] # "stop"
    <3>1. i + 1 \in 1 .. Len(calls) /\ calls'[i] = calls[i + 1] /\ i + 1 # 1
      BY <1>2, <1>3
    <3> QED
      BY <1>1, <2>1, <3>1
  <2> QED
    BY <1>2, <1>4, <1>6, <2>2, <2>3 DEF StopAwaited
<1> QED
  BY <1>5, <1>6

\* A status stays on its way when something is posted behind it.
LEMMA StatusStays ==
  ASSUME NEW w \in Seq(Posted), NEW e \in Posted
  PROVE  /\ Append(w, e) \in Seq(Posted)
         /\ Coming(w) \/ (e.kind = "status" /\ e.on) => Coming(Append(w, e))
<1> DEFINE v == Append(w, e)
<1>1. /\ v \in Seq(Posted) /\ Len(v) = Len(w) + 1 /\ v[Len(w) + 1] = e
      /\ \A i \in 1 .. Len(w) : v[i] = w[i]
      /\ Len(w) \in Nat
  BY AppendProperties, LenProperties
<1> HIDE DEF v
<1>2. ASSUME NEW i \in 1 .. Len(w), w[i].kind = "status", w[i].on
      PROVE  \E j \in 1 .. Len(v) : v[j].kind = "status" /\ v[j].on
  <2>1. i \in 1 .. Len(v) /\ v[i] = w[i]
    BY <1>1
  <2> QED
    BY <1>2, <2>1
<1>3. ASSUME e.kind = "status", e.on
      PROVE  \E j \in 1 .. Len(v) : v[j].kind = "status" /\ v[j].on
  <2>1. Len(w) + 1 \in 1 .. Len(v)
    BY <1>1
  <2> QED
    BY <1>1, <1>3, <2>1
<1>4. Coming(w) \/ (e.kind = "status" /\ e.on) => Coming(v)
  BY <1>2, <1>3 DEF Coming
<1> QED
  BY <1>1, <1>4 DEF v

\* When the GUI thread takes an event, a status that is still to come is behind
\* it or is this one.
LEMMA StatusTaken ==
  ASSUME NEW w \in Seq(Posted), w # << >>
  PROVE  /\ Tail(w) \in Seq(Posted) /\ Head(w) \in Posted
         /\ Coming(w) => \/ Coming(Tail(w))
                         \/ Head(w).kind = "status" /\ Head(w).on
<1> DEFINE v == Tail(w)
<1>1. /\ v \in Seq(Posted) /\ Len(v) = Len(w) - 1 /\ Head(w) = w[1]
      /\ \A i \in 1 .. Len(v) : v[i] = w[i + 1]
      /\ Len(w) \in Nat \ {0}
  BY HeadTailProperties, LenProperties, EmptySeq
<1>2. Head(w) \in Posted
  BY <1>1, ElementOfSeq
<1> HIDE DEF v
<1>3. ASSUME NEW i \in 1 .. Len(w), w[i].kind = "status", w[i].on, i # 1
      PROVE  Coming(v)
  <2>1. i - 1 \in 1 .. Len(v) /\ v[i - 1] = w[i]
    BY <1>1, <1>3
  <2> QED
    BY <1>3, <2>1 DEF Coming
<1>4. Coming(w) => Coming(v) \/ (w[1].kind = "status" /\ w[1].on)
  BY <1>3 DEF Coming
<1> QED
  BY <1>1, <1>2, <1>4 DEF v

\* The requests stay as they are, and so does where the worker is and whether
\* the GUI thread waits for it.
LEMMA RequestsRest ==
  ASSUME StopAwaited, UNCHANGED <<calls, wpc>>,
         (gui' = "stopping") <=> (gui = "stopping")
  PROVE  StopAwaited'
BY DEF StopAwaited

\* The detection pthread accepts callbacks while it loops.
LEMMA DetectionLive == ASSUME LiveInv, DrawnTypes, Detection PROVE LiveInv'
<1> USE DEF ringVars, fileVars, detVars, gateVars, batchVars, guiVars
<1>1. UNCHANGED <<gui, wpc, freeze>> /\ (active' = active \/ active' = FALSE)
  BY DEF Detection, Open, Retune, Block, Gate, Gather, Flush, Emit, Leave, Refuse,
         Inactive, PostEnded
<1>2. \/ accept' = accept /\ dpc \in Looping
      \/ dpc' \notin Looping
  BY DEF Detection, Open, Retune, Block, Gate, Gather, Flush, Emit, Leave, Refuse,
         Inactive, PostEnded, Looping
<1>3. StopAwaited'
  <2>1. CASE PostEnded
    BY <1>1, <2>1, RequestPosted DEF LiveInv, PostEnded
  <2>2. CASE ~PostEnded
    <3>1. calls' = calls
      BY <2>2 DEF Detection, Open, Retune, Block, Gate, Gather, Flush, Emit, Leave,
         Refuse, Inactive
    <3> QED
      BY <1>1, <3>1, RequestsRest DEF LiveInv
  <2> QED
    BY <2>1, <2>2
<1>4. events' \in Seq(Posted) /\ (Coming(events) => Coming(events'))
  <2>1. CASE Emit
    <3>1. events' = Append(events, [kind |-> "columns", cols |-> column])
      BY <2>1 DEF Emit
    <3>2. [kind |-> "columns", cols |-> column] \in Posted
      BY DEF Posted, DrawnTypes
    <3>3. events \in Seq(Posted)
      BY DEF LiveInv
    <3> QED
      BY <3>1, <3>2, <3>3, StatusStays
  <2>2. CASE ~Emit
    <3>1. events' = events
      BY <2>2 DEF Detection, Open, Retune, Block, Gate, Gather, Flush, Leave,
         Refuse, Inactive, PostEnded
    <3> QED
      BY <3>1 DEF LiveInv
  <2> QED
    BY <2>1, <2>2
<1>5. active' \in BOOLEAN /\ (active' => active) /\ freeze' \in BOOLEAN
  <2>1. freeze' \in BOOLEAN /\ active \in BOOLEAN
    BY <1>1 DEF LiveInv
  <2>2. CASE active' = active
    BY <2>1, <2>2
  <2>3. CASE active' = FALSE
    BY <2>1, <2>3
  <2> QED
    BY <1>1, <2>2, <2>3
<1>6. gui' = "free" /\ active' /\ dpc' \in Looping => accept'
  BY <1>1, <1>2, <1>5 DEF LiveInv
<1>7. gui' = "free" /\ active' /\ freeze' => Coming(events')
  BY <1>1, <1>4, <1>5 DEF LiveInv
<1> QED
  BY <1>3, <1>4, <1>5, <1>6, <1>7 DEF LiveInv

\* A start lets callbacks in and its status is posted; a stop returns to a GUI
\* thread that finds no session.
LEMMA WorkerLive == ASSUME LiveInv, Worker PROVE LiveInv'
<1> USE DEF ringVars, fileVars, detVars, gateVars, batchVars, guiVars, ClearBatch
<1>0. /\ events \in Seq(Posted) /\ active \in BOOLEAN /\ freeze \in BOOLEAN
      /\ Status(TRUE) \in Posted /\ Status(FALSE) \in Posted
      /\ Status(TRUE).kind = "status" /\ Status(TRUE).on
  BY DEF LiveInv, Status, Posted
<1>1. CASE WorkerStart
  <2>1. StopAwaited'
    BY <1>1, RequestTaken DEF LiveInv, WorkerStart
  <2>2. UNCHANGED <<gui, freeze>>
    BY <1>1 DEF WorkerStart
  <2>3. CASE active
    <3>1. UNCHANGED <<active, accept, dpc, events>>
      BY <1>1, <2>3 DEF WorkerStart
    <3> QED
      BY <2>1, <2>2, <3>1 DEF LiveInv
  <2>4. CASE ~active
    <3>1. accept' = TRUE /\ active' = TRUE /\ events' = Append(events, Status(TRUE))
      BY <1>1, <2>4 DEF WorkerStart
    <3>2. events' \in Seq(Posted) /\ Coming(events')
      BY <1>0, <3>1, StatusStays
    <3> QED
      BY <1>0, <2>1, <2>2, <3>1, <3>2 DEF LiveInv
  <2> QED
    BY <2>3, <2>4
<1>2. CASE WorkerStop
  <2>1. StopAwaited'
    BY <1>2, RequestTaken DEF LiveInv, WorkerStop
  <2>2. UNCHANGED <<gui, freeze, active, dpc, events>>
    BY <1>2 DEF WorkerStop
  <2>3. gui = "stopping"
    <3>1. calls \in Seq({"start", "stop", "ended"}) /\ calls # << >> /\ Head(calls) = "stop"
      BY <1>2 DEF WorkerStop, LiveInv, StopAwaited
    <3>2. 1 \in 1 .. Len(calls) /\ calls[1] = "stop"
      BY <3>1, HeadTailProperties, LenProperties, EmptySeq
    <3> QED
      BY <3>2 DEF LiveInv, StopAwaited
  <2> QED
    BY <1>0, <2>1, <2>2, <2>3 DEF LiveInv
<1>3. CASE WorkerJoin
  <2>1. /\ wpc = "join" /\ gui = "stopping" /\ gui' = "free" /\ wpc' = "idle"
        /\ calls' = calls /\ freeze' = freeze /\ active' = FALSE
        /\ events' = Append(events, Status(FALSE))
    BY <1>3 DEF WorkerJoin, LiveInv, StopAwaited
  <2>2. \A i \in 1 .. Len(calls) : calls[i] # "stop"
    BY <2>1 DEF LiveInv, StopAwaited
  <2>3. StopAwaited'
    BY <2>1, <2>2 DEF LiveInv, StopAwaited
  <2>4. events' \in Seq(Posted)
    BY <1>0, <2>1, StatusStays
  <2> QED
    BY <1>0, <2>1, <2>3, <2>4 DEF LiveInv
<1>4. CASE WorkerEnded
  <2>1. StopAwaited'
    BY <1>4, RequestTaken DEF LiveInv, WorkerEnded
  <2>2. /\ UNCHANGED <<gui, freeze, active, accept, dpc>>
        /\ events' = Append(events, Status(FALSE))
    BY <1>4 DEF WorkerEnded
  <2>3. events' \in Seq(Posted) /\ (Coming(events) => Coming(events'))
    BY <1>0, <2>2, StatusStays
  <2> QED
    BY <1>0, <2>1, <2>2, <2>3 DEF LiveInv
<1> QED
  BY <1>1, <1>2, <1>3, <1>4 DEF Worker

\* The GUI thread takes an event: if it is the start of a session the waterfall
\* is released.
LEMMA HandleLive == ASSUME LiveInv, Handle PROVE LiveInv'
<1> DEFINE e == Head(events)
           w == Tail(events)
<1> USE DEF ringVars, fileVars, detVars, gateVars, batchVars, guiVars, GuiRest
<1>1. /\ UNCHANGED <<gui, active, accept, dpc, calls, wpc>>
      /\ events # << >> /\ events' = w
      /\ \/ e.kind = "columns" /\ freeze' = freeze
         \/ e.kind = "status" /\ freeze' = (freeze /\ ~e.on)
  BY DEF Handle
<1>2. StopAwaited'
  BY <1>1, RequestsRest DEF LiveInv
<1>3. /\ w \in Seq(Posted)
      /\ Coming(events) => Coming(w) \/ (e.kind = "status" /\ e.on)
  BY <1>1, StatusTaken DEF LiveInv
<1> HIDE DEF e, w
<1>4. freeze' \in BOOLEAN
  BY <1>1 DEF LiveInv
<1>5. freeze' => freeze /\ ~(e.kind = "status" /\ e.on)
  BY <1>1
<1>6. gui' = "free" /\ active' /\ freeze' => Coming(events')
  BY <1>1, <1>3, <1>5 DEF LiveInv
<1> QED
  BY <1>1, <1>2, <1>3, <1>4, <1>6 DEF LiveInv

\* Of the other steps of the GUI thread those that free it have released the
\* waterfall, or there is no session.
LEMMA WindowLive == ASSUME LiveInv, Window, ~Handle PROVE LiveInv'
<1> USE DEF ringVars, fileVars, detVars, gateVars, batchVars, guiVars, Gui, GuiRest,
            ClearBatch
<1>1. /\ UNCHANGED <<active, events, dpc, wpc>> /\ freeze' \in BOOLEAN
  BY DEF Window, ClickStart, ClickStop, Stop, ClickCapture, Pause, FreezeCapture,
         Cancel, Save, Acknowledge, Finish, Resume, Resumed, LiveInv
<1>2. CASE ClickStart
  <2>1. StopAwaited'
    BY <1>2, RequestPosted DEF LiveInv, ClickStart
  <2> QED
    BY <1>1, <1>2, <2>1 DEF LiveInv, ClickStart
<1>3. CASE Stop
  <2>1. gui = "draining" /\ gui' = "stopping" /\ calls' = Append(calls, "stop")
    BY <1>3 DEF Stop
  <2>2. /\ calls \in Seq({"start", "stop", "ended"}) /\ Len(calls) \in Nat
        /\ \A i \in 1 .. Len(calls) : calls[i] # "stop"
        /\ wpc # "join"
    BY <2>1, LenProperties DEF LiveInv, StopAwaited
  <2>3. /\ calls' \in Seq({"start", "stop", "ended"}) /\ Len(calls') = Len(calls) + 1
        /\ \A i \in 1 .. Len(calls) : calls'[i] = calls[i]
    BY <2>1, <2>2, AppendProperties
  <2>4. \A i \in 1 .. Len(calls') : calls'[i] = "stop" => i = Len(calls) + 1
    BY <2>2, <2>3
  <2>5. wpc \in {"idle", "join"}
    BY DEF LiveInv, StopAwaited
  <2>6. StopAwaited'
    BY <1>1, <2>1, <2>2, <2>3, <2>4, <2>5 DEF StopAwaited
  <2> QED
    BY <1>1, <2>1, <2>6 DEF LiveInv
<1>4. CASE ~ClickStart /\ ~Stop
  <2>1. /\ calls' = calls /\ gui # "stopping" /\ gui' # "stopping"
    BY <1>4 DEF Window, ClickStart, ClickStop, Stop, ClickCapture, Pause, FreezeCapture,
         Cancel, Save, Acknowledge, Finish, Resume, Resumed, DetectionActive
  <2>2. StopAwaited'
    BY <1>1, <2>1, RequestsRest DEF LiveInv
  <2>3. gui' = "free" => ~active \/ (accept' /\ ~freeze')
    BY <1>4 DEF Window, ClickStart, ClickStop, Stop, ClickCapture, Pause, FreezeCapture,
         Cancel, Save, Acknowledge, Finish, Resume, Resumed, DetectionActive
  <2> QED
    BY <1>1, <2>2, <2>3 DEF LiveInv
<1> QED
  BY <1>2, <1>3, <1>4

LEMMA LiveStep == ASSUME LiveInv, DrawnTypes, [Next]_vars PROVE LiveInv'
<1>1. CASE UNCHANGED vars
  BY <1>1 DEF LiveInv, StopAwaited, vars, ringVars, fileVars, detVars, gateVars, batchVars,
     guiVars
<1> QED
  BY <1>1, DetectionLive, WorkerLive, HandleLive, WindowLive DEF Next

\* The waterfall is not left frozen, whichever way a capture or a stop ended,
\* and it draws every column once and after all that were received before it.
THEOREM DisplayIsRight == Spec => []DisplayRight
<1>1. Init => DrawnInv /\ LiveInv
  BY DrawnInit, LiveInit
<1>2. DrawnInv /\ LiveInv /\ [Next]_vars => DrawnInv' /\ LiveInv'
  BY DrawnStep, LiveStep DEF DrawnInv
<1>3. DrawnInv /\ LiveInv => DisplayRight
  <2> SUFFICES ASSUME DrawnInv, LiveInv PROVE DisplayRight
    OBVIOUS
  <2>1. DrawnInOrder
    <3>1. shown \in Seq(Nat) /\ Rising(shown)
      BY DEF DrawnInv, DrawnTypes, DrawnOrder
    <3>2. Len(shown) \in Nat
      BY <3>1, LenProperties
    <3> QED
      BY <3>1, <3>2 DEF Rising, DrawnInOrder
  <2>2. DisplayLive
    <3> SUFFICES ASSUME gui = "free", active, dpc \in Looping,
                        \A i \in 1 .. Len(events) : events[i].kind = "columns"
                 PROVE  accept /\ ~freeze
      BY DEF DisplayLive, Looping
    <3>1. ~Coming(events)
      BY DEF Coming
    <3> QED
      BY <3>1 DEF LiveInv
  <2> QED
    BY <2>1, <2>2 DEF DisplayRight
<1> QED
  BY <1>1, <1>2, <1>3, PTL DEF Spec

-----------------------------------------------------------------------------
(* The path of the samples.                                                *)
Safe ==
    /\ Path!TypeOK /\ Path!FrameFits
    /\ loop.at # "idle" => loop.frames < AP_MAX_PENDING_SPEC
    /\ loop.at \in {"tail", "count"} => proc.cnt < AP_MAX_PENDING_SPEC
    /\ loop.at \in {"head", "taken"} => proc.cnt >= 0
    /\ loop.at = "wide" => loop.wide /\ loop.n \in {AP_WIDE_FFT_N, AP_NARROW_FFT_N}
    /\ setter.at = "sizes" => setter.span \in {Narrow, SampleRate}

(* What the assumption says of the constants.                              *)
LEMMA Sizes ==
    /\ {SampleRate, Narrow, Chunk, AP_WIDE_FFT_N, AP_NARROW_FFT_N,
        AP_NARROW_RING, AP_MAX_PENDING_SPEC} \subseteq Nat \ {0}
    /\ Narrow < SampleRate
    /\ AP_NARROW_FFT_N < AP_WIDE_FFT_N /\ AP_WIDE_FFT_N = Chunk
    /\ AP_NARROW_FFT_N >= 2
    /\ MaxPathBlocks \in Nat /\ MaxChanges \in Nat
<1>1. {SampleRate, Narrow, Chunk, AP_WIDE_FFT_N, AP_NARROW_FFT_N,
        AP_NARROW_RING, AP_MAX_PENDING_SPEC} \subseteq Nat \ {0}
  BY BlocksAssumption DEF Path!PathAssumption
<1>2. AP_NARROW_FFT_N % 2 = 0
  BY BlocksAssumption DEF Path!PathAssumption
<1>3. AP_NARROW_FFT_N >= 2
  BY <1>1, <1>2
<1> QED
  BY <1>1, <1>3, BlocksAssumption DEF Path!PathAssumption

LEMMA SlotTypes ==
    /\ 0 \in Path!Slots
    /\ \A i \in Path!Slots : Path!After(i) \in Path!Slots
    /\ \A i \in Path!Slots :
          Path!After(i) = IF i + 1 = AP_MAX_PENDING_SPEC THEN 0 ELSE i + 1
<1>1. AP_MAX_PENDING_SPEC \in Nat \ {0}
  BY Sizes
<1> QED
  BY <1>1 DEF Path!Slots, Path!After

(* A field of the processor set anew.                                      *)
LEMMA PutProc ==
    ASSUME NEW p \in Path!Processor
    PROVE  /\ \A v \in {Narrow, SampleRate} : [p EXCEPT !.span = v] \in Path!Processor
           /\ \A v \in {Narrow, SampleRate}, w \in {AP_WIDE_FFT_N, AP_NARROW_FFT_N} :
                 [p EXCEPT !.fs = v, !.fft = w] \in Path!Processor
           /\ \A v \in 0 .. AP_NARROW_RING : [p EXCEPT !.fill = v] \in Path!Processor
           /\ \A v \in 1 .. AP_WIDE_FFT_N : [p EXCEPT !.bins = v] \in Path!Processor
           /\ \A v \in Path!Spectrum : [p EXCEPT !.power = v] \in Path!Processor
           /\ \A v \in BOOLEAN : [p EXCEPT !.real = v] \in Path!Processor
           /\ \A h \in Path!Slots, u \in Path!Slots, c \in -1 .. AP_MAX_PENDING_SPEC :
                 [p EXCEPT !.head = h, !.tail = u, !.cnt = c] \in Path!Processor
           /\ \A s \in [Path!Slots -> Path!Spectrum] :
                 [p EXCEPT !.pend = s] \in Path!Processor
<1> DEFINE S == Path!Spectrum
           I == Path!Slots
           Q == [I -> S]
           R == {Narrow, SampleRate}
           F == {AP_WIDE_FFT_N, AP_NARROW_FFT_N}
           A == 0 .. AP_NARROW_RING
           B == 1 .. AP_WIDE_FFT_N
           C == -1 .. AP_MAX_PENDING_SPEC
           L == BOOLEAN
<1>1. Path!Processor = [span : R, fft : F, fs : R, real : L, bins : B, fill : A,
                        pend : Q, head : I, tail : I, cnt : C, power : S]
  BY DEF Path!Processor
<1> HIDE DEF S, I, Q, R, F, A, B, C, L
<1>2. /\ \A v \in R : [p EXCEPT !.span = v] \in Path!Processor
      /\ \A v \in R, w \in F : [p EXCEPT !.fs = v, !.fft = w] \in Path!Processor
  BY <1>1
<1>3. /\ \A v \in A : [p EXCEPT !.fill = v] \in Path!Processor
      /\ \A v \in B : [p EXCEPT !.bins = v] \in Path!Processor
      /\ \A v \in S : [p EXCEPT !.power = v] \in Path!Processor
      /\ \A v \in L : [p EXCEPT !.real = v] \in Path!Processor
  BY <1>1
<1>4. \A h \in I, u \in I, c \in C :
          [p EXCEPT !.head = h, !.tail = u, !.cnt = c] \in Path!Processor
  BY <1>1
<1>5. \A s \in Q : [p EXCEPT !.pend = s] \in Path!Processor
  BY <1>1
<1> QED
  BY <1>2, <1>3, <1>4, <1>5 DEF S, I, Q, R, F, A, B, C, L

LEMMA ProcFields ==
    ASSUME NEW p \in Path!Processor
    PROVE  /\ p.span \in {Narrow, SampleRate} /\ p.fs \in {Narrow, SampleRate}
           /\ p.fft \in {AP_WIDE_FFT_N, AP_NARROW_FFT_N}
           /\ p.real \in BOOLEAN /\ p.bins \in 1 .. AP_WIDE_FFT_N
           /\ p.fill \in 0 .. AP_NARROW_RING /\ p.pend \in [Path!Slots -> Path!Spectrum]
           /\ p.head \in Path!Slots /\ p.tail \in Path!Slots
           /\ p.cnt \in -1 .. AP_MAX_PENDING_SPEC /\ p.power \in Path!Spectrum
<1> DEFINE S == Path!Spectrum
           I == Path!Slots
           Q == [I -> S]
           R == {Narrow, SampleRate}
           F == {AP_WIDE_FFT_N, AP_NARROW_FFT_N}
           A == 0 .. AP_NARROW_RING
           B == 1 .. AP_WIDE_FFT_N
           C == -1 .. AP_MAX_PENDING_SPEC
           L == BOOLEAN
<1>1. Path!Processor = [span : R, fft : F, fs : R, real : L, bins : B, fill : A,
                        pend : Q, head : I, tail : I, cnt : C, power : S]
  BY DEF Path!Processor
<1> HIDE DEF S, I, Q, R, F, A, B, C, L
<1>2. /\ p.span \in R /\ p.fs \in R /\ p.fft \in F /\ p.real \in L /\ p.bins \in B
      /\ p.fill \in A /\ p.pend \in Q /\ p.head \in I /\ p.tail \in I
      /\ p.cnt \in C /\ p.power \in S
  BY <1>1
<1> QED
  BY <1>2 DEF S, I, Q, R, F, A, B, C, L

(* The same of the loop.                                                   *)
Ats == {"idle", "process", "wide", "narrow", "fft", "push", "tail", "count",
        "pop", "head", "taken", "show", "showFresh"}

LEMMA LoopFields ==
    ASSUME NEW l \in Path!Turn
    PROVE  /\ l.at \in Ats /\ l.left \in 0 .. Chunk /\ l.wide \in BOOLEAN
           /\ l.n \in 0 .. AP_WIDE_FFT_N /\ l.spec \in Path!Spectrum
           /\ l.frames \in 0 .. AP_MAX_PENDING_SPEC /\ l.first \in Nat
<1> DEFINE S == Path!Spectrum
           L == BOOLEAN
           A == 0 .. Chunk
           B == 0 .. AP_WIDE_FFT_N
           C == 0 .. AP_MAX_PENDING_SPEC
<1>1. Path!Turn = [at : Ats, left : A, wide : L, n : B, spec : S, frames : C, first : Nat]
  BY DEF Path!Turn, Ats
<1> HIDE DEF S, L, A, B, C, Ats
<1>2. /\ l.at \in Ats /\ l.left \in A /\ l.wide \in L /\ l.n \in B /\ l.spec \in S
      /\ l.frames \in C /\ l.first \in Nat
  BY <1>1
<1> QED
  BY <1>2 DEF S, L, A, B, C

LEMMA PutLoop ==
    ASSUME NEW l \in Path!Turn, NEW a \in Ats
    PROVE  /\ [l EXCEPT !.at = a] \in Path!Turn
           /\ \A v \in 0 .. Chunk, f \in Nat :
                 [l EXCEPT !.at = a, !.left = v, !.frames = 0, !.first = f] \in Path!Turn
           /\ [l EXCEPT !.at = a, !.wide = FALSE] \in Path!Turn
           /\ \A n \in 0 .. AP_WIDE_FFT_N :
                 [l EXCEPT !.at = a, !.wide = TRUE, !.n = n] \in Path!Turn
           /\ \A s \in Path!Spectrum : [l EXCEPT !.at = a, !.spec = s] \in Path!Turn
           /\ \A s \in Path!Spectrum, n \in 0 .. AP_WIDE_FFT_N :
                 [l EXCEPT !.at = a, !.spec = s, !.n = n] \in Path!Turn
           /\ \A v \in 0 .. Chunk : [l EXCEPT !.left = v, !.at = a] \in Path!Turn
           /\ \A v \in 0 .. AP_MAX_PENDING_SPEC :
                 [l EXCEPT !.frames = v, !.at = a] \in Path!Turn
<1> DEFINE S == Path!Spectrum
           L == BOOLEAN
           A == 0 .. Chunk
           B == 0 .. AP_WIDE_FFT_N
           C == 0 .. AP_MAX_PENDING_SPEC
<1>1. Path!Turn = [at : Ats, left : A, wide : L, n : B, spec : S, frames : C, first : Nat]
  BY DEF Path!Turn, Ats
<1>2. 0 \in C /\ TRUE \in L /\ FALSE \in L
  BY Sizes
<1> HIDE DEF S, L, A, B, C, Ats
<1>3. /\ [l EXCEPT !.at = a] \in Path!Turn
      /\ \A v \in A, f \in Nat :
            [l EXCEPT !.at = a, !.left = v, !.frames = 0, !.first = f] \in Path!Turn
  BY <1>1, <1>2
<1>4. /\ [l EXCEPT !.at = a, !.wide = FALSE] \in Path!Turn
      /\ \A n \in B : [l EXCEPT !.at = a, !.wide = TRUE, !.n = n] \in Path!Turn
  BY <1>1, <1>2
<1>5. /\ \A s \in S : [l EXCEPT !.at = a, !.spec = s] \in Path!Turn
      /\ \A s \in S, n \in B : [l EXCEPT !.at = a, !.spec = s, !.n = n] \in Path!Turn
  BY <1>1
<1>6. /\ \A v \in A : [l EXCEPT !.left = v, !.at = a] \in Path!Turn
      /\ \A v \in C : [l EXCEPT !.frames = v, !.at = a] \in Path!Turn
  BY <1>1
<1> QED
  BY <1>3, <1>4, <1>5, <1>6 DEF S, L, A, B, C

(* A spectrum made or shown is one.                                        *)
LEMMA SpecTypes ==
    ASSUME Path!TypeOK, NEW n \in {AP_WIDE_FFT_N, AP_NARROW_FFT_N}
    PROVE  /\ [no |-> made + 1, bins |-> Path!Bins(n), fs |-> proc.fs,
               real |-> proc.real] \in Path!Spectrum
           /\ Path!Bins(n) \in 1 .. AP_WIDE_FFT_N
<1>1. n \in 2 .. AP_WIDE_FFT_N /\ AP_WIDE_FFT_N \in Nat
  BY Sizes
<1>2. Path!Bins(n) \in {n, n \div 2}
  BY DEF Path!Bins
<1>3. n \div 2 \in 1 .. AP_WIDE_FFT_N
  BY <1>1
<1>4. Path!Bins(n) \in 1 .. AP_WIDE_FFT_N
  BY <1>1, <1>2, <1>3
<1>5. /\ proc.fs \in {Narrow, SampleRate} /\ proc.real \in BOOLEAN /\ made \in Nat
  BY ProcFields DEF Path!TypeOK
<1>6. made + 1 \in Nat /\ Path!Bins(n) \in 0 .. AP_WIDE_FFT_N
  BY <1>4, <1>5
<1> QED
  BY <1>4, <1>5, <1>6 DEF Path!Spectrum

LEMMA LatestType == Path!TypeOK => Path!Latest \in Path!Spectrum
<1> SUFFICES ASSUME Path!TypeOK PROVE Path!Latest \in Path!Spectrum
  OBVIOUS
<1>1. proc.power \in Path!Spectrum /\ proc.bins \in 1 .. AP_WIDE_FFT_N
  BY ProcFields DEF Path!TypeOK
<1>2. AP_WIDE_FFT_N \in Nat
  BY Sizes
<1>3. proc.bins \in 0 .. AP_WIDE_FFT_N
  BY <1>1, <1>2
<1> QED
  BY <1>1, <1>3 DEF Path!Latest, Path!Spectrum

LEMMA AxisType ==
    ASSUME Path!TypeOK, NEW s \in Path!Spectrum PROVE Path!Axis(s.bins) \in Nat
<1>1. proc.fs \in Nat /\ proc.fft \in Nat \ {0} /\ AP_WIDE_FFT_N \in Nat
  BY ProcFields, Sizes DEF Path!TypeOK
<1>2. s.bins \in Nat
  <2>1. s.bins \in 0 .. AP_WIDE_FFT_N
    BY DEF Path!Spectrum
  <2> QED
    BY <2>1, <1>1
<1> DEFINE x == proc.fs * AP_WIDE_FFT_N
           y == x \div proc.fft
<1>3. x \in Nat
  BY <1>1
<1> HIDE DEF x
<1>4. y \in Nat
  BY <1>1, <1>3
<1> HIDE DEF y
<1>5. s.bins * y \in Nat
  BY <1>2, <1>4
<1> QED
  BY <1>5 DEF Path!Axis, x, y

(* The queue emptied: the indices and the count, nothing else.             *)
LEMMA Emptied ==
    ASSUME NEW p \in Path!Processor
    PROVE  /\ Path!ClearQueue(p) \in Path!Processor
           /\ Path!ClearQueue(p).cnt = 0 /\ Path!ClearQueue(p).head = 0
           /\ Path!ClearQueue(p).tail = 0
<1>1. 0 \in -1 .. AP_MAX_PENDING_SPEC
  BY Sizes
<1>2. Path!ClearQueue(p) \in Path!Processor
  BY <1>1, SlotTypes, PutProc DEF Path!ClearQueue
<1> QED
  BY <1>2 DEF Path!ClearQueue, Path!Processor

LEMMA DecimSize == Path!Decim \in Nat \ {0}
<1>1. SampleRate \in Nat \ {0} /\ Narrow \in Nat \ {0} /\ Narrow < SampleRate
  BY Sizes
<1> QED
  BY <1>1 DEF Path!Decim

LEMMA BlankType == Path!NoSpectrum \in Path!Spectrum
<1>1. 0 \in 0 .. AP_WIDE_FFT_N
  BY Sizes
<1> QED
  BY <1>1 DEF Path!NoSpectrum, Path!Spectrum

(* One end of the queue or its count moved.                                *)
LEMMA TailType ==
    ASSUME NEW p \in Path!Processor
    PROVE  /\ [p EXCEPT !.tail = Path!After(@)] \in Path!Processor
           /\ [p EXCEPT !.tail = Path!After(@)].cnt = p.cnt
<1>1. Path!After(p.tail) \in Path!Slots
  BY ProcFields, SlotTypes
<1>2. [p EXCEPT !.head = p.head, !.tail = Path!After(p.tail), !.cnt = p.cnt]
         \in Path!Processor
  BY <1>1, ProcFields, PutProc
<1> QED
  BY <1>2 DEF Path!Processor

LEMMA HeadType ==
    ASSUME NEW p \in Path!Processor
    PROVE  /\ [p EXCEPT !.head = Path!After(@)] \in Path!Processor
           /\ [p EXCEPT !.head = Path!After(@)].cnt = p.cnt
<1>1. Path!After(p.head) \in Path!Slots
  BY ProcFields, SlotTypes
<1>2. [p EXCEPT !.head = Path!After(p.head), !.tail = p.tail, !.cnt = p.cnt]
         \in Path!Processor
  BY <1>1, ProcFields, PutProc
<1> QED
  BY <1>2 DEF Path!Processor

LEMMA LessType ==
    ASSUME NEW p \in Path!Processor, p.cnt - 1 \in -1 .. AP_MAX_PENDING_SPEC
    PROVE  [p EXCEPT !.cnt = @ - 1] \in Path!Processor
<1>1. [p EXCEPT !.head = p.head, !.tail = p.tail, !.cnt = p.cnt - 1] \in Path!Processor
  BY ProcFields, PutProc
<1> QED
  BY <1>1 DEF Path!Processor

LEMMA CountType ==
    ASSUME NEW p \in Path!Processor, NEW s \in Path!Spectrum,
           p.cnt + 1 \in -1 .. AP_MAX_PENDING_SPEC
    PROVE  [p EXCEPT !.cnt = @ + 1, !.power = s] \in Path!Processor
<1> DEFINE q == [p EXCEPT !.head = p.head, !.tail = p.tail, !.cnt = p.cnt + 1]
<1>1. q \in Path!Processor
  BY ProcFields, PutProc
<1>2. [q EXCEPT !.power = s] \in Path!Processor
  <2> HIDE DEF q
  <2> QED
    BY <1>1, PutProc
<1> QED
  BY <1>2 DEF Path!Processor

LEMMA Dropped ==
    ASSUME NEW p \in Path!Processor
    PROVE  /\ Path!DropOldest(p) \in Path!Processor
           /\ Path!DropOldest(p).cnt < AP_MAX_PENDING_SPEC
<1>1. p.cnt \in -1 .. AP_MAX_PENDING_SPEC /\ AP_MAX_PENDING_SPEC \in Nat \ {0}
  BY ProcFields, Sizes
<1>2. CASE p.cnt >= AP_MAX_PENDING_SPEC
  <2>1. Path!After(p.head) \in Path!Slots /\ p.cnt - 1 \in -1 .. AP_MAX_PENDING_SPEC
    BY <1>1, <1>2, ProcFields, SlotTypes
  <2>2. [p EXCEPT !.head = Path!After(p.head), !.tail = p.tail, !.cnt = p.cnt - 1]
           \in Path!Processor
    BY <2>1, ProcFields, PutProc
  <2>3. Path!DropOldest(p) = [p EXCEPT !.head = Path!After(p.head), !.tail = p.tail,
                                      !.cnt = p.cnt - 1]
    BY <1>2 DEF Path!DropOldest, Path!Processor
  <2>4. Path!DropOldest(p).cnt = p.cnt - 1
    BY <2>3 DEF Path!Processor
  <2> QED
    BY <1>1, <2>2, <2>3, <2>4
<1>3. CASE ~(p.cnt >= AP_MAX_PENDING_SPEC)
  BY <1>1, <1>3 DEF Path!DropOldest
<1> QED
  BY <1>2, <1>3

LEMMA InitSafe == Path!Init => Safe
<1> SUFFICES ASSUME Path!Init PROVE Safe
  OBVIOUS
<1>1. PICK span \in {Narrow, SampleRate} :
          proc = [span |-> span,
                  fft  |-> IF span = SampleRate THEN AP_WIDE_FFT_N ELSE AP_NARROW_FFT_N,
                  fs   |-> span, real |-> FALSE, bins |-> AP_WIDE_FFT_N,
                  fill |-> 0, pend |-> [s \in Path!Slots |-> Path!NoSpectrum],
                  head |-> 0, tail |-> 0, cnt |-> 0, power |-> Path!NoSpectrum]
  BY DEF Path!Init
<1>2. Path!NoSpectrum \in Path!Spectrum
  BY BlankType
<1>3. /\ 0 \in Path!Slots /\ 0 \in 0 .. AP_NARROW_RING /\ 0 \in -1 .. AP_MAX_PENDING_SPEC
      /\ AP_WIDE_FFT_N \in 1 .. AP_WIDE_FFT_N
  BY Sizes, SlotTypes
<1>4. proc \in Path!Processor
  <2> DEFINE F == IF span = SampleRate THEN AP_WIDE_FFT_N ELSE AP_NARROW_FFT_N
             P == [s \in Path!Slots |-> Path!NoSpectrum]
  <2>1. F \in {AP_WIDE_FFT_N, AP_NARROW_FFT_N} /\ P \in [Path!Slots -> Path!Spectrum]
    BY <1>2
  <2>2. proc = [span |-> span, fft |-> F, fs |-> span, real |-> FALSE,
                bins |-> AP_WIDE_FFT_N, fill |-> 0, pend |-> P, head |-> 0, tail |-> 0,
                cnt |-> 0, power |-> Path!NoSpectrum]
    BY <1>1
  <2> HIDE DEF F, P
  <2> QED
    BY <1>2, <1>3, <2>1, <2>2 DEF Path!Processor
<1>5. loop \in Path!Turn /\ loop.at = "idle"
  <2>1. 0 \in 0 .. Chunk /\ 0 \in 0 .. AP_WIDE_FFT_N /\ 0 \in 0 .. AP_MAX_PENDING_SPEC
    BY Sizes
  <2> QED
    BY <1>2, <2>1 DEF Path!Init, Path!Turn
<1>6. setter \in Path!Change /\ setter.at = "idle"
  BY DEF Path!Init, Path!Change
<1>7. audio \in BOOLEAN /\ cb \in BOOLEAN /\ cut \in BOOLEAN
  BY DEF Path!Init
<1>8. blocks \in 0 .. MaxPathBlocks /\ changes \in 0 .. MaxChanges /\ made \in Nat
  BY Sizes DEF Path!Init
<1>9. columns \in Seq(Path!Column)
  BY DEF Path!Init
<1> QED
  BY <1>4, <1>5, <1>6, <1>7, <1>8, <1>9 DEF Safe, Path!TypeOK, Path!FrameFits

(* A transform: the spectrum is one, and it fits its frame.                *)
LEMMA TransformSafe ==
    ASSUME Safe, NEW n \in {AP_WIDE_FFT_N, AP_NARROW_FFT_N}, Path!Transform(n),
           loop.at # "idle", n <= Chunk, loop.wide \/ n <= AP_NARROW_FFT_N,
           UNCHANGED <<setter, audio, cb, blocks, changes, cut, columns>>
    PROVE  Safe'
<1> DEFINE spec == [no |-> made + 1, bins |-> Path!Bins(n), fs |-> proc.fs,
                    real |-> proc.real]
<1>0. /\ proc \in Path!Processor /\ loop \in Path!Turn /\ setter \in Path!Change
      /\ audio \in BOOLEAN /\ cb \in BOOLEAN /\ cut \in BOOLEAN
      /\ blocks \in 0 .. MaxPathBlocks /\ changes \in 0 .. MaxChanges /\ made \in Nat
      /\ columns \in Seq(Path!Column)
  BY DEF Safe, Path!TypeOK
<1>1. spec \in Path!Spectrum /\ Path!Bins(n) \in 1 .. AP_WIDE_FFT_N
  BY SpecTypes DEF Safe
<1>2. /\ made' = made + 1 /\ proc' = [proc EXCEPT !.bins = Path!Bins(n)]
      /\ loop' = [loop EXCEPT !.at = "push", !.spec = spec, !.n = n]
  BY DEF Path!Transform
<1> HIDE DEF spec
<1>3. [proc EXCEPT !.bins = Path!Bins(n)] \in Path!Processor
  BY <1>0, <1>1, PutProc
<1>4. n \in 0 .. AP_WIDE_FFT_N
  BY Sizes
<1>5. [loop EXCEPT !.at = "push", !.spec = spec, !.n = n] \in Path!Turn
  BY <1>0, <1>1, <1>4, PutLoop DEF Ats
<1>6. /\ loop'.at = "push" /\ loop'.n = n /\ loop'.frames = loop.frames
      /\ loop'.wide = loop.wide /\ made' \in Nat
  BY <1>0, <1>2 DEF Path!Turn
<1> QED
  BY <1>0, <1>2, <1>3, <1>5, <1>6 DEF Safe, Path!TypeOK, Path!FrameFits

LEMMA NextSafe == Safe /\ [Path!Next]_(Path!vars) => Safe'
<1> SUFFICES ASSUME Safe, [Path!Next]_(Path!vars) PROVE Safe'
  OBVIOUS
<1>0. /\ proc \in Path!Processor /\ loop \in Path!Turn /\ setter \in Path!Change
      /\ audio \in BOOLEAN /\ cb \in BOOLEAN /\ cut \in BOOLEAN
      /\ blocks \in 0 .. MaxPathBlocks /\ changes \in 0 .. MaxChanges /\ made \in Nat
      /\ columns \in Seq(Path!Column)
  BY DEF Safe, Path!TypeOK
<1>1. CASE Path!Stream \/ Path!SetCallback
  BY <1>0, <1>1 DEF Path!Stream, Path!SetCallback, Safe, Path!TypeOK, Path!FrameFits
<1>2. CASE \E span \in {Narrow, SampleRate} : Path!SetSpan(span)
  <2>1. PICK span \in {Narrow, SampleRate} : Path!SetSpan(span)
    BY <1>2
  <2>2. proc' \in Path!Processor /\ proc'.cnt = proc.cnt
    <3>1. proc' = [proc EXCEPT !.span = span]
      BY <2>1 DEF Path!SetSpan
    <3>2. [proc EXCEPT !.span = span] \in Path!Processor
      BY <1>0, PutProc
    <3> QED
      BY <1>0, <3>1, <3>2 DEF Path!Processor
  <2>3. setter' \in Path!Change /\ setter'.span \in {Narrow, SampleRate}
    BY <2>1 DEF Path!SetSpan, Path!Change
  <2>4. changes' \in 0 .. MaxChanges
    BY <1>0, <2>1, Sizes DEF Path!SetSpan
  <2>5. cut' \in BOOLEAN /\ UNCHANGED <<loop, audio, cb, blocks, made, columns>>
    BY <2>1 DEF Path!SetSpan, Path!Overlap
  <2> QED
    BY <1>0, <2>2, <2>3, <2>4, <2>5 DEF Safe, Path!TypeOK, Path!FrameFits
<1>3. CASE Path!SetSizes
  <2>1. /\ setter.span \in {Narrow, SampleRate}
        /\ proc' = [proc EXCEPT !.fs = setter.span,
                        !.fft = IF Path!IsNarrow(setter.span) THEN AP_NARROW_FFT_N
                                ELSE AP_WIDE_FFT_N]
        /\ setter' = [setter EXCEPT !.at = "clear"]
        /\ UNCHANGED <<loop, audio, cb, blocks, changes, made, columns>>
    BY <1>3 DEF Path!SetSizes, Safe
  <2>2. proc' \in Path!Processor /\ proc'.cnt = proc.cnt
    <3> DEFINE w == IF Path!IsNarrow(setter.span) THEN AP_NARROW_FFT_N ELSE AP_WIDE_FFT_N
    <3>1. w \in {AP_WIDE_FFT_N, AP_NARROW_FFT_N}
      OBVIOUS
    <3> HIDE DEF w
    <3>2. proc' = [proc EXCEPT !.fs = setter.span, !.fft = w]
      BY <2>1 DEF w
    <3>3. [proc EXCEPT !.fs = setter.span, !.fft = w] \in Path!Processor
      BY <1>0, <2>1, <3>1, PutProc
    <3> QED
      BY <1>0, <3>2, <3>3 DEF Path!Processor
  <2>3. setter' \in Path!Change /\ setter'.at = "clear"
    BY <1>0, <2>1 DEF Path!Change
  <2>4. cut' \in BOOLEAN
    BY <1>3 DEF Path!SetSizes, Path!Overlap
  <2> QED
    BY <1>0, <2>1, <2>2, <2>3, <2>4 DEF Safe, Path!TypeOK, Path!FrameFits
<1>4. CASE Path!SetClear
  <2>1. /\ proc' = [Path!ClearQueue(proc) EXCEPT !.fill = 0]
        /\ setter' = [at |-> "idle", span |-> 0]
        /\ UNCHANGED <<loop, audio, cb, blocks, changes, made, columns>>
    BY <1>4 DEF Path!SetClear
  <2>2. Path!ClearQueue(proc) \in Path!Processor /\ Path!ClearQueue(proc).cnt = 0
    BY <1>0, Emptied
  <2>3. proc' \in Path!Processor /\ proc'.cnt = 0
    <3>1. 0 \in 0 .. AP_NARROW_RING
      BY Sizes
    <3>2. proc' \in Path!Processor
      BY <2>1, <2>2, <3>1, PutProc
    <3> QED
      BY <2>1, <2>2, <3>2 DEF Path!Processor
  <2>4. setter' \in Path!Change /\ setter'.at = "idle"
    BY <2>1 DEF Path!Change
  <2>5. cut' \in BOOLEAN
    BY <1>4 DEF Path!SetClear, Path!Overlap
  <2>6. 0 < AP_MAX_PENDING_SPEC
    BY Sizes
  <2> QED
    BY <1>0, <2>1, <2>3, <2>4, <2>5, <2>6 DEF Safe, Path!TypeOK, Path!FrameFits
<1>5. CASE \E count \in 1 .. Chunk : Path!ReadBlock(count)
  <2>1. PICK count \in 1 .. Chunk : Path!ReadBlock(count)
    BY <1>5
  <2>2. /\ loop.at = "idle" /\ blocks < MaxPathBlocks
        /\ proc' = Path!SetRealAudio(proc)
        /\ loop' = [loop EXCEPT !.at = "process", !.left = count, !.frames = 0,
                                !.first = made + 1]
        /\ blocks' = blocks + 1 /\ cut' \in BOOLEAN
        /\ UNCHANGED <<setter, audio, cb, changes, made, columns>>
    BY <2>1 DEF Path!ReadBlock
  <2>3. proc' \in Path!Processor
    <3>1. Path!ClearQueue(proc) \in Path!Processor
      BY <1>0, Emptied
    <3>2. [Path!ClearQueue(proc) EXCEPT !.real = audio] \in Path!Processor
      BY <1>0, <3>1, PutProc
    <3> QED
      BY <1>0, <2>2, <3>2 DEF Path!SetRealAudio
  <2>4. count \in 0 .. Chunk /\ made + 1 \in Nat /\ 0 < AP_MAX_PENDING_SPEC
    BY <1>0, Sizes
  <2>5. [loop EXCEPT !.at = "process", !.left = count, !.frames = 0, !.first = made + 1]
           \in Path!Turn
    BY <1>0, <2>4, PutLoop DEF Ats
  <2>6. loop' \in Path!Turn /\ loop'.at = "process" /\ loop'.frames = 0
    BY <1>0, <2>2, <2>5 DEF Path!Turn
  <2>7. blocks' \in 0 .. MaxPathBlocks
    BY <1>0, <2>2, Sizes
  <2> QED
    BY <1>0, <2>2, <2>3, <2>4, <2>6, <2>7 DEF Safe, Path!TypeOK, Path!FrameFits
<1>6. CASE Path!Process
  <2>1. /\ loop.at = "process"
        /\ UNCHANGED <<proc, setter, audio, cb, blocks, changes, cut, made, columns>>
        /\ loop' = IF Path!IsNarrow(proc.span) THEN [loop EXCEPT !.at = "narrow", !.wide = FALSE]
                   ELSE [loop EXCEPT !.at = "wide", !.wide = TRUE, !.n = proc.fft]
    BY <1>6 DEF Path!Process
  <2>2. proc.fft \in {AP_WIDE_FFT_N, AP_NARROW_FFT_N} /\ proc.fft \in 0 .. AP_WIDE_FFT_N
    BY <1>0, ProcFields, Sizes
  <2>3. [loop EXCEPT !.at = "narrow", !.wide = FALSE] \in Path!Turn
    BY <1>0, PutLoop DEF Ats
  <2>4. [loop EXCEPT !.at = "wide", !.wide = TRUE, !.n = proc.fft] \in Path!Turn
    BY <1>0, <2>2, PutLoop DEF Ats
  <2>5. /\ loop' \in Path!Turn /\ loop'.at \in {"narrow", "wide"}
        /\ loop'.frames = loop.frames
        /\ loop'.at = "wide" => loop'.wide /\ loop'.n = proc.fft
    BY <1>0, <2>1, <2>3, <2>4 DEF Path!Turn
  <2> QED
    BY <1>0, <2>1, <2>2, <2>5 DEF Safe, Path!TypeOK, Path!FrameFits
<1>7. CASE Path!Wide
  <2>0. /\ loop.at = "wide" /\ loop.wide
        /\ loop.n \in {AP_WIDE_FFT_N, AP_NARROW_FFT_N}
        /\ UNCHANGED <<setter, audio, cb, blocks, changes, cut, columns>>
    BY <1>7 DEF Safe, Path!Wide
  <2>1. CASE loop.left < loop.n
    <3>1. /\ proc' = [proc EXCEPT !.power = Path!NoSpectrum]
          /\ loop' = [loop EXCEPT !.at = "pop"] /\ made' = made
      BY <1>7, <2>1 DEF Path!Wide
    <3>2. [proc EXCEPT !.power = Path!NoSpectrum] \in Path!Processor
      BY <1>0, BlankType, PutProc
    <3>3. [loop EXCEPT !.at = "pop"] \in Path!Turn
      BY <1>0, PutLoop DEF Ats
    <3>4. loop'.at = "pop" /\ loop'.frames = loop.frames
      BY <1>0, <3>1 DEF Path!Turn
    <3> QED
      BY <1>0, <2>0, <3>1, <3>2, <3>3, <3>4 DEF Safe, Path!TypeOK, Path!FrameFits
  <2>2. CASE ~(loop.left < loop.n)
    <3>1. Path!Transform(loop.n)
      BY <1>7, <2>2 DEF Path!Wide
    <3>2. loop.n <= Chunk
      BY <2>0, Sizes
    <3> QED
      BY <2>0, <3>1, <3>2, TransformSafe
  <2> QED
    BY <2>1, <2>2
<1>8. CASE Path!NarrowUnit
  <2>0. /\ loop.at = "narrow"
        /\ UNCHANGED <<setter, audio, cb, blocks, changes, cut, made, columns>>
    BY <1>8 DEF Path!NarrowUnit
  <2>1. CASE loop.left < Path!Decim
    <3>1. proc' = proc /\ loop' = [loop EXCEPT !.at = "pop"]
      BY <1>8, <2>1 DEF Path!NarrowUnit
    <3>2. [loop EXCEPT !.at = "pop"] \in Path!Turn
      BY <1>0, PutLoop DEF Ats
    <3>3. loop'.at = "pop" /\ loop'.frames = loop.frames
      BY <1>0, <3>1 DEF Path!Turn
    <3> QED
      BY <1>0, <2>0, <3>1, <3>2, <3>3 DEF Safe, Path!TypeOK, Path!FrameFits
  <2>2. CASE ~(loop.left < Path!Decim)
    <3> DEFINE fill == IF proc.fill < AP_NARROW_RING THEN proc.fill + 1 ELSE proc.fill
               at   == IF fill >= proc.fft THEN "fft" ELSE "narrow"
    <3>1. fill \in 0 .. AP_NARROW_RING
      BY <1>0, ProcFields, Sizes
    <3>2. loop.left - Path!Decim \in 0 .. Chunk
      BY <1>0, <2>2, LoopFields, DecimSize, Sizes
    <3>3. at \in {"fft", "narrow"}
      OBVIOUS
    <3>4. /\ proc' = [proc EXCEPT !.fill = fill]
          /\ loop' = [loop EXCEPT !.left = @ - Path!Decim, !.at = at]
      BY <1>8, <2>2 DEF Path!NarrowUnit
    <3> HIDE DEF fill, at
    <3>5. [proc EXCEPT !.fill = fill] \in Path!Processor
      BY <1>0, <3>1, PutProc
    <3>6. loop' = [loop EXCEPT !.left = loop.left - Path!Decim, !.at = at]
      BY <1>0, <3>4 DEF Path!Turn
    <3>7. [loop EXCEPT !.left = loop.left - Path!Decim, !.at = at] \in Path!Turn
      BY <1>0, <3>2, <3>3, PutLoop DEF Ats
    <3>8. loop'.at = at /\ loop'.frames = loop.frames
      BY <1>0, <3>6 DEF Path!Turn
    <3> QED
      BY <1>0, <2>0, <3>3, <3>4, <3>5, <3>6, <3>7, <3>8 DEF Safe, Path!TypeOK, Path!FrameFits
  <2> QED
    BY <2>1, <2>2
<1>9. CASE Path!NarrowFft
  <2>0. /\ loop.at = "fft"
        /\ UNCHANGED <<setter, audio, cb, blocks, changes, cut, columns>>
    BY <1>9 DEF Path!NarrowFft
  <2>1. CASE Path!CanTransform(proc.fft)
    <3>1. Path!Transform(proc.fft)
      BY <1>9, <2>1 DEF Path!NarrowFft
    <3>2. proc.fft \in {AP_WIDE_FFT_N, AP_NARROW_FFT_N} /\ proc.fft <= AP_NARROW_FFT_N
      BY <1>0, <2>1, ProcFields DEF Path!CanTransform
    <3>3. proc.fft <= Chunk
      BY <3>2, Sizes
    <3> QED
      BY <2>0, <3>1, <3>2, <3>3, TransformSafe
  <2>2. CASE ~Path!CanTransform(proc.fft)
    <3>1. loop' = [loop EXCEPT !.at = "narrow"] /\ proc' = proc /\ made' = made
      BY <1>9, <2>2 DEF Path!NarrowFft
    <3>2. [loop EXCEPT !.at = "narrow"] \in Path!Turn
      BY <1>0, PutLoop DEF Ats
    <3>3. loop'.at = "narrow" /\ loop'.frames = loop.frames
      BY <1>0, <3>1 DEF Path!Turn
    <3> QED
      BY <1>0, <2>0, <3>1, <3>2, <3>3 DEF Safe, Path!TypeOK, Path!FrameFits
  <2> QED
    BY <2>1, <2>2
<1>10. CASE Path!PushSlot
  <2> DEFINE q == Path!DropOldest(proc)
             pend == [q.pend EXCEPT ![proc.tail] = loop.spec]
  <2>1. /\ loop.at = "push"
        /\ proc' = [q EXCEPT !.pend[proc.tail] = loop.spec]
        /\ loop' = [loop EXCEPT !.at = "tail"]
        /\ UNCHANGED <<setter, audio, cb, blocks, changes, cut, made, columns>>
    BY <1>10 DEF Path!PushSlot
  <2>2. q \in Path!Processor /\ q.cnt < AP_MAX_PENDING_SPEC
    BY <1>0, Dropped
  <2> HIDE DEF q
  <2>3. pend \in [Path!Slots -> Path!Spectrum]
    BY <1>0, <2>2, ProcFields, LoopFields
  <2>4. [q EXCEPT !.pend = pend] \in Path!Processor
    <3> HIDE DEF pend
    <3> QED
      BY <2>2, <2>3, PutProc
  <2>5. proc' = [q EXCEPT !.pend = pend]
    BY <2>1, <2>2 DEF Path!Processor
  <2> HIDE DEF pend
  <2>6. proc' \in Path!Processor /\ proc'.cnt = q.cnt
    BY <2>2, <2>4, <2>5 DEF Path!Processor
  <2>7. [loop EXCEPT !.at = "tail"] \in Path!Turn
    BY <1>0, PutLoop DEF Ats
  <2>8. loop'.at = "tail" /\ loop'.frames = loop.frames
    BY <1>0, <2>1 DEF Path!Turn
  <2> QED
    BY <1>0, <2>1, <2>2, <2>6, <2>7, <2>8 DEF Safe, Path!TypeOK, Path!FrameFits
<1>11. CASE Path!PushTail
  <2>1. /\ loop.at = "tail"
        /\ proc' = [proc EXCEPT !.tail = Path!After(@)]
        /\ loop' = [loop EXCEPT !.at = "count"]
        /\ UNCHANGED <<setter, audio, cb, blocks, changes, cut, made, columns>>
    BY <1>11 DEF Path!PushTail
  <2>2. proc' \in Path!Processor /\ proc'.cnt = proc.cnt
    BY <1>0, <2>1, TailType
  <2>3. [loop EXCEPT !.at = "count"] \in Path!Turn
    BY <1>0, PutLoop DEF Ats
  <2>4. loop'.at = "count" /\ loop'.frames = loop.frames
    BY <1>0, <2>1 DEF Path!Turn
  <2> QED
    BY <1>0, <2>1, <2>2, <2>3, <2>4 DEF Safe, Path!TypeOK, Path!FrameFits
<1>12. CASE Path!PushCount
  <2> DEFINE at == IF loop.wide THEN "pop" ELSE "narrow"
  <2>1. /\ loop.at = "count"
        /\ proc' = [proc EXCEPT !.cnt = @ + 1, !.power = loop.spec]
        /\ loop' = [loop EXCEPT !.at = at]
        /\ UNCHANGED <<setter, audio, cb, blocks, changes, cut, made, columns>>
    BY <1>12 DEF Path!PushCount
  <2>2. proc.cnt + 1 \in -1 .. AP_MAX_PENDING_SPEC
    <3>1. proc.cnt < AP_MAX_PENDING_SPEC
      BY <2>1 DEF Safe
    <3>2. proc.cnt \in -1 .. AP_MAX_PENDING_SPEC
      BY <1>0, ProcFields
    <3>3. AP_MAX_PENDING_SPEC \in Nat
      BY Sizes
    <3> QED
      BY <3>1, <3>2, <3>3
  <2>3. proc' \in Path!Processor
    BY <1>0, <2>1, <2>2, CountType, LoopFields
  <2>4. at \in {"pop", "narrow"}
    OBVIOUS
  <2> HIDE DEF at
  <2>5. [loop EXCEPT !.at = at] \in Path!Turn
    BY <1>0, <2>4, PutLoop DEF Ats
  <2>6. loop'.at = at /\ loop'.frames = loop.frames
    BY <1>0, <2>1 DEF Path!Turn
  <2> QED
    BY <1>0, <2>1, <2>3, <2>4, <2>5, <2>6 DEF Safe, Path!TypeOK, Path!FrameFits
<1>13. CASE Path!Pop
  <2>1. /\ loop.at = "pop"
        /\ UNCHANGED <<proc, setter, audio, cb, blocks, changes, cut, made, columns>>
    BY <1>13 DEF Path!Pop
  <2>2. \/ loop' = [loop EXCEPT !.at = "idle"]
        \/ proc.cnt > 0 /\ loop' = [loop EXCEPT !.at = "head", !.spec = proc.pend[proc.head]]
        \/ loop' = [loop EXCEPT !.at = "show", !.spec = Path!Latest]
    BY <1>13 DEF Path!Pop
  <2>3. [loop EXCEPT !.at = "idle"] \in Path!Turn
    BY <1>0, PutLoop DEF Ats
  <2>4. [loop EXCEPT !.at = "head", !.spec = proc.pend[proc.head]] \in Path!Turn
    <3>1. proc.pend[proc.head] \in Path!Spectrum
      BY <1>0, ProcFields
    <3> QED
      BY <1>0, <3>1, PutLoop DEF Ats
  <2>5. [loop EXCEPT !.at = "show", !.spec = Path!Latest] \in Path!Turn
    <3>1. Path!Latest \in Path!Spectrum
      BY LatestType DEF Safe
    <3> QED
      BY <1>0, <3>1, PutLoop DEF Ats
  <2>6. /\ loop' \in Path!Turn /\ loop'.at \in {"idle", "head", "show"}
        /\ loop'.frames = loop.frames /\ (loop'.at = "head" => proc.cnt > 0)
    <3>1. loop' \in Path!Turn
      BY <2>2, <2>3, <2>4, <2>5
    <3>2. CASE loop' = [loop EXCEPT !.at = "idle"]
      <4>1. loop'.at = "idle" /\ loop'.frames = loop.frames
        BY <1>0, <3>2 DEF Path!Turn
      <4> QED
        BY <3>1, <4>1
    <3>3. CASE /\ proc.cnt > 0
               /\ loop' = [loop EXCEPT !.at = "head", !.spec = proc.pend[proc.head]]
      <4>1. loop'.at = "head" /\ loop'.frames = loop.frames
        BY <1>0, <3>3 DEF Path!Turn
      <4> QED
        BY <3>1, <3>3, <4>1
    <3>4. CASE loop' = [loop EXCEPT !.at = "show", !.spec = Path!Latest]
      <4>1. loop'.at = "show" /\ loop'.frames = loop.frames
        BY <1>0, <3>4 DEF Path!Turn
      <4> QED
        BY <3>1, <4>1
    <3> QED
      BY <2>2, <3>2, <3>3, <3>4
  <2>7. loop'.at = "head" => proc'.cnt >= 0
    BY <1>0, <2>1, <2>6, ProcFields
  <2> QED
    BY <1>0, <2>1, <2>6, <2>7 DEF Safe, Path!TypeOK, Path!FrameFits
<1>14. CASE Path!PopHead
  <2>1. /\ loop.at = "head"
        /\ proc' = [proc EXCEPT !.head = Path!After(@)]
        /\ loop' = [loop EXCEPT !.at = "taken"]
        /\ UNCHANGED <<setter, audio, cb, blocks, changes, cut, made, columns>>
    BY <1>14 DEF Path!PopHead
  <2>2. proc' \in Path!Processor /\ proc'.cnt = proc.cnt
    BY <1>0, <2>1, HeadType
  <2>3. [loop EXCEPT !.at = "taken"] \in Path!Turn
    BY <1>0, PutLoop DEF Ats
  <2>4. loop'.at = "taken" /\ loop'.frames = loop.frames
    BY <1>0, <2>1 DEF Path!Turn
  <2> QED
    BY <1>0, <2>1, <2>2, <2>3, <2>4 DEF Safe, Path!TypeOK, Path!FrameFits
<1>15. CASE Path!PopCount
  <2>1. /\ loop.at = "taken"
        /\ proc' = [proc EXCEPT !.cnt = @ - 1]
        /\ loop' = [loop EXCEPT !.at = "showFresh"]
        /\ UNCHANGED <<setter, audio, cb, blocks, changes, cut, made, columns>>
    BY <1>15 DEF Path!PopCount
  <2>2. proc.cnt - 1 \in -1 .. AP_MAX_PENDING_SPEC
    <3>1. proc.cnt >= 0
      BY <2>1 DEF Safe
    <3>2. proc.cnt \in -1 .. AP_MAX_PENDING_SPEC
      BY <1>0, ProcFields
    <3>3. AP_MAX_PENDING_SPEC \in Nat
      BY Sizes
    <3> QED
      BY <3>1, <3>2, <3>3
  <2>3. proc' \in Path!Processor
    BY <1>0, <2>1, <2>2, LessType
  <2>4. [loop EXCEPT !.at = "showFresh"] \in Path!Turn
    BY <1>0, PutLoop DEF Ats
  <2>5. loop'.at = "showFresh" /\ loop'.frames = loop.frames
    BY <1>0, <2>1 DEF Path!Turn
  <2> QED
    BY <1>0, <2>1, <2>3, <2>4, <2>5 DEF Safe, Path!TypeOK, Path!FrameFits
<1>16. CASE Path!Show
  <2> DEFINE at == IF loop.at = "show" \/ loop.frames + 1 >= AP_MAX_PENDING_SPEC
                   THEN "idle" ELSE "pop"
             c  == [spec |-> loop.spec, fresh |-> loop.at = "showFresh",
                    axis |-> Path!Axis(loop.spec.bins)]
  <2>1. /\ loop.at \in {"show", "showFresh"}
        /\ columns' = Append(columns, c)
        /\ loop' = [loop EXCEPT !.frames = @ + 1, !.at = at]
        /\ UNCHANGED <<proc, setter, audio, cb, blocks, changes, cut, made>>
    BY <1>16 DEF Path!Show
  <2>2. c \in Path!Column
    <3>1. loop.spec \in Path!Spectrum /\ (loop.at = "showFresh") \in BOOLEAN
      BY <1>0, LoopFields
    <3>2. Path!Axis(loop.spec.bins) \in Nat
      BY <3>1, AxisType DEF Safe
    <3> QED
      BY <3>1, <3>2 DEF Path!Column
  <2> HIDE DEF c
  <2>3. columns' \in Seq(Path!Column)
    BY <1>0, <2>1, <2>2
  <2>4. /\ at \in {"idle", "pop"} /\ loop.frames + 1 \in 0 .. AP_MAX_PENDING_SPEC
        /\ at = "pop" => loop.frames + 1 < AP_MAX_PENDING_SPEC
    <3>1. loop.frames < AP_MAX_PENDING_SPEC
      BY <2>1 DEF Safe
    <3>2. loop.frames \in 0 .. AP_MAX_PENDING_SPEC
      BY <1>0, LoopFields
    <3>3. AP_MAX_PENDING_SPEC \in Nat
      BY Sizes
    <3> QED
      BY <3>1, <3>2, <3>3
  <2> HIDE DEF at
  <2>5. loop' = [loop EXCEPT !.frames = loop.frames + 1, !.at = at]
    BY <1>0, <2>1 DEF Path!Turn
  <2>6. [loop EXCEPT !.frames = loop.frames + 1, !.at = at] \in Path!Turn
    BY <1>0, <2>4, PutLoop DEF Ats
  <2>7. loop'.at = at /\ loop'.frames = loop.frames + 1
    BY <1>0, <2>5 DEF Path!Turn
  <2> QED
    BY <1>0, <2>1, <2>3, <2>4, <2>5, <2>6, <2>7 DEF Safe, Path!TypeOK, Path!FrameFits
<1>17. CASE UNCHANGED Path!vars
  BY <1>17 DEF Path!vars, Safe, Path!TypeOK, Path!FrameFits
<1> QED
  BY <1>1, <1>2, <1>3, <1>4, <1>5, <1>6, <1>7, <1>8, <1>9, <1>10, <1>11, <1>12,
     <1>13, <1>14, <1>15, <1>16, <1>17 DEF Path!Next, Path!LoopStep

(* What each step does to the parts of the two records the rest is about.  *)
SameMode(p, q)  == q.fft = p.fft /\ q.fs = p.fs /\ q.real = p.real
SameQueue(p, q) == q.head = p.head /\ q.tail = p.tail /\ q.cnt = p.cnt /\ q.pend = p.pend
SameBlock(l, m) == m.left = l.left /\ m.wide = l.wide /\ m.first = l.first
SameLocals(l, m) == SameBlock(l, m) /\ m.n = l.n /\ m.spec = l.spec /\ m.frames = l.frames

LEMMA ReadBlockDoes ==
    ASSUME Safe, NEW count \in 1 .. Chunk, Path!ReadBlock(count)
    PROVE  /\ loop.at = "idle" /\ loop'.at = "process"
           /\ loop'.left = count /\ loop'.frames = 0 /\ loop'.first = made + 1
           /\ cut' = (cut \/ setter.at # "idle")
           /\ \/ proc' = proc
              \/ /\ proc'.head = 0 /\ proc'.tail = 0 /\ proc'.cnt = 0
                 /\ proc'.pend = proc.pend
           /\ UNCHANGED <<setter, cb, made, columns>>
<1>1. proc \in Path!Processor /\ loop \in Path!Turn
  BY DEF Safe, Path!TypeOK
<1>2. /\ loop.at = "idle" /\ cut' = (cut \/ setter.at # "idle")
      /\ loop' = [loop EXCEPT !.at = "process", !.left = count, !.frames = 0,
                              !.first = made + 1]
      /\ UNCHANGED <<setter, cb, made, columns>>
  BY DEF Path!ReadBlock
<1>3. loop'.at = "process" /\ loop'.left = count /\ loop'.frames = 0 /\ loop'.first = made + 1
  BY <1>1, <1>2 DEF Path!Turn
<1>4. \/ proc' = proc
      \/ proc' = [Path!ClearQueue(proc) EXCEPT !.real = audio]
  BY DEF Path!ReadBlock, Path!SetRealAudio
<1>5. \/ proc' = proc
      \/ proc'.head = 0 /\ proc'.tail = 0 /\ proc'.cnt = 0 /\ proc'.pend = proc.pend
  BY <1>1, <1>4 DEF Path!ClearQueue, Path!Processor
<1> QED
  BY <1>2, <1>3, <1>5

LEMMA ProcessDoes ==
    ASSUME Safe, Path!Process
    PROVE  /\ loop.at = "process" /\ loop'.at \in {"narrow", "wide"}
           /\ loop'.at = "wide" => loop'.wide
           /\ loop'.at = "narrow" => ~loop'.wide
           /\ loop'.at = "wide" => loop'.n = proc.fft
           /\ loop'.left = loop.left /\ loop'.frames = loop.frames
           /\ loop'.first = loop.first
           /\ UNCHANGED <<proc, setter, cb, cut, made, columns>>
<1>1. loop \in Path!Turn
  BY DEF Safe, Path!TypeOK
<1> QED
  BY <1>1 DEF Path!Process, Path!Turn

LEMMA TransformDoes ==
    ASSUME Safe, NEW n, Path!Transform(n)
    PROVE  /\ made' = made + 1 /\ loop'.at = "push" /\ loop'.n = n
           /\ loop'.spec = [no |-> made + 1, bins |-> Path!Bins(n), fs |-> proc.fs,
                            real |-> proc.real]
           /\ SameBlock(loop, loop') /\ loop'.frames = loop.frames
           /\ SameMode(proc, proc') /\ SameQueue(proc, proc')
<1>1. proc \in Path!Processor /\ loop \in Path!Turn
  BY DEF Safe, Path!TypeOK
<1> DEFINE spec == [no |-> made + 1, bins |-> Path!Bins(n), fs |-> proc.fs,
                    real |-> proc.real]
<1>2. /\ made' = made + 1 /\ proc' = [proc EXCEPT !.bins = Path!Bins(n)]
      /\ loop' = [loop EXCEPT !.at = "push", !.spec = spec, !.n = n]
  BY DEF Path!Transform
<1> HIDE DEF spec
<1>3. /\ loop'.at = "push" /\ loop'.n = n /\ loop'.spec = spec
      /\ SameBlock(loop, loop') /\ loop'.frames = loop.frames
  BY <1>1, <1>2 DEF Path!Turn, SameBlock
<1>4. SameMode(proc, proc') /\ SameQueue(proc, proc')
  BY <1>1, <1>2 DEF Path!Processor, SameMode, SameQueue
<1> QED
  BY <1>2, <1>3, <1>4 DEF spec

LEMMA WideDoes ==
    ASSUME Safe, Path!Wide
    PROVE  /\ loop.at = "wide"
           /\ UNCHANGED <<setter, cb, cut, columns>>
           /\ \/ /\ loop'.at = "pop" /\ SameLocals(loop, loop') /\ made' = made
                 /\ SameMode(proc, proc') /\ SameQueue(proc, proc')
              \/ Path!Transform(loop.n)
<1>1. proc \in Path!Processor /\ loop \in Path!Turn
  BY DEF Safe, Path!TypeOK
<1>2. CASE loop.left < loop.n
  <2>1. /\ proc' = [proc EXCEPT !.power = Path!NoSpectrum]
        /\ loop' = [loop EXCEPT !.at = "pop"] /\ made' = made
    BY <1>2 DEF Path!Wide
  <2>2. loop'.at = "pop" /\ SameLocals(loop, loop')
    BY <1>1, <2>1 DEF Path!Turn, SameLocals, SameBlock
  <2>3. SameMode(proc, proc') /\ SameQueue(proc, proc')
    BY <1>1, <2>1 DEF Path!Processor, SameMode, SameQueue
  <2> QED
    BY <2>1, <2>2, <2>3 DEF Path!Wide
<1>3. CASE ~(loop.left < loop.n)
  BY <1>3 DEF Path!Wide
<1> QED
  BY <1>2, <1>3

LEMMA NarrowUnitDoes ==
    ASSUME Safe, Path!NarrowUnit
    PROVE  /\ loop.at = "narrow"
           /\ UNCHANGED <<setter, cb, cut, made, columns>>
           /\ SameMode(proc, proc') /\ SameQueue(proc, proc')
           /\ loop'.wide = loop.wide /\ loop'.first = loop.first
           /\ loop'.frames = loop.frames
           /\ \/ loop'.at = "pop" /\ loop'.left = loop.left
              \/ /\ loop'.at \in {"fft", "narrow"} /\ loop.left >= Path!Decim
                 /\ loop'.left = loop.left - Path!Decim
<1>1. proc \in Path!Processor /\ loop \in Path!Turn
  BY DEF Safe, Path!TypeOK
<1>2. CASE loop.left < Path!Decim
  <2>1. proc' = proc /\ loop' = [loop EXCEPT !.at = "pop"]
    BY <1>2 DEF Path!NarrowUnit
  <2>2. /\ loop'.at = "pop" /\ loop'.left = loop.left /\ loop'.wide = loop.wide
        /\ loop'.first = loop.first /\ loop'.frames = loop.frames
    BY <1>1, <2>1 DEF Path!Turn
  <2> QED
    BY <2>1, <2>2 DEF Path!NarrowUnit, SameMode, SameQueue
<1>3. CASE ~(loop.left < Path!Decim)
  <2> DEFINE fill == IF proc.fill < AP_NARROW_RING THEN proc.fill + 1 ELSE proc.fill
             at   == IF fill >= proc.fft THEN "fft" ELSE "narrow"
  <2>1. /\ proc' = [proc EXCEPT !.fill = fill]
        /\ loop' = [loop EXCEPT !.left = @ - Path!Decim, !.at = at]
    BY <1>3 DEF Path!NarrowUnit
  <2>2. at \in {"fft", "narrow"}
    OBVIOUS
  <2> HIDE DEF fill, at
  <2>3. SameMode(proc, proc') /\ SameQueue(proc, proc')
    BY <1>1, <2>1 DEF Path!Processor, SameMode, SameQueue
  <2>4. /\ loop'.at = at /\ loop'.left = loop.left - Path!Decim /\ loop'.wide = loop.wide
        /\ loop'.first = loop.first /\ loop'.frames = loop.frames
    BY <1>1, <2>1 DEF Path!Turn
  <2>5. loop.left >= Path!Decim
    BY <1>1, <1>3, LoopFields, DecimSize, Sizes
  <2> QED
    BY <2>2, <2>3, <2>4, <2>5 DEF Path!NarrowUnit
<1> QED
  BY <1>2, <1>3

LEMMA NarrowFftDoes ==
    ASSUME Safe, Path!NarrowFft
    PROVE  /\ loop.at = "fft"
           /\ UNCHANGED <<setter, cb, cut, columns>>
           /\ \/ /\ loop'.at = "narrow" /\ SameLocals(loop, loop') /\ made' = made
                 /\ proc' = proc
              \/ Path!Transform(proc.fft)
<1>1. loop \in Path!Turn
  BY DEF Safe, Path!TypeOK
<1>2. CASE Path!CanTransform(proc.fft)
  BY <1>2 DEF Path!NarrowFft
<1>3. CASE ~Path!CanTransform(proc.fft)
  <2>1. proc' = proc /\ loop' = [loop EXCEPT !.at = "narrow"] /\ made' = made
    BY <1>3 DEF Path!NarrowFft
  <2>2. loop'.at = "narrow" /\ SameLocals(loop, loop')
    BY <1>1, <2>1 DEF Path!Turn, SameLocals, SameBlock
  <2> QED
    BY <2>1, <2>2 DEF Path!NarrowFft
<1> QED
  BY <1>2, <1>3

LEMMA PushSlotDoes ==
    ASSUME Safe, Path!PushSlot
    PROVE  /\ loop.at = "push" /\ loop'.at = "tail" /\ SameLocals(loop, loop')
           /\ UNCHANGED <<setter, cb, cut, made, columns>>
           /\ SameMode(proc, proc') /\ proc'.tail = proc.tail
           /\ proc'.pend = [proc.pend EXCEPT ![proc.tail] = loop.spec]
           /\ IF proc.cnt >= AP_MAX_PENDING_SPEC
              THEN proc'.cnt = proc.cnt - 1 /\ proc'.head = Path!After(proc.head)
              ELSE proc'.cnt = proc.cnt /\ proc'.head = proc.head
<1>1. proc \in Path!Processor /\ loop \in Path!Turn
  BY DEF Safe, Path!TypeOK
<1>2. /\ loop.at = "push" /\ loop' = [loop EXCEPT !.at = "tail"]
      /\ UNCHANGED <<setter, cb, cut, made, columns>>
      /\ proc' = [Path!DropOldest(proc) EXCEPT !.pend[proc.tail] = loop.spec]
  BY DEF Path!PushSlot
<1>3. loop'.at = "tail" /\ SameLocals(loop, loop')
  BY <1>1, <1>2 DEF Path!Turn, SameLocals, SameBlock
<1>4. CASE proc.cnt >= AP_MAX_PENDING_SPEC
  <2>1. proc' = [[proc EXCEPT !.head = Path!After(@), !.cnt = @ - 1]
                    EXCEPT !.pend[proc.tail] = loop.spec]
    BY <1>2, <1>4 DEF Path!DropOldest
  <2>2. /\ SameMode(proc, proc') /\ proc'.tail = proc.tail
        /\ proc'.pend = [proc.pend EXCEPT ![proc.tail] = loop.spec]
        /\ proc'.cnt = proc.cnt - 1 /\ proc'.head = Path!After(proc.head)
    BY <1>1, <2>1 DEF Path!Processor, SameMode
  <2> QED
    BY <1>2, <1>3, <1>4, <2>2
<1>5. CASE ~(proc.cnt >= AP_MAX_PENDING_SPEC)
  <2>1. proc' = [proc EXCEPT !.pend[proc.tail] = loop.spec]
    BY <1>2, <1>5 DEF Path!DropOldest
  <2>2. /\ SameMode(proc, proc') /\ proc'.tail = proc.tail
        /\ proc'.pend = [proc.pend EXCEPT ![proc.tail] = loop.spec]
        /\ proc'.cnt = proc.cnt /\ proc'.head = proc.head
    BY <1>1, <2>1 DEF Path!Processor, SameMode
  <2> QED
    BY <1>2, <1>3, <1>5, <2>2
<1> QED
  BY <1>4, <1>5

LEMMA PushTailDoes ==
    ASSUME Safe, Path!PushTail
    PROVE  /\ loop.at = "tail" /\ loop'.at = "count" /\ SameLocals(loop, loop')
           /\ UNCHANGED <<setter, cb, cut, made, columns>>
           /\ SameMode(proc, proc') /\ proc'.tail = Path!After(proc.tail)
           /\ proc'.head = proc.head /\ proc'.cnt = proc.cnt /\ proc'.pend = proc.pend
<1>1. proc \in Path!Processor /\ loop \in Path!Turn
  BY DEF Safe, Path!TypeOK
<1>2. /\ loop.at = "tail" /\ loop' = [loop EXCEPT !.at = "count"]
      /\ UNCHANGED <<setter, cb, cut, made, columns>>
      /\ proc' = [proc EXCEPT !.tail = Path!After(@)]
  BY DEF Path!PushTail
<1>3. loop'.at = "count" /\ SameLocals(loop, loop')
  BY <1>1, <1>2 DEF Path!Turn, SameLocals, SameBlock
<1>4. /\ SameMode(proc, proc') /\ proc'.tail = Path!After(proc.tail)
      /\ proc'.head = proc.head /\ proc'.cnt = proc.cnt /\ proc'.pend = proc.pend
  BY <1>1, <1>2 DEF Path!Processor, SameMode
<1> QED
  BY <1>2, <1>3, <1>4

LEMMA PushCountDoes ==
    ASSUME Safe, Path!PushCount
    PROVE  /\ loop.at = "count" /\ loop'.at = (IF loop.wide THEN "pop" ELSE "narrow")
           /\ SameLocals(loop, loop')
           /\ UNCHANGED <<setter, cb, cut, made, columns>>
           /\ SameMode(proc, proc') /\ proc'.tail = proc.tail
           /\ proc'.head = proc.head /\ proc'.cnt = proc.cnt + 1 /\ proc'.pend = proc.pend
<1>1. proc \in Path!Processor /\ loop \in Path!Turn
  BY DEF Safe, Path!TypeOK
<1> DEFINE at == IF loop.wide THEN "pop" ELSE "narrow"
<1>2. /\ loop.at = "count" /\ loop' = [loop EXCEPT !.at = at]
      /\ UNCHANGED <<setter, cb, cut, made, columns>>
      /\ proc' = [proc EXCEPT !.cnt = @ + 1, !.power = loop.spec]
  BY DEF Path!PushCount
<1> HIDE DEF at
<1>3. loop'.at = at /\ SameLocals(loop, loop')
  BY <1>1, <1>2 DEF Path!Turn, SameLocals, SameBlock
<1>4. /\ SameMode(proc, proc') /\ proc'.tail = proc.tail
      /\ proc'.head = proc.head /\ proc'.cnt = proc.cnt + 1 /\ proc'.pend = proc.pend
  BY <1>1, <1>2 DEF Path!Processor, SameMode
<1> QED
  BY <1>2, <1>3, <1>4 DEF at

LEMMA PopDoes ==
    ASSUME Safe, Path!Pop
    PROVE  /\ loop.at = "pop" /\ SameBlock(loop, loop') /\ loop'.frames = loop.frames
           /\ UNCHANGED <<proc, setter, cb, cut, made, columns>>
           /\ \/ loop'.at = "idle" /\ (cb => proc.cnt <= 0)
              \/ /\ loop'.at = "head" /\ cb /\ proc.cnt > 0
                 /\ loop'.spec = proc.pend[proc.head]
              \/ loop'.at = "show" /\ cb /\ proc.cnt <= 0 /\ loop.frames = 0
<1>1. loop \in Path!Turn
  BY DEF Safe, Path!TypeOK
<1>2. proc.cnt \in Int
  BY ProcFields DEF Safe, Path!TypeOK
<1>3. /\ loop.at = "pop" /\ UNCHANGED <<proc, setter, cb, cut, made, columns>>
      /\ \/ /\ cb => proc.cnt <= 0
            /\ loop' = [loop EXCEPT !.at = "idle"]
         \/ /\ cb /\ proc.cnt > 0
            /\ loop' = [loop EXCEPT !.at = "head", !.spec = proc.pend[proc.head]]
         \/ /\ cb /\ proc.cnt <= 0 /\ loop.frames = 0
            /\ loop' = [loop EXCEPT !.at = "show", !.spec = Path!Latest]
  BY <1>2 DEF Path!Pop, Path!ShowsLatest
<1> QED
  BY <1>1, <1>3 DEF Path!Turn, SameBlock

LEMMA PopHeadDoes ==
    ASSUME Safe, Path!PopHead
    PROVE  /\ loop.at = "head" /\ loop'.at = "taken" /\ SameLocals(loop, loop')
           /\ UNCHANGED <<setter, cb, cut, made, columns>>
           /\ SameMode(proc, proc') /\ proc'.head = Path!After(proc.head)
           /\ proc'.tail = proc.tail /\ proc'.cnt = proc.cnt /\ proc'.pend = proc.pend
<1>1. proc \in Path!Processor /\ loop \in Path!Turn
  BY DEF Safe, Path!TypeOK
<1>2. /\ loop.at = "head" /\ loop' = [loop EXCEPT !.at = "taken"]
      /\ UNCHANGED <<setter, cb, cut, made, columns>>
      /\ proc' = [proc EXCEPT !.head = Path!After(@)]
  BY DEF Path!PopHead
<1>3. loop'.at = "taken" /\ SameLocals(loop, loop')
  BY <1>1, <1>2 DEF Path!Turn, SameLocals, SameBlock
<1>4. /\ SameMode(proc, proc') /\ proc'.head = Path!After(proc.head)
      /\ proc'.tail = proc.tail /\ proc'.cnt = proc.cnt /\ proc'.pend = proc.pend
  BY <1>1, <1>2 DEF Path!Processor, SameMode
<1> QED
  BY <1>2, <1>3, <1>4

LEMMA PopCountDoes ==
    ASSUME Safe, Path!PopCount
    PROVE  /\ loop.at = "taken" /\ loop'.at = "showFresh" /\ SameLocals(loop, loop')
           /\ UNCHANGED <<setter, cb, cut, made, columns>>
           /\ SameMode(proc, proc') /\ proc'.head = proc.head
           /\ proc'.tail = proc.tail /\ proc'.cnt = proc.cnt - 1 /\ proc'.pend = proc.pend
<1>1. proc \in Path!Processor /\ loop \in Path!Turn
  BY DEF Safe, Path!TypeOK
<1>2. /\ loop.at = "taken" /\ loop' = [loop EXCEPT !.at = "showFresh"]
      /\ UNCHANGED <<setter, cb, cut, made, columns>>
      /\ proc' = [proc EXCEPT !.cnt = @ - 1]
  BY DEF Path!PopCount
<1>3. loop'.at = "showFresh" /\ SameLocals(loop, loop')
  BY <1>1, <1>2 DEF Path!Turn, SameLocals, SameBlock
<1>4. /\ SameMode(proc, proc') /\ proc'.head = proc.head
      /\ proc'.tail = proc.tail /\ proc'.cnt = proc.cnt - 1 /\ proc'.pend = proc.pend
  BY <1>1, <1>2 DEF Path!Processor, SameMode
<1> QED
  BY <1>2, <1>3, <1>4

Drawn == [spec |-> loop.spec, fresh |-> loop.at = "showFresh",
          axis |-> Path!Axis(loop.spec.bins)]

LEMMA ShowDoes ==
    ASSUME Safe, Path!Show
    PROVE  /\ loop.at \in {"show", "showFresh"} /\ columns' = Append(columns, Drawn)
           /\ UNCHANGED <<proc, setter, cb, cut, made>>
           /\ loop'.at = (IF loop.at = "show" \/ loop.frames + 1 >= AP_MAX_PENDING_SPEC
                          THEN "idle" ELSE "pop")
           /\ SameBlock(loop, loop') /\ loop'.frames = loop.frames + 1
<1>1. loop \in Path!Turn
  BY DEF Safe, Path!TypeOK
<1> DEFINE at == IF loop.at = "show" \/ loop.frames + 1 >= AP_MAX_PENDING_SPEC
                 THEN "idle" ELSE "pop"
<1>2. /\ loop.at \in {"show", "showFresh"}
      /\ columns' = Append(columns, Drawn)
      /\ loop' = [loop EXCEPT !.frames = @ + 1, !.at = at]
      /\ UNCHANGED <<proc, setter, cb, cut, made>>
  BY DEF Path!Show, Drawn
<1> HIDE DEF at
<1>3. loop'.at = at /\ SameBlock(loop, loop') /\ loop'.frames = loop.frames + 1
  BY <1>1, <1>2 DEF Path!Turn, SameBlock
<1> QED
  BY <1>2, <1>3 DEF at

LEMMA SetterDoes ==
    ASSUME Safe, (\E span \in {Narrow, SampleRate} : Path!SetSpan(span))
                 \/ Path!SetSizes \/ Path!SetClear
    PROVE  /\ UNCHANGED <<loop, cb, made, columns>>
           /\ cut' = (cut \/ loop.at # "idle")
           /\ \/ /\ setter.at = "idle" /\ setter'.at = "sizes"
                 /\ SameMode(proc, proc') /\ SameQueue(proc, proc')
              \/ /\ setter.at = "sizes" /\ setter'.at = "clear" /\ SameQueue(proc, proc')
              \/ /\ setter.at = "clear" /\ setter'.at = "idle"
                 /\ proc'.head = 0 /\ proc'.tail = 0 /\ proc'.cnt = 0
<1>1. proc \in Path!Processor /\ setter \in Path!Change
  BY DEF Safe, Path!TypeOK
<1>2. CASE \E span \in {Narrow, SampleRate} : Path!SetSpan(span)
  <2>1. PICK span \in {Narrow, SampleRate} : Path!SetSpan(span)
    BY <1>2
  <2>2. SameMode(proc, proc') /\ SameQueue(proc, proc')
    BY <1>1, <2>1 DEF Path!SetSpan, Path!Processor, SameMode, SameQueue
  <2> QED
    BY <2>1, <2>2 DEF Path!SetSpan, Path!Overlap
<1>3. CASE Path!SetSizes
  <2> DEFINE w == IF Path!IsNarrow(setter.span) THEN AP_NARROW_FFT_N ELSE AP_WIDE_FFT_N
  <2>1. proc' = [proc EXCEPT !.fs = setter.span, !.fft = w]
    BY <1>3 DEF Path!SetSizes
  <2> HIDE DEF w
  <2>2. SameQueue(proc, proc')
    BY <1>1, <2>1 DEF Path!Processor, SameQueue
  <2>3. setter.at = "sizes" /\ setter' = [setter EXCEPT !.at = "clear"]
    BY <1>3 DEF Path!SetSizes
  <2>4. setter'.at = "clear"
    BY <1>1, <2>3 DEF Path!Change
  <2> QED
    BY <1>3, <2>2, <2>3, <2>4 DEF Path!SetSizes, Path!Overlap
<1>4. CASE Path!SetClear
  <2>1. proc' = [Path!ClearQueue(proc) EXCEPT !.fill = 0]
    BY <1>4 DEF Path!SetClear
  <2>2. proc'.head = 0 /\ proc'.tail = 0 /\ proc'.cnt = 0
    BY <1>1, <2>1 DEF Path!ClearQueue, Path!Processor
  <2>3. setter.at = "clear" /\ setter'.at = "idle"
    BY <1>4 DEF Path!SetClear
  <2> QED
    BY <1>4, <2>2, <2>3 DEF Path!SetClear, Path!Overlap
<1> QED
  BY <1>2, <1>3, <1>4

LEMMA IdleDoes ==
    ASSUME Path!Stream \/ Path!SetCallback
    PROVE  /\ UNCHANGED <<proc, loop, setter, cut, made, columns>>
           /\ cb => cb'
  BY DEF Path!Stream, Path!SetCallback

-----------------------------------------------------------------------------
(* The numbers of an undisturbed loop: how full the queue is at every place *)
(* of the loop.                                                            *)
Begun == \E k \in DOMAIN columns : columns[k].fresh

Turns ==
    /\ setter.at # "idle" => loop.at = "idle"
    /\ proc.cnt >= 0 /\ (loop.at \in {"head", "taken"} => proc.cnt >= 1)
    /\ loop.at \in {"process", "wide", "narrow", "fft", "push", "tail", "count"}
          => loop.frames = 0
    /\ loop.at \in {"pop", "head", "taken"} => loop.frames + proc.cnt <= AP_MAX_PENDING_SPEC
    /\ loop.at = "showFresh" => loop.frames + 1 + proc.cnt <= AP_MAX_PENDING_SPEC
    /\ loop.at = "show" => proc.cnt = 0
    /\ loop.at \in {"head", "taken", "show", "showFresh"} => cb

(* ... with room for all the block can still bring, once the waterfall has *)
(* begun: nothing is dropped then ...                                      *)
Units == loop.left \div Path!Decim

Room ==
    Begun =>
    /\ cb
    /\ loop.at \in {"idle", "process", "wide"} => proc.cnt = 0
    /\ loop.at \in {"push", "tail", "count"} /\ loop.wide => proc.cnt = 0
    /\ loop.at = "narrow" => proc.cnt + Units <= AP_MAX_PENDING_SPEC
    /\ loop.at = "fft" => proc.cnt + 1 + Units <= AP_MAX_PENDING_SPEC
    /\ loop.at \in {"push", "tail", "count"} /\ ~loop.wide
          => proc.cnt + 1 + Units <= AP_MAX_PENDING_SPEC

(* ... and a spectrum made by the block still in the queue until the       *)
(* callback has got one.                                                   *)
NewestKept ==
    /\ loop.at = "wide" => loop.wide
    /\ loop.at \in {"narrow", "fft"} => ~loop.wide
    /\ loop.at \in {"process", "wide"} => made < loop.first
    /\ loop.at \in {"narrow", "fft"} /\ made >= loop.first => proc.cnt >= 1
    /\ loop.at = "pop" /\ loop.frames = 0 /\ made >= loop.first => proc.cnt >= 1
    /\ loop.at = "show" => made < loop.first

Numbers == Turns /\ Room /\ NewestKept

LEMMA NumberTypes ==
    ASSUME Safe
    PROVE  /\ proc.cnt \in Int /\ proc.cnt <= AP_MAX_PENDING_SPEC /\ loop.at \in Ats
           /\ loop.frames \in Nat /\ loop.first \in Nat /\ made \in Nat
           /\ loop.left \in 0 .. Chunk /\ Units \in Nat /\ loop.wide \in BOOLEAN
           /\ loop.at # "idle" => loop.frames < AP_MAX_PENDING_SPEC
           /\ AP_MAX_PENDING_SPEC \in Nat \ {0}
<1>1. proc \in Path!Processor /\ loop \in Path!Turn /\ made \in Nat
  BY DEF Safe, Path!TypeOK
<1>2. /\ AP_MAX_PENDING_SPEC \in Nat \ {0} /\ Chunk \in Nat /\ Path!Decim \in Nat \ {0}
  BY Sizes, DecimSize
<1>3. proc.cnt \in -1 .. AP_MAX_PENDING_SPEC
  BY <1>1, ProcFields
<1>4. /\ loop.at \in Ats /\ loop.left \in 0 .. Chunk /\ loop.wide \in BOOLEAN
      /\ loop.frames \in 0 .. AP_MAX_PENDING_SPEC /\ loop.first \in Nat
  BY <1>1, LoopFields
<1>5. Units \in Nat
  BY <1>2, <1>4 DEF Units
<1>6. loop.at # "idle" => loop.frames < AP_MAX_PENDING_SPEC
  BY DEF Safe
<1> QED
  BY <1>1, <1>2, <1>3, <1>4, <1>5, <1>6

LEMMA OneUnitLess ==
    ASSUME NEW a \in Nat, NEW d \in Nat \ {0}, a >= d
    PROVE  (a - d) \div d + 1 = a \div d
<1> DEFINE q == a \div d
           r == a % d
<1>1. q \in Nat /\ r \in 0 .. d - 1 /\ a = d * q + r
  OBVIOUS
<1>2. q >= 1
  <2>1. SUFFICES ASSUME q = 0 PROVE FALSE
    BY <1>1
  <2>2. d * q = 0
    BY <1>1, <2>1
  <2> QED
    BY <1>1, <2>2
<1> HIDE DEF q, r
<1>3. a - d = d * (q - 1) + r
  BY <1>1
<1>4. (a - d) \div d = q - 1
  BY <1>1, <1>2, <1>3
<1> QED
  BY <1>1, <1>4 DEF q

LEMMA FewerUnits ==
    ASSUME NEW a \in Nat, NEW b \in Nat, NEW d \in Nat \ {0}, a <= b
    PROVE  a \div d <= b \div d
<1> DEFINE q == a \div d
           r == a % d
           u == b \div d
           v == b % d
<1>1. q \in Nat /\ r \in 0 .. d - 1 /\ a = d * q + r
  OBVIOUS
<1>2. u \in Nat /\ v \in 0 .. d - 1 /\ b = d * u + v
  OBVIOUS
<1> HIDE DEF q, r, u, v
<1>3. SUFFICES ASSUME u < q PROVE FALSE
  BY <1>1, <1>2 DEF q, u
<1>4. d * u + d <= d * q
  BY <1>1, <1>2, <1>3
<1> QED
  BY <1>1, <1>2, <1>4

LEMMA LoopKeepsCut == Path!LoopStep => cut' = cut
  BY DEF Path!LoopStep, Path!Process, Path!Wide, Path!NarrowUnit, Path!NarrowFft,
         Path!PushSlot, Path!PushTail, Path!PushCount, Path!Pop, Path!PopHead,
         Path!PopCount, Path!Show

LEMMA NumbersInit == Path!Init => Numbers
<1> SUFFICES ASSUME Path!Init PROVE Numbers
  OBVIOUS
<1>1. proc.cnt = 0 /\ loop.at = "idle" /\ setter.at = "idle" /\ columns = <<>>
  BY DEF Path!Init
<1>2. ~Begun
  BY <1>1 DEF Begun
<1> QED
  BY <1>1, <1>2 DEF Numbers, Turns, Room, NewestKept

(* A step of the loop between reading a block and the callback.            *)
LEMMA NumbersInLoop ==
    ASSUME Safe, Numbers, Path!LoopStep
    PROVE  Numbers'
<1>0. /\ proc.cnt \in Int /\ proc.cnt <= AP_MAX_PENDING_SPEC /\ loop.at \in Ats
      /\ loop.frames \in Nat /\ loop.first \in Nat /\ made \in Nat
      /\ loop.left \in 0 .. Chunk /\ Units \in Nat /\ loop.wide \in BOOLEAN
      /\ loop.at # "idle" => loop.frames < AP_MAX_PENDING_SPEC
      /\ AP_MAX_PENDING_SPEC \in Nat \ {0}
  BY NumberTypes
<1>1. Turns /\ Room /\ NewestKept
  BY DEF Numbers
<1>2. columns' = columns => (Begun' <=> Begun)
  BY DEF Begun
<1>3. loop'.left = loop.left => Units' = Units
  BY DEF Units, Path!Decim
<1>a. ASSUME Path!Transform(loop.n) \/ Path!Transform(proc.fft),
             loop.at \in {"wide", "fft"}, UNCHANGED <<setter, cb, columns>>
      PROVE  Numbers'
  <2>1. /\ made' = made + 1 /\ loop'.at = "push" /\ SameBlock(loop, loop')
        /\ loop'.frames = loop.frames /\ proc'.cnt = proc.cnt
    BY <1>a, TransformDoes DEF SameQueue
  <2>2. Turns'
    BY <1>0, <1>1, <1>a, <2>1 DEF Turns
  <2>3. Room'
    BY <1>0, <1>1, <1>2, <1>3, <1>a, <2>1 DEF Room, NewestKept, SameBlock
  <2>4. NewestKept'
    BY <2>1 DEF NewestKept
  <2> QED
    BY <2>2, <2>3, <2>4 DEF Numbers
<1>4. CASE Path!Process
  <2>1. /\ loop.at = "process" /\ loop'.at \in {"narrow", "wide"}
        /\ loop'.at = "wide" => loop'.wide
        /\ loop'.at = "narrow" => ~loop'.wide
        /\ loop'.left = loop.left /\ loop'.frames = loop.frames
        /\ loop'.first = loop.first
        /\ UNCHANGED <<proc, setter, cb, cut, made, columns>>
    BY <1>4, ProcessDoes
  <2>2. Turns'
    BY <1>0, <1>1, <2>1 DEF Turns
  <2>3. Units <= AP_MAX_PENDING_SPEC
    <3>1. Chunk \div Path!Decim <= AP_MAX_PENDING_SPEC
      BY BlocksAssumption DEF Path!PathAssumption, Path!Decim
    <3>2. Units <= Chunk \div Path!Decim
      BY <1>0, DecimSize, FewerUnits, Sizes DEF Units
    <3>3. Chunk \div Path!Decim \in Int
      BY DecimSize, Sizes
    <3> QED
      BY <1>0, <3>1, <3>2, <3>3
  <2>4. Room'
    BY <1>0, <1>1, <1>2, <1>3, <2>1, <2>3 DEF Room
  <2>5. NewestKept'
    BY <1>0, <1>1, <2>1 DEF NewestKept
  <2> QED
    BY <2>2, <2>4, <2>5 DEF Numbers
<1>5. CASE Path!Wide
  <2>1. CASE Path!Transform(loop.n)
    BY <1>5, <1>a, <2>1, WideDoes
  <2>2. CASE /\ loop'.at = "pop" /\ SameLocals(loop, loop') /\ made' = made
             /\ SameMode(proc, proc') /\ SameQueue(proc, proc')
    <3>1. /\ loop.at = "wide" /\ loop'.at = "pop" /\ made' = made /\ proc'.cnt = proc.cnt
          /\ loop'.frames = loop.frames /\ loop'.first = loop.first
          /\ loop'.left = loop.left /\ UNCHANGED <<setter, cb, columns>>
      BY <1>5, <2>2, WideDoes DEF SameLocals, SameBlock, SameQueue
    <3>2. Turns'
      BY <1>0, <1>1, <3>1 DEF Turns
    <3>3. Room'
      BY <1>0, <1>1, <1>2, <3>1 DEF Room
    <3>4. NewestKept'
      BY <1>0, <1>1, <3>1 DEF NewestKept
    <3> QED
      BY <3>2, <3>3, <3>4 DEF Numbers
  <2> QED
    BY <1>5, <2>1, <2>2, WideDoes
<1>6. CASE Path!NarrowUnit
  <2>1. /\ loop.at = "narrow" /\ UNCHANGED <<setter, cb, made, columns>>
        /\ proc'.cnt = proc.cnt /\ loop'.wide = loop.wide /\ loop'.first = loop.first
        /\ loop'.frames = loop.frames
        /\ \/ loop'.at = "pop"
           \/ /\ loop'.at \in {"fft", "narrow"} /\ loop.left >= Path!Decim
              /\ loop'.left = loop.left - Path!Decim
    BY <1>6, NarrowUnitDoes DEF SameQueue
  <2>2. loop'.at \in {"fft", "narrow"} => Units' + 1 = Units /\ Units' \in Int
    <3> SUFFICES ASSUME loop'.at \in {"fft", "narrow"}
                 PROVE  Units' + 1 = Units /\ Units' \in Int
      OBVIOUS
    <3>1. loop.left >= Path!Decim /\ loop'.left = loop.left - Path!Decim
      BY <2>1
    <3>2. loop.left \in Nat /\ Path!Decim \in Nat \ {0}
      BY <1>0, DecimSize, Sizes
    <3>3. (loop.left - Path!Decim) \div Path!Decim + 1 = loop.left \div Path!Decim
      BY <3>1, <3>2, OneUnitLess
    <3>4. (loop.left - Path!Decim) \div Path!Decim \in Int
      BY <3>1, <3>2
    <3>5. Units' = (loop.left - Path!Decim) \div Path!Decim
      BY <3>1 DEF Units, Path!Decim
    <3> QED
      BY <3>3, <3>4, <3>5 DEF Units
  <2>3. Turns'
    BY <1>0, <1>1, <2>1 DEF Turns
  <2>4. Room'
    BY <1>0, <1>1, <1>2, <2>1, <2>2 DEF Room
  <2>5. NewestKept'
    BY <1>0, <1>1, <2>1 DEF NewestKept
  <2> QED
    BY <2>3, <2>4, <2>5 DEF Numbers
<1>7. CASE Path!NarrowFft
  <2>1. CASE Path!Transform(proc.fft)
    BY <1>7, <1>a, <2>1, NarrowFftDoes
  <2>2. CASE loop'.at = "narrow" /\ SameLocals(loop, loop') /\ made' = made /\ proc' = proc
    <3>1. /\ loop.at = "fft" /\ loop'.at = "narrow" /\ made' = made /\ proc' = proc
          /\ loop'.frames = loop.frames /\ loop'.first = loop.first
          /\ loop'.left = loop.left /\ loop'.wide = loop.wide
          /\ UNCHANGED <<setter, cb, columns>>
      BY <1>7, <2>2, NarrowFftDoes DEF SameLocals, SameBlock
    <3>2. Turns'
      BY <1>0, <1>1, <3>1 DEF Turns
    <3>3. Room'
      BY <1>0, <1>1, <1>2, <1>3, <3>1 DEF Room
    <3>4. NewestKept'
      BY <1>0, <1>1, <3>1 DEF NewestKept
    <3> QED
      BY <3>2, <3>3, <3>4 DEF Numbers
  <2> QED
    BY <1>7, <2>1, <2>2, NarrowFftDoes
<1>8. CASE Path!PushSlot
  <2>1. /\ loop.at = "push" /\ loop'.at = "tail" /\ loop'.left = loop.left
        /\ loop'.wide = loop.wide /\ loop'.frames = loop.frames
        /\ UNCHANGED <<setter, cb, made, columns>>
        /\ IF proc.cnt >= AP_MAX_PENDING_SPEC THEN proc'.cnt = proc.cnt - 1
           ELSE proc'.cnt = proc.cnt
    BY <1>8, PushSlotDoes DEF SameLocals, SameBlock
  <2>2. Turns'
    BY <1>0, <1>1, <2>1 DEF Turns
  <2>3. Room'
    BY <1>0, <1>1, <1>2, <1>3, <2>1 DEF Room
  <2>4. NewestKept'
    BY <2>1 DEF NewestKept
  <2> QED
    BY <2>2, <2>3, <2>4 DEF Numbers
<1>9. CASE Path!PushTail
  <2>1. /\ loop.at = "tail" /\ loop'.at = "count" /\ loop'.left = loop.left
        /\ loop'.wide = loop.wide /\ loop'.frames = loop.frames
        /\ UNCHANGED <<setter, cb, made, columns>> /\ proc'.cnt = proc.cnt
    BY <1>9, PushTailDoes DEF SameLocals, SameBlock
  <2>2. Turns'
    BY <1>0, <1>1, <2>1 DEF Turns
  <2>3. Room'
    BY <1>0, <1>1, <1>2, <1>3, <2>1 DEF Room
  <2>4. NewestKept'
    BY <2>1 DEF NewestKept
  <2> QED
    BY <2>2, <2>3, <2>4 DEF Numbers
<1>10. CASE Path!PushCount
  <2>1. /\ loop.at = "count" /\ loop'.at = (IF loop.wide THEN "pop" ELSE "narrow")
        /\ loop'.left = loop.left /\ loop'.wide = loop.wide
        /\ loop'.frames = loop.frames /\ loop'.first = loop.first
        /\ UNCHANGED <<setter, cb, made, columns>> /\ proc'.cnt = proc.cnt + 1
    BY <1>10, PushCountDoes DEF SameLocals, SameBlock
  <2>2. proc.cnt < AP_MAX_PENDING_SPEC
    BY <2>1 DEF Safe
  <2>3. Turns'
    BY <1>0, <1>1, <2>1, <2>2 DEF Turns
  <2>4. Room'
    BY <1>0, <1>1, <1>2, <1>3, <2>1 DEF Room
  <2>5. NewestKept'
    BY <1>0, <1>1, <2>1 DEF NewestKept, Turns
  <2> QED
    BY <2>3, <2>4, <2>5 DEF Numbers
<1>11. CASE Path!Pop
  <2>1. /\ loop.at = "pop" /\ loop'.frames = loop.frames /\ loop'.first = loop.first
        /\ UNCHANGED <<proc, setter, cb, made, columns>>
        /\ \/ loop'.at = "idle" /\ (cb => proc.cnt <= 0)
           \/ loop'.at = "head" /\ cb /\ proc.cnt > 0
           \/ loop'.at = "show" /\ cb /\ proc.cnt <= 0 /\ loop.frames = 0
    BY <1>11, PopDoes DEF SameBlock
  <2>2. Turns'
    BY <1>0, <1>1, <2>1 DEF Turns
  <2>3. Room'
    BY <1>0, <1>1, <1>2, <2>1 DEF Room, Turns
  <2>4. NewestKept'
    BY <1>0, <1>1, <2>1 DEF NewestKept
  <2> QED
    BY <2>2, <2>3, <2>4 DEF Numbers
<1>12. CASE Path!PopHead \/ Path!PopCount
  <2>1. /\ \/ loop.at = "head" /\ loop'.at = "taken" /\ proc'.cnt = proc.cnt
           \/ loop.at = "taken" /\ loop'.at = "showFresh" /\ proc'.cnt = proc.cnt - 1
        /\ loop'.frames = loop.frames /\ UNCHANGED <<setter, cb, made, columns>>
    BY <1>12, PopHeadDoes, PopCountDoes DEF SameLocals
  <2>2. Turns'
    BY <1>0, <1>1, <2>1 DEF Turns
  <2>3. Room'
    BY <1>0, <1>1, <1>2, <2>1 DEF Room
  <2>4. NewestKept'
    BY <2>1 DEF NewestKept
  <2> QED
    BY <2>2, <2>3, <2>4 DEF Numbers
<1>13. CASE Path!Show
  <2>1. /\ loop.at \in {"show", "showFresh"} /\ UNCHANGED <<proc, setter, cb, made>>
        /\ loop'.at = (IF loop.at = "show" \/ loop.frames + 1 >= AP_MAX_PENDING_SPEC
                       THEN "idle" ELSE "pop")
        /\ loop'.frames = loop.frames + 1
    BY <1>13, ShowDoes
  <2>2. Turns'
    BY <1>0, <1>1, <2>1 DEF Turns
  <2>3. Room'
    BY <1>0, <1>1, <2>1 DEF Room, Turns
  <2>4. NewestKept'
    BY <1>0, <1>1, <2>1 DEF NewestKept
  <2> QED
    BY <2>2, <2>3, <2>4 DEF Numbers
<1> QED
  BY <1>4, <1>5, <1>6, <1>7, <1>8, <1>9, <1>10, <1>11, <1>12, <1>13 DEF Path!LoopStep

LEMMA NumbersKept ==
    ASSUME Safe, ~cut => Numbers, [Path!Next]_(Path!vars), ~cut'
    PROVE  Numbers'
<1>0. /\ proc.cnt \in Int /\ made \in Nat
  BY NumberTypes
<1>1. CASE Path!Stream \/ Path!SetCallback
  <2>1. /\ UNCHANGED <<proc, loop, setter, cut, made, columns>> /\ (cb => cb')
    BY <1>1, IdleDoes
  <2>2. Turns /\ Room /\ NewestKept
    BY <2>1 DEF Numbers
  <2>3. (Begun' <=> Begun) /\ Units' = Units
    BY <2>1 DEF Begun, Units, Path!Decim
  <2>4. Turns' /\ NewestKept'
    BY <2>1, <2>2 DEF Turns, NewestKept
  <2>5. Room'
    BY <2>1, <2>2, <2>3 DEF Room
  <2> QED
    BY <2>4, <2>5 DEF Numbers
<1>2. CASE (\E span \in {Narrow, SampleRate} : Path!SetSpan(span))
           \/ Path!SetSizes \/ Path!SetClear
  <2>1. /\ UNCHANGED <<loop, cb, made, columns>> /\ ~cut /\ loop.at = "idle"
        /\ proc'.cnt \in {proc.cnt, 0}
    BY <1>2, SetterDoes DEF SameQueue
  <2>2. Turns /\ Room
    BY <2>1 DEF Numbers
  <2>3. Begun' <=> Begun
    BY <2>1 DEF Begun
  <2>4. Turns' /\ NewestKept'
    BY <1>0, <2>1, <2>2 DEF Turns, NewestKept
  <2>5. Room'
    BY <1>0, <2>1, <2>2, <2>3 DEF Room
  <2> QED
    BY <2>4, <2>5 DEF Numbers
<1>3. CASE \E count \in 1 .. Chunk : Path!ReadBlock(count)
  <2>1. /\ loop.at = "idle" /\ loop'.at = "process" /\ loop'.frames = 0
        /\ loop'.first = made + 1 /\ ~cut /\ setter.at = "idle"
        /\ proc'.cnt \in {proc.cnt, 0}
        /\ UNCHANGED <<setter, cb, made, columns>>
    BY <1>3, ReadBlockDoes
  <2>2. Turns /\ Room
    BY <2>1 DEF Numbers
  <2>3. Begun' <=> Begun
    BY <2>1 DEF Begun
  <2>4. Turns' /\ NewestKept'
    BY <1>0, <2>1, <2>2 DEF Turns, NewestKept
  <2>5. Room'
    BY <1>0, <2>1, <2>2, <2>3 DEF Room
  <2> QED
    BY <2>4, <2>5 DEF Numbers
<1>4. CASE Path!LoopStep
  <2>1. cut' = cut
    BY <1>4, LoopKeepsCut
  <2> QED
    BY <1>4, <2>1, NumbersInLoop
<1>5. CASE UNCHANGED Path!vars
  <2>1. UNCHANGED <<proc, loop, setter, cut, made, columns, cb>>
    BY <1>5 DEF Path!vars
  <2>2. Turns /\ Room /\ NewestKept
    BY <2>1 DEF Numbers
  <2>3. (Begun' <=> Begun) /\ Units' = Units
    BY <2>1 DEF Begun, Units, Path!Decim
  <2>4. Turns' /\ NewestKept'
    BY <2>1, <2>2 DEF Turns, NewestKept
  <2>5. Room'
    BY <2>1, <2>2, <2>3 DEF Room
  <2> QED
    BY <2>4, <2>5 DEF Numbers
<1> QED
  BY <1>1, <1>2, <1>3, <1>4, <1>5 DEF Path!Next

-----------------------------------------------------------------------------
(* The queue of an undisturbed loop: the spectra in it follow each other up *)
(* to the last one computed, all of the transform in force, and tail is    *)
(* behind them.                                                            *)
Place(h, i) == IF h + i < AP_MAX_PENDING_SPEC THEN h + i ELSE h + i - AP_MAX_PENDING_SPEC

SpecOf(p, n) == [no |-> n, bins |-> IF p.real THEN p.fft \div 2 ELSE p.fft,
                 fs |-> p.fs, real |-> p.real]

Queued(p, h, k, last) ==
    \A i \in 1 .. k : p.pend[Place(h, i - 1)] = SpecOf(p, last - k + i)

LEMMA QueuedSame ==
    ASSUME NEW p, NEW q, NEW h, NEW k, NEW last,
           SameMode(p, q), q.pend = p.pend, Queued(p, h, k, last)
    PROVE  Queued(q, h, k, last)
<1>1. \A n : SpecOf(q, n) = SpecOf(p, n)
  BY DEF SameMode, SpecOf
<1> QED
  BY <1>1 DEF Queued

LEMMA QueuedNext ==
    ASSUME NEW p, NEW h \in Path!Slots, NEW k \in 1 .. AP_MAX_PENDING_SPEC, NEW last \in Int,
           Queued(p, h, k, last)
    PROVE  /\ Queued(p, Path!After(h), k - 1, last)
           /\ Place(Path!After(h), k - 1) = Place(h, k)
<1>1. /\ AP_MAX_PENDING_SPEC \in Nat \ {0} /\ h \in 0 .. AP_MAX_PENDING_SPEC - 1
      /\ Path!After(h) = IF h + 1 = AP_MAX_PENDING_SPEC THEN 0 ELSE h + 1
  BY Sizes, SlotTypes DEF Path!Slots
<1>2. \A i \in 1 .. AP_MAX_PENDING_SPEC : Place(Path!After(h), i - 1) = Place(h, i)
  BY <1>1 DEF Place
<1>3. ASSUME NEW i \in 1 .. k - 1
      PROVE  p.pend[Place(Path!After(h), i - 1)] = SpecOf(p, last - (k - 1) + i)
  <2>1. i + 1 \in 1 .. k /\ (i + 1) - 1 = i /\ last - k + (i + 1) = last - (k - 1) + i
    BY <1>1
  <2>2. p.pend[Place(h, (i + 1) - 1)] = SpecOf(p, last - k + (i + 1))
    BY <2>1 DEF Queued
  <2>3. Place(Path!After(h), i - 1) = Place(h, i)
    BY <1>1, <1>2
  <2> QED
    BY <2>1, <2>2, <2>3
<1> QED
  BY <1>1, <1>2, <1>3 DEF Queued

WrittenAt(p, q, at, s) ==
    \A x \in Path!Slots : q.pend[x] = IF x = at THEN s ELSE p.pend[x]

LEMMA QueuedPut ==
    ASSUME NEW p, NEW q, NEW h \in Path!Slots, NEW k \in 0 .. AP_MAX_PENDING_SPEC - 1,
           NEW last \in Int, NEW s, SameMode(p, q), Queued(p, h, k, last),
           WrittenAt(p, q, Place(h, k), s)
    PROVE  Queued(q, h, k, last) /\ q.pend[Place(h, k)] = s
<1>1. AP_MAX_PENDING_SPEC \in Nat \ {0} /\ h \in 0 .. AP_MAX_PENDING_SPEC - 1
  BY Sizes DEF Path!Slots
<1>2. Place(h, k) \in Path!Slots
  BY <1>1 DEF Place, Path!Slots
<1>3. \A i \in 1 .. k : Place(h, i - 1) # Place(h, k) /\ Place(h, i - 1) \in Path!Slots
  BY <1>1 DEF Place, Path!Slots
<1>4. \A n : SpecOf(q, n) = SpecOf(p, n)
  BY DEF SameMode, SpecOf
<1>5. \A i \in 1 .. k : q.pend[Place(h, i - 1)] = p.pend[Place(h, i - 1)]
  BY <1>3 DEF WrittenAt
<1>6. q.pend[Place(h, k)] = s
  BY <1>2 DEF WrittenAt
<1> QED
  BY <1>4, <1>5, <1>6 DEF Queued

LEMMA QueuedMore ==
    ASSUME NEW p, NEW h, NEW k \in Nat, NEW last \in Int,
           Queued(p, h, k, last), p.pend[Place(h, k)] = SpecOf(p, last + 1)
    PROVE  Queued(p, h, k + 1, last + 1)
<1> SUFFICES ASSUME NEW i \in 1 .. k + 1
             PROVE  p.pend[Place(h, i - 1)] = SpecOf(p, (last + 1) - (k + 1) + i)
  BY DEF Queued
<1>1. CASE i = k + 1
  <2>1. i - 1 = k /\ (last + 1) - (k + 1) + i = last + 1
    BY <1>1
  <2> QED
    BY <2>1
<1>2. CASE i # k + 1
  <2>1. i \in 1 .. k /\ (last + 1) - (k + 1) + i = last - k + i
    BY <1>2
  <2> QED
    BY <2>1 DEF Queued
<1> QED
  BY <1>1, <1>2

Pushed == IF loop.at \in {"push", "tail", "count"} THEN made - 1 ELSE made
Held   == IF loop.at = "taken" THEN proc.cnt - 1 ELSE proc.cnt

Lined ==
    setter.at # "clear" =>
    /\ Queued(proc, proc.head, Held, Pushed)
    /\ proc.tail = IF loop.at = "count" THEN Place(proc.head, Held + 1)
                   ELSE Place(proc.head, Held)
    /\ loop.at = "wide" => loop.n = proc.fft
    /\ loop.at \in {"push", "tail", "count"} => loop.spec = SpecOf(proc, made)
    /\ loop.at \in {"tail", "count"} => proc.pend[Place(proc.head, Held)] = loop.spec
    /\ loop.at \in {"head", "taken"} => loop.spec = SpecOf(proc, made - proc.cnt + 1)
    /\ loop.at = "showFresh" => loop.spec = SpecOf(proc, made - proc.cnt)

LEMMA LinedInit == Path!Init => Lined
<1> SUFFICES ASSUME Path!Init PROVE Lined
  OBVIOUS
<1>1. proc.cnt = 0 /\ proc.head = 0 /\ proc.tail = 0 /\ loop.at = "idle"
  BY DEF Path!Init
<1>2. AP_MAX_PENDING_SPEC \in Nat \ {0}
  BY Sizes
<1>3. Place(0, 0) = 0
  BY <1>2 DEF Place
<1> QED
  BY <1>1, <1>3 DEF Lined, Queued, Held

(* Steps that leave the queue alone between two places of the loop where   *)
(* nothing is in hand.                                                     *)
Quiet == {"idle", "process", "narrow", "fft", "pop", "show"}

LEMMA LinedQuiet ==
    ASSUME Safe, Lined, setter' = setter \/ (setter.at # "clear" /\ loop.at = "idle"),
           SameMode(proc, proc'), SameQueue(proc, proc'),
           made' = made, loop.at \in Quiet \cup {"wide", "showFresh"},
           loop'.at \in Quiet \/ (loop'.at = "wide" /\ loop'.n = proc.fft)
    PROVE  Lined'
<1> SUFFICES ASSUME setter'.at # "clear" PROVE Lined'
  BY DEF Lined
<1>1. setter.at # "clear"
  OBVIOUS
<1>2. /\ Held = proc.cnt /\ Pushed = made /\ Held' = proc.cnt /\ Pushed' = made
  BY DEF Held, Pushed, Quiet, SameQueue
<1>3. Queued(proc, proc.head, proc.cnt, made) /\ proc.tail = Place(proc.head, proc.cnt)
  BY <1>1, <1>2 DEF Lined, Quiet
<1>4. Queued(proc', proc.head, proc.cnt, made)
  BY <1>3, QueuedSame DEF SameQueue
<1> QED
  BY <1>2, <1>3, <1>4 DEF Lined, SameQueue, SameMode, Quiet

LEMMA LinedEmpty ==
    ASSUME made' \in Nat, proc'.head = 0, proc'.tail = 0, proc'.cnt = 0,
           loop'.at \in Quiet
    PROVE  Lined'
<1>1. Place(0, 0) = 0
  BY Sizes DEF Place
<1> QED
  BY <1>1 DEF Lined, Queued, Held, Pushed, Quiet

LEMMA LinedTransform ==
    ASSUME Safe, Lined, setter.at # "clear", setter' = setter, Path!Transform(proc.fft),
           loop.at \in {"wide", "fft"}
    PROVE  Lined'
<1>1. /\ made' = made + 1 /\ loop'.at = "push"
      /\ loop'.spec = [no |-> made + 1, bins |-> Path!Bins(proc.fft), fs |-> proc.fs,
                       real |-> proc.real]
      /\ SameMode(proc, proc') /\ SameQueue(proc, proc')
  BY TransformDoes
<1>2. made \in Nat
  BY NumberTypes
<1>3. Held = proc.cnt /\ Pushed = made /\ Held' = proc.cnt /\ Pushed' = made
  BY <1>1, <1>2 DEF Held, Pushed, SameQueue
<1>4. Queued(proc, proc.head, proc.cnt, made) /\ proc.tail = Place(proc.head, proc.cnt)
  BY <1>3 DEF Lined
<1>5. Queued(proc', proc.head, proc.cnt, made)
  BY <1>1, <1>4, QueuedSame DEF SameQueue
<1>6. loop'.spec = SpecOf(proc', made')
  BY <1>1 DEF SpecOf, Path!Bins, SameMode
<1> QED
  BY <1>1, <1>3, <1>4, <1>5, <1>6 DEF Lined, SameQueue

LEMMA LinedInLoop ==
    ASSUME Safe, Turns, Lined, Path!LoopStep
    PROVE  Lined'
<1>0. /\ proc.cnt \in Nat /\ proc.cnt <= AP_MAX_PENDING_SPEC /\ loop.at \in Ats
      /\ made \in Nat /\ AP_MAX_PENDING_SPEC \in Nat \ {0}
  BY NumberTypes DEF Turns
<1>1. /\ proc.head \in Path!Slots /\ proc.tail \in Path!Slots
      /\ proc.pend \in [Path!Slots -> Path!Spectrum]
  BY ProcFields DEF Safe, Path!TypeOK
<1>2. SUFFICES ASSUME loop.at # "idle", setter.at # "clear" PROVE Lined'
  <2>1. loop.at # "idle"
    BY DEF Path!LoopStep, Path!Process, Path!Wide, Path!NarrowUnit, Path!NarrowFft,
           Path!PushSlot, Path!PushTail, Path!PushCount, Path!Pop, Path!PopHead,
           Path!PopCount, Path!Show
  <2> QED
    BY <1>2, <2>1 DEF Turns
<1>3. CASE Path!Process
  BY <1>3, ProcessDoes, LinedQuiet DEF SameMode, SameQueue, Quiet
<1>4. CASE Path!Wide
  <2>1. loop.at = "wide" /\ setter' = setter /\ loop.n = proc.fft
    BY <1>2, <1>4, WideDoes DEF Lined
  <2>2. CASE Path!Transform(loop.n)
    BY <1>2, <2>1, <2>2, LinedTransform
  <2>3. CASE /\ loop'.at = "pop" /\ SameLocals(loop, loop') /\ made' = made
             /\ SameMode(proc, proc') /\ SameQueue(proc, proc')
    BY <2>1, <2>3, LinedQuiet DEF Quiet
  <2> QED
    BY <1>4, <2>2, <2>3, WideDoes
<1>5. CASE Path!NarrowUnit
  <2>1. /\ loop.at = "narrow" /\ loop'.at \in {"pop", "fft", "narrow"}
        /\ UNCHANGED <<setter, made>> /\ SameMode(proc, proc') /\ SameQueue(proc, proc')
    BY <1>5, NarrowUnitDoes
  <2> QED
    BY <2>1, LinedQuiet DEF Quiet
<1>6. CASE Path!NarrowFft
  <2>1. loop.at = "fft" /\ setter' = setter
    BY <1>6, NarrowFftDoes
  <2>2. CASE Path!Transform(proc.fft)
    BY <1>2, <2>1, <2>2, LinedTransform
  <2>3. CASE loop'.at = "narrow" /\ SameLocals(loop, loop') /\ made' = made /\ proc' = proc
    BY <2>1, <2>3, LinedQuiet DEF Quiet, SameMode, SameQueue
  <2> QED
    BY <1>6, <2>2, <2>3, NarrowFftDoes
<1>7. CASE Path!PushSlot
  <2>1. /\ loop.at = "push" /\ loop'.at = "tail" /\ loop'.spec = loop.spec
        /\ UNCHANGED <<setter, made>> /\ SameMode(proc, proc') /\ proc'.tail = proc.tail
        /\ proc'.pend = [proc.pend EXCEPT ![proc.tail] = loop.spec]
        /\ IF proc.cnt >= AP_MAX_PENDING_SPEC
           THEN proc'.cnt = proc.cnt - 1 /\ proc'.head = Path!After(proc.head)
           ELSE proc'.cnt = proc.cnt /\ proc'.head = proc.head
    BY <1>7, PushSlotDoes DEF SameLocals
  <2>2. Held = proc.cnt /\ Pushed = made - 1 /\ Held' = proc'.cnt /\ Pushed' = made - 1
    BY <2>1 DEF Held, Pushed
  <2>3. /\ Queued(proc, proc.head, proc.cnt, made - 1)
        /\ proc.tail = Place(proc.head, proc.cnt) /\ loop.spec = SpecOf(proc, made)
    BY <1>2, <2>1, <2>2 DEF Lined
  <2>4. /\ proc'.head \in Path!Slots /\ proc'.cnt \in 0 .. AP_MAX_PENDING_SPEC - 1
        /\ Queued(proc, proc'.head, proc'.cnt, made - 1)
        /\ proc.tail = Place(proc'.head, proc'.cnt)
    <3>1. CASE proc.cnt >= AP_MAX_PENDING_SPEC
      <4>1. proc.cnt = AP_MAX_PENDING_SPEC /\ proc.cnt \in 1 .. AP_MAX_PENDING_SPEC
        BY <1>0, <3>1
      <4>2. /\ Queued(proc, Path!After(proc.head), proc.cnt - 1, made - 1)
            /\ Place(Path!After(proc.head), proc.cnt - 1) = Place(proc.head, proc.cnt)
        BY <1>0, <1>1, <2>3, <4>1, QueuedNext
      <4>3. Path!After(proc.head) \in Path!Slots
        BY <1>1, SlotTypes
      <4> QED
        BY <1>0, <2>1, <2>3, <3>1, <4>1, <4>2, <4>3
    <3>2. CASE ~(proc.cnt >= AP_MAX_PENDING_SPEC)
      BY <1>0, <1>1, <2>1, <2>3, <3>2
    <3> QED
      BY <3>1, <3>2
  <2>5. /\ Queued(proc', proc'.head, proc'.cnt, made - 1)
        /\ proc'.pend[Place(proc'.head, proc'.cnt)] = loop.spec
    <3> DEFINE h == proc'.head
               k == proc'.cnt
    <3>1. WrittenAt(proc, proc', Place(h, k), loop.spec)
      BY <1>1, <2>1, <2>4 DEF WrittenAt
    <3>2. /\ h \in Path!Slots /\ k \in 0 .. AP_MAX_PENDING_SPEC - 1 /\ made - 1 \in Int
          /\ Queued(proc, h, k, made - 1) /\ SameMode(proc, proc')
      BY <1>0, <2>1, <2>4
    <3> HIDE DEF h, k
    <3>3. Queued(proc', h, k, made - 1) /\ proc'.pend[Place(h, k)] = loop.spec
      BY <1>1, <3>1, <3>2, QueuedPut
    <3> QED
      BY <3>3 DEF h, k
  <2>6. SpecOf(proc', made) = SpecOf(proc, made)
    BY <2>1 DEF SameMode, SpecOf
  <2> QED
    BY <2>1, <2>2, <2>3, <2>4, <2>5, <2>6 DEF Lined
<1>8. CASE Path!PushTail
  <2>1. /\ loop.at = "tail" /\ loop'.at = "count" /\ loop'.spec = loop.spec
        /\ UNCHANGED <<setter, made>> /\ SameMode(proc, proc')
        /\ proc'.tail = Path!After(proc.tail)
        /\ proc'.head = proc.head /\ proc'.cnt = proc.cnt /\ proc'.pend = proc.pend
    BY <1>8, PushTailDoes DEF SameLocals
  <2>2. Held = proc.cnt /\ Pushed = made - 1 /\ Held' = proc.cnt /\ Pushed' = made - 1
    BY <2>1 DEF Held, Pushed
  <2>3. /\ Queued(proc, proc.head, proc.cnt, made - 1)
        /\ proc.tail = Place(proc.head, proc.cnt) /\ loop.spec = SpecOf(proc, made)
        /\ proc.pend[Place(proc.head, proc.cnt)] = loop.spec
    BY <1>2, <2>1, <2>2 DEF Lined
  <2>4. proc.cnt < AP_MAX_PENDING_SPEC
    BY <2>1 DEF Safe
  <2>5. Path!After(Place(proc.head, proc.cnt)) = Place(proc.head, proc.cnt + 1)
    <3>1. proc.head \in 0 .. AP_MAX_PENDING_SPEC - 1
      BY <1>1 DEF Path!Slots
    <3>2. Place(proc.head, proc.cnt) \in Path!Slots
      BY <1>0, <2>4, <3>1 DEF Place, Path!Slots
    <3>3. Path!After(Place(proc.head, proc.cnt))
            = IF Place(proc.head, proc.cnt) + 1 = AP_MAX_PENDING_SPEC THEN 0
              ELSE Place(proc.head, proc.cnt) + 1
      BY <3>2, SlotTypes
    <3> QED
      BY <1>0, <2>4, <3>1, <3>3 DEF Place
  <2>6. Queued(proc', proc.head, proc.cnt, made - 1)
    BY <2>1, <2>3, QueuedSame
  <2>7. SpecOf(proc', made) = SpecOf(proc, made)
    BY <2>1 DEF SameMode, SpecOf
  <2> QED
    BY <2>1, <2>2, <2>3, <2>5, <2>6, <2>7 DEF Lined
<1>9. CASE Path!PushCount
  <2>1. /\ loop.at = "count" /\ loop'.at \in {"pop", "narrow"}
        /\ UNCHANGED <<setter, made>> /\ SameMode(proc, proc') /\ proc'.tail = proc.tail
        /\ proc'.head = proc.head /\ proc'.cnt = proc.cnt + 1 /\ proc'.pend = proc.pend
    BY <1>9, PushCountDoes
  <2>2. Held = proc.cnt /\ Pushed = made - 1 /\ Held' = proc.cnt + 1 /\ Pushed' = made
    BY <2>1 DEF Held, Pushed
  <2>3. /\ Queued(proc, proc.head, proc.cnt, made - 1)
        /\ proc.tail = Place(proc.head, proc.cnt + 1) /\ loop.spec = SpecOf(proc, made)
        /\ proc.pend[Place(proc.head, proc.cnt)] = loop.spec
    BY <1>2, <2>1, <2>2 DEF Lined
  <2>4. (made - 1) + 1 = made
    BY <1>0
  <2>5. Queued(proc, proc.head, proc.cnt + 1, (made - 1) + 1)
    BY <1>0, <2>3, <2>4, QueuedMore
  <2>6. Queued(proc', proc.head, proc.cnt + 1, made)
    BY <2>1, <2>4, <2>5, QueuedSame
  <2> QED
    BY <2>1, <2>2, <2>3, <2>6 DEF Lined
<1>10. CASE Path!Pop
  <2>1. /\ loop.at = "pop" /\ UNCHANGED <<proc, setter, made>>
        /\ \/ loop'.at \in {"idle", "show"}
           \/ loop'.at = "head" /\ proc.cnt > 0 /\ loop'.spec = proc.pend[proc.head]
    BY <1>10, PopDoes
  <2>2. Held = proc.cnt /\ Pushed = made /\ Held' = proc.cnt /\ Pushed' = made
    BY <2>1 DEF Held, Pushed
  <2>3. Queued(proc, proc.head, proc.cnt, made) /\ proc.tail = Place(proc.head, proc.cnt)
    BY <1>2, <2>1, <2>2 DEF Lined
  <2>4. loop'.at = "head" => loop'.spec = SpecOf(proc, made - proc.cnt + 1)
    <3>1. Place(proc.head, 1 - 1) = proc.head
      <4>1. proc.head \in 0 .. AP_MAX_PENDING_SPEC - 1
        BY <1>1 DEF Path!Slots
      <4>2. proc.head + 0 = proc.head /\ proc.head < AP_MAX_PENDING_SPEC /\ 1 - 1 = 0
        BY <1>0, <4>1
      <4> QED
        BY <4>2 DEF Place
    <3>2. proc.cnt > 0 => proc.pend[Place(proc.head, 1 - 1)] = SpecOf(proc, made - proc.cnt + 1)
      BY <1>0, <2>3 DEF Queued
    <3> QED
      BY <2>1, <3>1, <3>2
  <2> QED
    BY <2>1, <2>2, <2>3, <2>4 DEF Lined
<1>11. CASE Path!PopHead
  <2>1. /\ loop.at = "head" /\ loop'.at = "taken" /\ loop'.spec = loop.spec
        /\ UNCHANGED <<setter, made>> /\ SameMode(proc, proc')
        /\ proc'.head = Path!After(proc.head)
        /\ proc'.tail = proc.tail /\ proc'.cnt = proc.cnt /\ proc'.pend = proc.pend
    BY <1>11, PopHeadDoes DEF SameLocals
  <2>2. Held = proc.cnt /\ Pushed = made /\ Held' = proc.cnt - 1 /\ Pushed' = made
    BY <2>1 DEF Held, Pushed
  <2>3. /\ Queued(proc, proc.head, proc.cnt, made) /\ proc.tail = Place(proc.head, proc.cnt)
        /\ loop.spec = SpecOf(proc, made - proc.cnt + 1)
    BY <1>2, <2>1, <2>2 DEF Lined
  <2>4. proc.cnt \in 1 .. AP_MAX_PENDING_SPEC
    BY <1>0, <2>1 DEF Turns
  <2>5. /\ Queued(proc, Path!After(proc.head), proc.cnt - 1, made)
        /\ Place(Path!After(proc.head), proc.cnt - 1) = Place(proc.head, proc.cnt)
    BY <1>0, <1>1, <2>3, <2>4, QueuedNext
  <2>6. Queued(proc', Path!After(proc.head), proc.cnt - 1, made)
    BY <2>1, <2>5, QueuedSame
  <2>7. SpecOf(proc', made - proc.cnt + 1) = SpecOf(proc, made - proc.cnt + 1)
    BY <2>1 DEF SameMode, SpecOf
  <2> QED
    BY <2>1, <2>2, <2>3, <2>5, <2>6, <2>7 DEF Lined
<1>12. CASE Path!PopCount
  <2>1. /\ loop.at = "taken" /\ loop'.at = "showFresh" /\ loop'.spec = loop.spec
        /\ UNCHANGED <<setter, made>> /\ SameMode(proc, proc') /\ proc'.head = proc.head
        /\ proc'.tail = proc.tail /\ proc'.cnt = proc.cnt - 1 /\ proc'.pend = proc.pend
    BY <1>12, PopCountDoes DEF SameLocals
  <2>2. Held = proc.cnt - 1 /\ Pushed = made /\ Held' = proc.cnt - 1 /\ Pushed' = made
    BY <2>1 DEF Held, Pushed
  <2>3. /\ Queued(proc, proc.head, proc.cnt - 1, made)
        /\ proc.tail = Place(proc.head, proc.cnt - 1)
        /\ loop.spec = SpecOf(proc, made - proc.cnt + 1)
    BY <1>2, <2>1, <2>2 DEF Lined
  <2>4. Queued(proc', proc.head, proc.cnt - 1, made)
    BY <2>1, <2>3, QueuedSame
  <2>5. made' - proc'.cnt = made - proc.cnt + 1
    BY <1>0, <2>1
  <2>6. SpecOf(proc', made - proc.cnt + 1) = SpecOf(proc, made - proc.cnt + 1)
    BY <2>1 DEF SameMode, SpecOf
  <2> QED
    BY <2>1, <2>2, <2>3, <2>4, <2>5, <2>6 DEF Lined
<1>13. CASE Path!Show
  <2>1. /\ loop.at \in {"show", "showFresh"} /\ loop'.at \in {"idle", "pop"}
        /\ UNCHANGED <<proc, setter, made>>
    BY <1>13, ShowDoes
  <2> QED
    BY <2>1, LinedQuiet DEF Quiet, SameMode, SameQueue
<1> QED
  BY <1>3, <1>4, <1>5, <1>6, <1>7, <1>8, <1>9, <1>10, <1>11, <1>12, <1>13 DEF Path!LoopStep

LEMMA LinedKept ==
    ASSUME Safe, ~cut => Turns /\ Lined, [Path!Next]_(Path!vars), ~cut'
    PROVE  Lined'
<1>1. CASE Path!Stream \/ Path!SetCallback
  <2>1. UNCHANGED <<proc, loop, setter, cut, made>>
    BY <1>1, IdleDoes
  <2> QED
    BY <2>1 DEF Lined, Held, Pushed, Queued
<1>2. CASE (\E span \in {Narrow, SampleRate} : Path!SetSpan(span))
           \/ Path!SetSizes \/ Path!SetClear
  <2>1. /\ UNCHANGED <<loop, made>> /\ ~cut /\ loop.at = "idle"
        /\ \/ /\ setter.at = "idle" /\ SameMode(proc, proc') /\ SameQueue(proc, proc')
           \/ setter'.at = "clear"
           \/ proc'.head = 0 /\ proc'.tail = 0 /\ proc'.cnt = 0
    BY <1>2, SetterDoes
  <2>2. CASE setter.at = "idle" /\ SameMode(proc, proc') /\ SameQueue(proc, proc')
    BY <2>1, <2>2, LinedQuiet DEF Quiet
  <2>3. CASE setter'.at = "clear"
    BY <2>3 DEF Lined
  <2>4. CASE proc'.head = 0 /\ proc'.tail = 0 /\ proc'.cnt = 0
    BY <2>1, <2>4, LinedEmpty, NumberTypes DEF Quiet
  <2> QED
    BY <2>1, <2>2, <2>3, <2>4
<1>3. CASE \E count \in 1 .. Chunk : Path!ReadBlock(count)
  <2>1. /\ loop.at = "idle" /\ loop'.at = "process" /\ ~cut /\ setter' = setter
        /\ made' = made
        /\ proc' = proc \/ (proc'.head = 0 /\ proc'.tail = 0 /\ proc'.cnt = 0)
    BY <1>3, ReadBlockDoes
  <2>2. CASE proc' = proc
    BY <2>1, <2>2, LinedQuiet DEF Quiet, SameMode, SameQueue
  <2>3. CASE proc'.head = 0 /\ proc'.tail = 0 /\ proc'.cnt = 0
    BY <2>1, <2>3, LinedEmpty, NumberTypes DEF Quiet
  <2> QED
    BY <2>1, <2>2, <2>3
<1>4. CASE Path!LoopStep
  <2>1. cut' = cut
    BY <1>4, LoopKeepsCut
  <2> QED
    BY <1>4, <2>1, LinedInLoop
<1>5. CASE UNCHANGED Path!vars
  <2>1. UNCHANGED <<proc, loop, setter, cut, made>>
    BY <1>5 DEF Path!vars
  <2> QED
    BY <2>1 DEF Lined, Held, Pushed, Queued
<1> QED
  BY <1>1, <1>2, <1>3, <1>4, <1>5 DEF Path!Next

-----------------------------------------------------------------------------
(* The columns of an undisturbed loop: the last fresh one is the spectrum  *)
(* before the first that is still to come, and all follow each other.      *)
LastNo == IF loop.at = "showFresh" THEN made - proc.cnt - 1 ELSE Pushed - proc.cnt

LastFresh ==
    \A k \in DOMAIN columns :
        columns[k].fresh /\ (\A m \in k + 1 .. Len(columns) : ~columns[m].fresh)
            => columns[k].spec.no = LastNo

InOrder ==
    \A k, l \in DOMAIN columns :
        Path!Neighbours(k, l) => columns[l].spec.no = columns[k].spec.no + 1

OnAxis ==
    \A k \in DOMAIN columns :
        columns[k].fresh => columns[k].axis = Path!Span(columns[k].spec)

Drawing == LastFresh /\ InOrder /\ OnAxis

LEMMA DrawingSame ==
    ASSUME Drawing, columns' = columns, Begun => LastNo' = LastNo
    PROVE  Drawing'
<1>1. LastFresh'
  BY DEF Drawing, LastFresh, Begun
<1>2. InOrder'
  BY DEF Drawing, InOrder, Path!Neighbours
<1>3. OnAxis'
  BY DEF Drawing, OnAxis, Path!Span
<1> QED
  BY <1>1, <1>2, <1>3 DEF Drawing

(* The bins of a transform, each as wide as the mode says, are the span.   *)
LEMMA Exact == ASSUME NEW a \in Nat \ {0}, NEW x \in Nat PROVE (a * x) \div a = x
<1> DEFINE y == a * x
           q == y \div a
           r == y % a
<1>1. y \in Nat
  OBVIOUS
<1>2. q \in Nat /\ r \in 0 .. a - 1 /\ y = a * q + r
  <2> HIDE DEF y
  <2> QED
    BY <1>1
<1> HIDE DEF q, r
<1>3. a * x = a * q + r
  BY <1>2
<1>4. ~(q < x)
  <2> SUFFICES ASSUME q < x PROVE FALSE
    OBVIOUS
  <2>1. q + 1 <= x
    BY <1>2
  <2>2. a * (q + 1) <= a * x
    BY <1>2, <2>1
  <2> QED
    BY <1>2, <1>3, <2>2
<1>5. ~(q > x)
  <2> SUFFICES ASSUME q > x PROVE FALSE
    OBVIOUS
  <2>1. x + 1 <= q
    BY <1>2
  <2>2. a * (x + 1) <= a * q
    BY <1>2, <2>1
  <2> QED
    BY <1>2, <1>3, <2>2
<1>6. q = x
  BY <1>2, <1>4, <1>5
<1> QED
  BY <1>6 DEF q

LEMMA Halves ==
    ASSUME NEW n \in Nat, NEW w \in Nat, NEW fs \in Nat,
           \E h \in Nat \ {0}, q \in Nat : n = 2 * h /\ w = 2 * h * q
    PROVE  /\ n * ((fs * w) \div n) = fs * w
           /\ (n \div 2) * ((fs * w) \div n) = (fs * w) \div 2
<1> PICK h \in Nat \ {0}, q \in Nat : n = 2 * h /\ w = 2 * h * q
  OBVIOUS
<1> DEFINE x == fs * q
           y == h * x
<1>1. x \in Nat /\ 2 * h \in Nat \ {0}
  OBVIOUS
<1>2. fs * w = (2 * h) * x
  OBVIOUS
<1> HIDE DEF x
<1>3. y \in Nat /\ (2 * h) * x = 2 * y
  BY <1>1
<1>4. ((2 * h) * x) \div (2 * h) = x
  <2> DEFINE a == 2 * h
  <2>1. a \in Nat \ {0} /\ a = n
    BY <1>1
  <2> HIDE DEF a
  <2>2. (a * x) \div a = x
    BY <1>1, <2>1, Exact
  <2> QED
    BY <2>2 DEF a
<1> HIDE DEF y
<1>5. (2 * y) \div 2 = y
  BY <1>3
<1>6. n \div 2 = h
  OBVIOUS
<1>7. fs * w = 2 * y
  BY <1>2, <1>3
<1>8. (fs * w) \div n = x
  BY <1>2, <1>4
<1>9. n * x = fs * w
  BY <1>2
<1> QED
  BY <1>5, <1>6, <1>7, <1>8, <1>9 DEF y

LEMMA FftSizes ==
    ASSUME NEW n \in {AP_WIDE_FFT_N, AP_NARROW_FFT_N}
    PROVE  \E h \in Nat \ {0}, q \in Nat : n = 2 * h /\ AP_WIDE_FFT_N = 2 * h * q
<1>1. AP_WIDE_FFT_N \in Nat \ {0} /\ AP_NARROW_FFT_N \in Nat \ {0}
  BY Sizes
<1>2. AP_NARROW_FFT_N % 2 = 0 /\ AP_WIDE_FFT_N % AP_NARROW_FFT_N = 0
  BY BlocksAssumption DEF Path!PathAssumption
<1> DEFINE h == AP_NARROW_FFT_N \div 2
           q == AP_WIDE_FFT_N \div AP_NARROW_FFT_N
<1>3. h \in Nat /\ AP_NARROW_FFT_N = 2 * h
  BY <1>1, <1>2
<1>4. q \in Nat /\ AP_WIDE_FFT_N = AP_NARROW_FFT_N * q
  BY <1>1, <1>2
<1> HIDE DEF h, q
<1>5. h \in Nat \ {0} /\ q \in Nat \ {0} /\ AP_WIDE_FFT_N = 2 * h * q
  BY <1>1, <1>3, <1>4
<1>6. CASE n = AP_NARROW_FFT_N
  BY <1>3, <1>5, <1>6
<1>7. CASE n = AP_WIDE_FFT_N
  <2>1. h * q \in Nat \ {0} /\ n = 2 * (h * q) /\ AP_WIDE_FFT_N = 2 * (h * q) * 1
    BY <1>5, <1>7
  <2> QED
    BY <2>1
<1> QED
  BY <1>6, <1>7

LEMMA AxisIsSpan ==
    ASSUME Safe, NEW n, loop.spec = SpecOf(proc, n)
    PROVE  Path!Axis(loop.spec.bins) = Path!Span(loop.spec)
<1>1. /\ proc.fft \in {AP_WIDE_FFT_N, AP_NARROW_FFT_N} /\ proc.fs \in Nat
      /\ proc.real \in BOOLEAN
  BY ProcFields, Sizes DEF Safe, Path!TypeOK
<1>2. \E h \in Nat \ {0}, q \in Nat : proc.fft = 2 * h /\ AP_WIDE_FFT_N = 2 * h * q
  BY <1>1, FftSizes
<1>3. AP_WIDE_FFT_N \in Nat /\ proc.fft \in Nat
  BY <1>1, Sizes
<1> DEFINE a == (proc.fs * AP_WIDE_FFT_N) \div proc.fft
           h == proc.fft \div 2
<1>4. /\ proc.fft * a = proc.fs * AP_WIDE_FFT_N
      /\ h * a = (proc.fs * AP_WIDE_FFT_N) \div 2
  BY <1>1, <1>2, <1>3, Halves
<1>6. (proc.fs * AP_WIDE_FFT_N) \div 1 = proc.fs * AP_WIDE_FFT_N
  BY <1>1, <1>3
<1>7. /\ loop.spec.bins = IF proc.real THEN h ELSE proc.fft
      /\ loop.spec.fs = proc.fs /\ loop.spec.real = proc.real
  BY DEF SpecOf
<1>8. Path!Axis(loop.spec.bins) = loop.spec.bins * a
  BY DEF Path!Axis
<1> HIDE DEF a, h
<1>9. CASE proc.real
  <2>1. Path!Span(loop.spec) = (proc.fs * AP_WIDE_FFT_N) \div 2
    BY <1>7, <1>9 DEF Path!Span
  <2> QED
    BY <1>4, <1>7, <1>8, <1>9, <2>1
<1>10. CASE ~proc.real
  <2>1. Path!Span(loop.spec) = (proc.fs * AP_WIDE_FFT_N) \div 1
    BY <1>7, <1>10 DEF Path!Span
  <2> QED
    BY <1>4, <1>6, <1>7, <1>8, <1>10, <2>1
<1> QED
  BY <1>1, <1>9, <1>10

LEMMA DrawingAppend ==
    ASSUME Drawing, NEW c, columns \in Seq(Path!Column), c \in Path!Column,
           columns' = Append(columns, c), LastNo \in Int,
           c.fresh => /\ c.spec.no = LastNo + 1 /\ LastNo' = LastNo + 1
                      /\ c.axis = Path!Span(c.spec),
           ~c.fresh => LastNo' = LastNo
    PROVE  Drawing'
<1> DEFINE n == Len(columns)
<1>1. /\ n \in Nat /\ Len(columns') = n + 1 /\ DOMAIN columns = 1 .. n
      /\ DOMAIN columns' = 1 .. n + 1 /\ columns'[n + 1] = c
      /\ \A i \in 1 .. n : columns'[i] = columns[i]
  OBVIOUS
<1> HIDE DEF n
<1>2. LastFresh'
  <2> SUFFICES ASSUME NEW k \in 1 .. n + 1, columns'[k].fresh,
                      \A m \in k + 1 .. n + 1 : ~columns'[m].fresh
               PROVE  columns'[k].spec.no = LastNo'
    BY <1>1 DEF LastFresh
  <2>1. CASE k = n + 1
    BY <1>1, <2>1
  <2>2. CASE k \in 1 .. n
    <3>1. n + 1 \in k + 1 .. n + 1
      BY <1>1, <2>2
    <3>2. ~c.fresh
      BY <1>1, <3>1
    <3>3. \A m \in k + 1 .. n : ~columns[m].fresh
      BY <1>1, <2>2
    <3>4. columns[k].spec.no = LastNo
      BY <1>1, <2>2, <3>3 DEF Drawing, LastFresh, n
    <3> QED
      BY <1>1, <2>2, <3>2, <3>4
  <2> QED
    BY <1>1, <2>1, <2>2
<1>3. InOrder'
  <2> SUFFICES ASSUME NEW k \in 1 .. n + 1, NEW l \in 1 .. n + 1,
                      k < l, columns'[k].fresh, columns'[l].fresh,
                      \A m \in k + 1 .. l - 1 : ~columns'[m].fresh
               PROVE  columns'[l].spec.no = columns'[k].spec.no + 1
    BY <1>1 DEF InOrder, Path!Neighbours
  <2>1. k \in 1 .. n
    BY <1>1
  <2>2. CASE l \in 1 .. n
    <3>1. \A m \in k + 1 .. l - 1 : ~columns[m].fresh
      BY <1>1, <2>1, <2>2
    <3>2. Path!Neighbours(k, l)
      BY <1>1, <2>1, <2>2, <3>1 DEF Path!Neighbours
    <3>3. columns[l].spec.no = columns[k].spec.no + 1
      BY <1>1, <2>1, <2>2, <3>2 DEF Drawing, InOrder
    <3> QED
      BY <1>1, <2>1, <2>2, <3>3
  <2>3. CASE l = n + 1
    <3>1. \A m \in k + 1 .. n : ~columns[m].fresh
      BY <1>1, <2>1, <2>3
    <3>2. columns[k].spec.no = LastNo
      BY <1>1, <2>1, <3>1 DEF Drawing, LastFresh, n
    <3>3. columns'[l].spec.no = LastNo + 1
      BY <1>1, <2>3
    <3> QED
      BY <1>1, <2>1, <3>2, <3>3
  <2> QED
    BY <1>1, <2>2, <2>3
<1>4. OnAxis'
  <2> SUFFICES ASSUME NEW k \in 1 .. n + 1, columns'[k].fresh
               PROVE  columns'[k].axis = Path!Span(columns'[k].spec)
    BY <1>1 DEF OnAxis, Path!Span
  <2>1. CASE k = n + 1
    BY <1>1, <2>1
  <2>2. CASE k \in 1 .. n
    BY <1>1, <2>2 DEF Drawing, OnAxis
  <2> QED
    BY <1>1, <2>1, <2>2
<1> QED
  BY <1>2, <1>3, <1>4 DEF Drawing

LEMMA DrawingInit == Path!Init => Drawing
  BY DEF Path!Init, Drawing, LastFresh, InOrder, OnAxis

(* A step of the loop: only the callback adds a column, and once it has got *)
(* one the number of the next changes with it alone.                       *)
LEMMA DrawingInLoop ==
    ASSUME Safe, Numbers, Lined, Drawing, Path!LoopStep
    PROVE  Drawing'
<1>0. /\ proc.cnt \in Int /\ made \in Int /\ AP_MAX_PENDING_SPEC \in Nat \ {0}
      /\ Units \in Nat /\ loop.wide \in BOOLEAN
  BY NumberTypes
<1>1. Turns /\ Room
  BY DEF Numbers
<1>a. ASSUME NEW n, Path!Transform(n), loop.at \in {"wide", "fft"}, columns' = columns
      PROVE  Drawing'
  <2>1. made' = made + 1 /\ loop'.at = "push" /\ proc'.cnt = proc.cnt
    BY <1>a, TransformDoes DEF SameQueue
  <2>2. LastNo' = LastNo
    BY <1>0, <1>a, <2>1 DEF LastNo, Pushed
  <2> QED
    BY <1>a, <2>2, DrawingSame
<1>2. CASE Path!Process
  <2>1. /\ loop.at = "process" /\ loop'.at \in {"narrow", "wide"}
        /\ UNCHANGED <<proc, made, columns>>
    BY <1>2, ProcessDoes
  <2>2. LastNo' = LastNo
    BY <2>1 DEF LastNo, Pushed
  <2> QED
    BY <2>1, <2>2, DrawingSame
<1>3. CASE Path!Wide
  <2>1. loop.at = "wide" /\ columns' = columns
    BY <1>3, WideDoes
  <2>2. CASE Path!Transform(loop.n)
    BY <1>a, <2>1, <2>2
  <2>3. CASE /\ loop'.at = "pop" /\ SameLocals(loop, loop') /\ made' = made
             /\ SameMode(proc, proc') /\ SameQueue(proc, proc')
    <3>1. LastNo' = LastNo
      BY <2>1, <2>3 DEF LastNo, Pushed, SameQueue
    <3> QED
      BY <2>1, <3>1, DrawingSame
  <2> QED
    BY <1>3, <2>2, <2>3, WideDoes
<1>4. CASE Path!NarrowUnit
  <2>1. /\ loop.at = "narrow" /\ loop'.at \in {"pop", "fft", "narrow"}
        /\ UNCHANGED <<made, columns>> /\ proc'.cnt = proc.cnt
    BY <1>4, NarrowUnitDoes DEF SameQueue
  <2>2. LastNo' = LastNo
    BY <2>1 DEF LastNo, Pushed
  <2> QED
    BY <2>1, <2>2, DrawingSame
<1>5. CASE Path!NarrowFft
  <2>1. loop.at = "fft" /\ columns' = columns
    BY <1>5, NarrowFftDoes
  <2>2. CASE Path!Transform(proc.fft)
    BY <1>a, <2>1, <2>2
  <2>3. CASE loop'.at = "narrow" /\ SameLocals(loop, loop') /\ made' = made /\ proc' = proc
    <3>1. LastNo' = LastNo
      BY <2>1, <2>3 DEF LastNo, Pushed
    <3> QED
      BY <2>1, <3>1, DrawingSame
  <2> QED
    BY <1>5, <2>2, <2>3, NarrowFftDoes
<1>6. CASE Path!PushSlot
  <2>1. /\ loop.at = "push" /\ loop'.at = "tail" /\ UNCHANGED <<made, columns>>
        /\ ~(proc.cnt >= AP_MAX_PENDING_SPEC) => proc'.cnt = proc.cnt
    BY <1>6, PushSlotDoes
  <2>2. Begun => ~(proc.cnt >= AP_MAX_PENDING_SPEC)
    BY <1>0, <1>1, <2>1 DEF Room
  <2>3. Begun => LastNo' = LastNo
    BY <2>1, <2>2 DEF LastNo, Pushed
  <2> QED
    BY <2>1, <2>3, DrawingSame
<1>7. CASE Path!PushTail
  <2>1. /\ loop.at = "tail" /\ loop'.at = "count" /\ UNCHANGED <<made, columns>>
        /\ proc'.cnt = proc.cnt
    BY <1>7, PushTailDoes
  <2>2. LastNo' = LastNo
    BY <2>1 DEF LastNo, Pushed
  <2> QED
    BY <2>1, <2>2, DrawingSame
<1>8. CASE Path!PushCount
  <2>1. /\ loop.at = "count" /\ loop'.at \in {"pop", "narrow"}
        /\ UNCHANGED <<made, columns>> /\ proc'.cnt = proc.cnt + 1
    BY <1>8, PushCountDoes
  <2>2. LastNo' = LastNo
    BY <1>0, <2>1 DEF LastNo, Pushed
  <2> QED
    BY <2>1, <2>2, DrawingSame
<1>9. CASE Path!Pop
  <2>1. /\ loop.at = "pop" /\ loop'.at \in {"idle", "head", "show"}
        /\ UNCHANGED <<proc, made, columns>>
    BY <1>9, PopDoes
  <2>2. LastNo' = LastNo
    BY <2>1 DEF LastNo, Pushed
  <2> QED
    BY <2>1, <2>2, DrawingSame
<1>10. CASE Path!PopHead
  <2>1. /\ loop.at = "head" /\ loop'.at = "taken" /\ UNCHANGED <<made, columns>>
        /\ proc'.cnt = proc.cnt
    BY <1>10, PopHeadDoes
  <2>2. LastNo' = LastNo
    BY <2>1 DEF LastNo, Pushed
  <2> QED
    BY <2>1, <2>2, DrawingSame
<1>11. CASE Path!PopCount
  <2>1. /\ loop.at = "taken" /\ loop'.at = "showFresh" /\ UNCHANGED <<made, columns>>
        /\ proc'.cnt = proc.cnt - 1
    BY <1>11, PopCountDoes
  <2>2. LastNo' = LastNo
    BY <1>0, <2>1 DEF LastNo, Pushed
  <2> QED
    BY <2>1, <2>2, DrawingSame
<1>12. CASE Path!Show
  <2>1. /\ loop.at \in {"show", "showFresh"} /\ loop'.at \in {"idle", "pop"}
        /\ columns' = Append(columns, Drawn) /\ UNCHANGED <<proc, made>>
    BY <1>12, ShowDoes
  <2>2. LastNo \in Int
    BY <1>0, <2>1 DEF LastNo, Pushed
  <2>3. columns \in Seq(Path!Column) /\ Drawn \in Path!Column
    <3>1. loop.spec \in Path!Spectrum
      BY LoopFields DEF Safe, Path!TypeOK
    <3>2. Path!Axis(loop.spec.bins) \in Nat
      BY <3>1, AxisType DEF Safe
    <3>3. Drawn \in Path!Column
      BY <3>1, <3>2 DEF Drawn, Path!Column
    <3> QED
      BY <3>3 DEF Safe, Path!TypeOK
  <2>4. Drawn.fresh => /\ Drawn.spec.no = LastNo + 1 /\ LastNo' = LastNo + 1
                       /\ Drawn.axis = Path!Span(Drawn.spec)
    <3> SUFFICES ASSUME loop.at = "showFresh"
                 PROVE  /\ Drawn.spec.no = LastNo + 1 /\ LastNo' = LastNo + 1
                        /\ Drawn.axis = Path!Span(Drawn.spec)
      BY DEF Drawn
    <3>1. loop.spec = SpecOf(proc, made - proc.cnt)
      BY <1>1 DEF Turns, Lined
    <3>2. Path!Axis(loop.spec.bins) = Path!Span(loop.spec)
      BY <3>1, AxisIsSpan
    <3>3. Drawn.spec.no = made - proc.cnt
      BY <3>1 DEF Drawn, SpecOf
    <3>4. LastNo = made - proc.cnt - 1 /\ LastNo' = made - proc.cnt
      BY <2>1 DEF LastNo, Pushed
    <3>5. Drawn.axis = Path!Span(Drawn.spec)
      BY <3>2 DEF Drawn
    <3> QED
      BY <1>0, <3>3, <3>4, <3>5
  <2>5. ~Drawn.fresh => LastNo' = LastNo
    BY <2>1 DEF Drawn, LastNo, Pushed
  <2> HIDE DEF Drawn
  <2> QED
    BY <2>1, <2>2, <2>3, <2>4, <2>5, DrawingAppend
<1> QED
  BY <1>2, <1>3, <1>4, <1>5, <1>6, <1>7, <1>8, <1>9, <1>10, <1>11, <1>12 DEF Path!LoopStep

LEMMA DrawingKept ==
    ASSUME Safe, ~cut => Numbers /\ Lined /\ Drawing, [Path!Next]_(Path!vars), ~cut'
    PROVE  Drawing'
<1>0. proc.cnt \in Int /\ made \in Int
  BY NumberTypes
<1>1. CASE Path!Stream \/ Path!SetCallback
  <2>1. UNCHANGED <<proc, loop, cut, made, columns>>
    BY <1>1, IdleDoes
  <2>2. LastNo' = LastNo
    BY <2>1 DEF LastNo, Pushed
  <2> QED
    BY <2>1, <2>2, DrawingSame
<1>2. CASE (\E span \in {Narrow, SampleRate} : Path!SetSpan(span))
           \/ Path!SetSizes \/ Path!SetClear
  <2>1. /\ UNCHANGED <<loop, made, columns>> /\ ~cut /\ loop.at = "idle"
        /\ proc'.cnt \in {proc.cnt, 0}
    BY <1>2, SetterDoes DEF SameQueue
  <2>2. Begun => proc.cnt = 0
    BY <2>1 DEF Numbers, Room
  <2>3. Begun => LastNo' = LastNo
    BY <2>1, <2>2 DEF LastNo, Pushed
  <2> QED
    BY <2>1, <2>3, DrawingSame
<1>3. CASE \E count \in 1 .. Chunk : Path!ReadBlock(count)
  <2>1. /\ loop.at = "idle" /\ loop'.at = "process" /\ ~cut
        /\ proc'.cnt \in {proc.cnt, 0} /\ UNCHANGED <<made, columns>>
    BY <1>3, ReadBlockDoes
  <2>2. Begun => proc.cnt = 0
    BY <2>1 DEF Numbers, Room
  <2>3. Begun => LastNo' = LastNo
    BY <2>1, <2>2 DEF LastNo, Pushed
  <2> QED
    BY <2>1, <2>3, DrawingSame
<1>4. CASE Path!LoopStep
  <2>1. cut' = cut
    BY <1>4, LoopKeepsCut
  <2> QED
    BY <1>4, <2>1, DrawingInLoop
<1>5. CASE UNCHANGED Path!vars
  <2>1. UNCHANGED <<proc, loop, cut, made, columns>>
    BY <1>5 DEF Path!vars
  <2>2. LastNo' = LastNo
    BY <2>1 DEF LastNo, Pushed
  <2> QED
    BY <2>1, <2>2, DrawingSame
<1> QED
  BY <1>1, <1>2, <1>3, <1>4, <1>5 DEF Path!Next

-----------------------------------------------------------------------------
(* The inductive invariant of the path: the types and bounds hold whatever *)
(* happens, the rest until a change of the span meets a block in work.     *)
PathInv == Safe /\ (~cut => Numbers /\ Lined /\ Drawing)

LEMMA PathInvariant == BlocksSpec => []PathInv
<1>1. BlocksInit => PathInv
  BY InitSafe, NumbersInit, LinedInit, DrawingInit DEF BlocksInit, PathInv
<1>2. PathInv /\ [Path!Next]_(Path!vars) => PathInv'
  <2> SUFFICES ASSUME PathInv, [Path!Next]_(Path!vars) PROVE PathInv'
    OBVIOUS
  <2>1. Safe /\ (~cut => Numbers /\ Lined /\ Drawing)
    BY DEF PathInv
  <2>2. Safe'
    BY <2>1, NextSafe
  <2>3. ~cut => Turns
    BY <2>1 DEF Numbers
  <2>4. ~cut' => Numbers'
    BY <2>1, NumbersKept
  <2>5. ~cut' => Lined'
    BY <2>1, <2>3, LinedKept
  <2>6. ~cut' => Drawing'
    BY <2>1, DrawingKept
  <2> QED
    BY <2>2, <2>4, <2>5, <2>6 DEF PathInv
<1>3. [BlocksNext]_<<part, capture, path>> => [Path!Next]_(Path!vars)
  BY DEF BlocksNext, path, Path!vars
<1> QED
  BY <1>1, <1>2, <1>3, PTL DEF BlocksSpec

(* As long as no change of the span meets a block in work, the waterfall   *)
(* gets the spectra in the order they were computed and, once it has got   *)
(* one, without a gap; a block that made a spectrum shows no old one again *)
(* (audio_processor.c, cwskimmer_emit_spectrum).                           *)
THEOREM WaterfallInOrder == BlocksSpec => []ShownInOrder
<1>1. PathInv => ShownInOrder
  <2> SUFFICES ASSUME PathInv PROVE ShownInOrder
    OBVIOUS
  <2>1. Path!TypeOK
    BY DEF PathInv, Safe
  <2>2. Path!ShownInOrder
    BY DEF PathInv, Drawing, InOrder, Path!ShownInOrder
  <2>3. Path!LatestOnlyForNothing
    BY DEF PathInv, Numbers, NewestKept, Path!LatestOnlyForNothing
  <2> QED
    BY <2>1, <2>2, <2>3 DEF ShownInOrder
<1> QED
  BY <1>1, PathInvariant, PTL

(* With the same exception a spectrum from the queue is drawn over the span *)
(* it was computed for; and whatever the span becomes meanwhile, no        *)
(* transform takes more samples than its frame holds.                      *)
THEOREM DrawnOverItsSpan == BlocksSpec => []FreshFitsAxis
<1>1. PathInv => FreshFitsAxis
  <2> SUFFICES ASSUME PathInv PROVE FreshFitsAxis
    OBVIOUS
  <2>1. Path!FrameFits
    BY DEF PathInv, Safe
  <2>2. Path!FreshFitsAxis
    BY DEF PathInv, Drawing, OnAxis, Path!FreshFitsAxis
  <2> QED
    BY <2>1, <2>2 DEF FreshFitsAxis
<1> QED
  BY <1>1, PathInvariant, PTL
===============================================================================
