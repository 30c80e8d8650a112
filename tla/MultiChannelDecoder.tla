------------------------- MODULE MultiChannelDecoder -------------------------
(***************************************************************************)
(* The decoders that run for all slices of the waterfall at once           *)
(* (gui/multichanneldecoder.cpp).  Each slice follows one signal, drifts   *)
(* with it, and moves to a louder one elsewhere in the slice once that has *)
(* been the strongest for two columns; the copy made so far stays.         *)
(*                                                                         *)
(* A frequency is a bin of the column and a column gives each bin its dB   *)
(* above the noise.  The spectrum decoder of a slice is external: a letter *)
(* it has read is the bin it was read at.                                  *)
(***************************************************************************)
EXTENDS Integers, Sequences, FiniteSets

CONSTANTS kMaxChannels,    \* slices there can be
          kSlotHz,         \* bins of a slice
          kFollowHz,       \* bins within which a peak is the same signal
          kSwitchMarginDb, \* how much louder a rival has to be
          kMinSnrDb,       \* the least a peak has above the noise
          Columns,         \* the columns that may arrive
          MaxLetters       \* bound: letters a slice reads

Slots == 0 .. kMaxChannels - 1

MultiAssumption ==
    /\ {kMaxChannels, kSlotHz, kMinSnrDb} \subseteq Nat \ {0}
    /\ {kFollowHz, kSwitchMarginDb, MaxLetters} \subseteq Nat
    /\ \A s \in Columns : \E n \in 1 .. kMaxChannels :
           DOMAIN s = 0 .. n * kSlotHz - 1 /\ \A b \in DOMAIN s : s[b] \in Nat

VARIABLES span,       \* m_spanHz in bins, 0 for none
          maxActive,  \* m_maxActive
          ch,         \* m_channels, each with the text of its scopeDecoder
          seen        \* history: the strongest peak of a slice's last column

vars == <<span, maxActive, ch, seen>>

None == -1
kSwitchColumns == 2

(* clear, setBackend and a new span: resetChannelState, the decoder's text *)
(* gone with its engine or by clearDecode                                  *)
resetChannelState == [active |-> FALSE, at |-> None, switchAt |-> None,
                      hits |-> 0, text |-> <<>>]

Init == /\ span = 0 /\ maxActive = kMaxChannels
        /\ ch = [i \in Slots |-> resetChannelState]
        /\ seen = [i \in Slots |-> None]

-------------------------------------------------------------------------------
Width(s)       == Cardinality(DOMAIN s)
slotCount(n)   == n \div kSlotHz
used(n)        == IF maxActive < slotCount(n) THEN maxActive ELSE slotCount(n)
firstSlot(n)   == (slotCount(n) - used(n)) \div 2
slotEnabled(n) == firstSlot(n) .. firstSlot(n) + used(n) - 1

SameSignal(a, b) == a - b \in -kFollowHz .. kFollowHz

(* findStrongestPeak: over the gate, not under a bin within two of it, and *)
(* above one of its neighbours; the lowest of equals.                      *)
IsPeak(s, b) == /\ s[b] >= kMinSnrDb
                /\ \A d \in {-2, -1, 1, 2} : s[b + d] <= s[b]
                /\ s[b - 1] < s[b] \/ s[b + 1] < s[b]
Peaks(s, low, high) == {b \in 2 .. Width(s) - 3 : low <= b /\ b < high /\ IsPeak(s, b)}
Loudest(s, peaks) ==
    IF peaks = {} THEN None
    ELSE CHOOSE b \in peaks : \A c \in peaks : s[c] < s[b] \/ (s[c] = s[b] /\ b <= c)
strongestPeak(s, low, high) == Loudest(s, Peaks(s, low, high))

StrongestIn(s, i) == strongestPeak(s, i * kSlotHz, (i + 1) * kSlotHz)

(* The same around the signal that is followed, within the slice.          *)
NearIn(s, i, at) ==
    Loudest(s, {b \in Peaks(s, i * kSlotHz, (i + 1) * kSlotHz) : SameSignal(b, at)})

-------------------------------------------------------------------------------
armSlot(best) == [active |-> TRUE, at |-> best, switchAt |-> best, hits |-> 0,
                  text |-> <<>>]

(* retargetSlot, in which adoptText keeps the copy                         *)
retargetSlot(c, best) == [c EXCEPT !.at = best, !.switchAt = best, !.hits = 0]

\* mutant: a column in which the signal was back does not start the count anew
FollowedKeepsHits(c, near) == [c EXCEPT !.at = near]

Followed(c, near) == [c EXCEPT !.at = near, !.hits = 0]

(* The signal is there and nothing that counts is louder.                  *)
Holds(c, s, best, near) ==
    /\ near # None
    /\ SameSignal(best, c.at) \/ s[near] + kSwitchMarginDb >= s[best]

(* A rival: counted for as long as it stays where it was first heard.      *)
Again(c, best) == c.hits > 0 /\ SameSignal(best, c.switchAt)
Rival(c, best) ==
    IF Again(c, best) /\ c.hits + 1 >= kSwitchColumns THEN retargetSlot(c, best)
    ELSE IF Again(c, best) THEN [c EXCEPT !.hits = @ + 1]
    ELSE [c EXCEPT !.hits = 1, !.switchAt = best]

(* trackSlot                                                               *)
Track(c, s, best, near) ==
    CASE ~c.active /\ best = None -> c
      [] ~c.active /\ best # None -> armSlot(best)
      [] c.active /\ Holds(c, s, best, near) -> Followed(c, near)
      [] c.active /\ near = None /\ (best = None \/ SameSignal(best, c.at)) ->
             [c EXCEPT !.hits = 0]
      [] OTHER -> Rival(c, best)

(* feedColumn of the slice's decoder: it may have read a letter.           *)
Fed(c, reads) == IF c.active /\ reads /\ Len(c.text) < MaxLetters
                 THEN [c EXCEPT !.text = Append(@, c.at)] ELSE c

(* processSpectrumColumn: another span forgets every slice; the slices in  *)
(* use, the middle ones when there are more than allowed, are tracked.     *)
ProcessColumn(s, readers) ==
    LET n    == Width(s)
        best == [i \in slotEnabled(n) |-> StrongestIn(s, i)]
        kept == [i \in Slots |-> IF span \notin {0, n} THEN resetChannelState
                                 ELSE ch[i]]
    IN  /\ span' = n
        /\ ch' = [i \in Slots |->
                    IF i \in slotEnabled(n)
                    THEN Fed(Track(kept[i], s, best[i], NearIn(s, i, kept[i].at)),
                             i \in readers)
                    ELSE kept[i]]
        /\ seen' = [i \in Slots |-> IF i \in slotEnabled(n) THEN best[i] ELSE seen[i]]
        /\ UNCHANGED maxActive

(* clear, which setBackend calls as well                                   *)
Clear == /\ span' = 0
         /\ ch' = [i \in Slots |-> resetChannelState]
         /\ UNCHANGED <<maxActive, seen>>

setMaxActiveChannels(n) == maxActive' = n /\ UNCHANGED <<span, ch, seen>>

Next == \/ \E s \in Columns, readers \in SUBSET Slots : ProcessColumn(s, readers)
        \/ Clear
        \/ \E n \in 1 .. kMaxChannels : setMaxActiveChannels(n)

Spec == Init /\ [][Next]_vars

-------------------------------------------------------------------------------
(* A slice stays within its kilohertz, and has a copy only when it follows *)
(* something.                                                              *)
TypeOK ==
    /\ span \in {0} \cup {Width(s) : s \in Columns} /\ maxActive \in 1 .. kMaxChannels
    /\ \A i \in Slots :
        /\ ch[i].active =>
             /\ ch[i].at \in i * kSlotHz .. (i + 1) * kSlotHz - 1
             /\ ch[i].hits \in 0 .. kSwitchColumns - 1
        /\ ~ch[i].active => ch[i] = resetChannelState

(* A slice leaves the signal it follows only for one that was the          *)
(* strongest of its slice in this column and in the one before, and louder *)
(* than anything at the old place (multichanneldecoder.h:7); a new span     *)
(* starts all slices anew.                                                 *)
TakeoverEarned ==
    [][\A i \in Slots :
        (/\ ch[i].active /\ ch'[i].active /\ span' = span
         /\ ~SameSignal(ch[i].at, ch'[i].at)) =>
            /\ seen[i] # None /\ SameSignal(seen[i], ch'[i].at)
            /\ ~SameSignal(seen[i], ch[i].at)
            /\ seen'[i] = ch'[i].at]_vars

(* What a slice has copied stays in front of what it copies next, through  *)
(* drifts, takeovers, silence and switching the slice off and on, until    *)
(* the copies are cleared or the span changes.                             *)
CopyKept ==
    [][\A i \in Slots :
        \/ ch'[i].text = ch[i].text
        \/ ch'[i].text = Append(ch[i].text, ch'[i].at)
        \/ span' # span /\ span # 0]_vars

SlicesFollow == []TypeOK /\ TakeoverEarned /\ CopyKept
===============================================================================
