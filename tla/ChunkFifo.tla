------------------------------ MODULE ChunkFifo ------------------------------
(***************************************************************************)
(* What the IQ queue of a decode worker promises to its users: a bounded   *)
(* FIFO.  Chunks are numbered as they are accepted; a chunk is put at the  *)
(* tail while there is room, the oldest chunk goes to one reader, and the  *)
(* whole queue may be discarded at once (the worker is stopped or started  *)
(* again).  Nothing is reordered, duplicated or dropped one by one.        *)
(* DecodeWorker implements this module with a ring of slots and three      *)
(* counters.                                                               *)
(***************************************************************************)
EXTENDS Naturals, Sequences

CONSTANTS Readers,   \* who takes chunks out
          Capacity   \* how many chunks fit

VARIABLES last,      \* number of the last chunk accepted
          q,         \* the queued chunks, oldest first
          taken      \* taken[r]: the last chunk reader r took

Init == last = 0 /\ q = << >> /\ taken = [r \in Readers |-> 0]

Put == /\ Len(q) < Capacity
       /\ last' = last + 1
       /\ q' = Append(q, last + 1)
       /\ UNCHANGED taken

Take(r) == /\ q # << >>
           /\ taken' = [taken EXCEPT ![r] = Head(q)]
           /\ q' = Tail(q)
           /\ UNCHANGED last

Discard == q' = << >> /\ UNCHANGED <<last, taken>>

Next == Put \/ (\E r \in Readers : Take(r)) \/ Discard

Spec == Init /\ [][Next]_<<last, q, taken>>
==============================================================================
