------------------------------ MODULE LossyFifo ------------------------------
(***************************************************************************)
(* What a sample ring promises to its reader: the newest Capacity items,   *)
(* oldest first.  A full ring makes room by dropping its oldest item; the  *)
(* reader takes items from the front; nothing is reordered, repeated or    *)
(* lost in the middle.  TciClient implements this module with a head, a    *)
(* count and slots.                                                        *)
(***************************************************************************)
EXTENDS Naturals, Sequences

CONSTANTS Items,    \* what may be put in
          Capacity  \* how many fit

VARIABLE fifo

Init == fifo = << >>

Put == \E x \in Items : fifo' = IF Len(fifo) < Capacity
                              THEN Append(fifo, x)
                              ELSE Append(Tail(fifo), x)

Take == \E n \in 1 .. Len(fifo) : fifo' = SubSeq(fifo, n + 1, Len(fifo))

Clear == fifo' = << >>

Next == Put \/ Take \/ Clear
==============================================================================
