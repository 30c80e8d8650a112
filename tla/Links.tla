--------------------------------- MODULE Links ---------------------------------
(* The two links the session sends on: the radio control, and the spot        *)
(* reporter as the command-line program uses it.  They share nothing but the  *)
(* detection loop, so which one a behaviour is about is chosen at its         *)
(* beginning.                                                                 *)
EXTENDS RadioControl, FiniteSets

CONSTANTS Decoders, RETRY_QUEUE_MAX, MaxSpots, OneThread, LossySend

VARIABLES part,
          retry_queue, retry_head, retry_tail, queue_size, connected, recent,
          where, spot, size_read, submitted, taken, again, failed, refused

radio == vars
spots == <<retry_queue, retry_head, retry_tail, queue_size, connected, recent,
           where, spot, size_read, submitted, taken, again, failed, refused>>

Reporter == INSTANCE SpotReporter WITH pc <- where, sent <- taken

ASSUME LinksAssumption == Reporter!SpotAssumption

\* the part a behaviour is not about has one initial state
LinksInit == /\ part \in {"spots", "radio"} /\ Init /\ Reporter!Init
             /\ part = "spots" => \A w \in Speeds : wpm <= w

OfSpots(A) == part = "spots" /\ A /\ UNCHANGED <<part, radio>>
OfRadio(A) == part = "radio" /\ A /\ UNCHANGED <<part, spots>>

LinksNext == OfSpots(Reporter!Next) \/ OfRadio(Next)

all == <<part, spots, radio>>

(* The fairness of SpotReporter and of RadioControl, each asked of its own    *)
(* behaviours; one thread makes all the steps of the reporter.                *)
LinksSpec ==
    /\ LinksInit /\ [][LinksNext]_all
    /\ WF_all(\/ OfSpots(\E t \in Reporter!Threads :
                            Reporter!Submission(t) /\ where[t] # "idle")
              \/ OfRadio(Servicing))
    /\ WF_all(OfSpots(Reporter!Retries) \/ OfRadio(LinkUp))
    /\ WF_all(OfSpots(Reporter!TimePasses) \/ OfRadio(TimePasses))
    /\ SF_all(\/ OfSpots(\E t \in Reporter!Threads : Reporter!SendOk(t))
              \/ OfRadio(KyReadFree))
    /\ SF_all(OfSpots(Reporter!RetryStart))

-------------------------------------------------------------------------------
(* The ring and the spots, between two calls from one thread: the counters    *)
(* agree, and every spot submitted is once in the ring, sent, swallowed by    *)
(* EAGAIN or refused, or is there again after a send of it failed.            *)
SpotsAccounted == Reporter!SpotsAccounted

(* A spot that found room in the ring is sent in the end, or swallowed by     *)
(* EAGAIN, although sends and connects fail and every failed drain puts       *)
(* another copy behind the rest.                                              *)
SubmittedIsSent == Reporter!SubmittedIsSent

(* A requested stop reaches the radio, when the connection holds and no more  *)
(* than RC_QUEUE commands are issued between two services; and with a CAT     *)
(* peer that answers, text in the backlog is keyed, dropped by a stop, or     *)
(* left there because the mode was changed.                                   *)
RadioServed == StopServed /\ BacklogKeyed
===============================================================================
