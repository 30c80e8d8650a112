----------------------------- MODULE SpotReporter -----------------------------
(***************************************************************************)
(* The optional spot reporter (spot_reporter.c): decode threads submit     *)
(* spots, which are sent over a telnet socket or kept in a ring, and the   *)
(* detection thread drains the ring every few seconds, reconnecting at     *)
(* most every SPOT_CONNECT_MIN_INTERVAL_SEC.  The reporter has no lock.    *)
(* The command-line program (main.c) makes both calls from one thread      *)
(* (OneThread); under the API each decode thread and the detection thread  *)
(* call it when they like, and the threads race on the ring's counters.    *)
(*                                                                         *)
(* Spots are numbered as they are submitted.  An operation is a sequence   *)
(* of steps, one for each access to what the threads share; a racy update  *)
(* stores a result computed from the present value or from the one the     *)
(* thread read before.                                                     *)
(***************************************************************************)
EXTENDS Naturals, FiniteSets

CONSTANTS Decoders,         \* threads that submit spots
          RETRY_QUEUE_MAX,  \* slots of the ring
          MaxSpots,         \* bound: spots submitted in a behaviour
          OneThread,        \* is the reporter used by one thread only?
          LossySend         \* may send() return EAGAIN?

SpotAssumption ==
    /\ RETRY_QUEUE_MAX \in Nat \ {0} /\ MaxSpots \in Nat
    /\ OneThread \in BOOLEAN /\ LossySend \in BOOLEAN
    /\ "loop" \notin Decoders

VARIABLES
    retry_queue, retry_head, retry_tail, queue_size,  \* the ring
    connected,
    recent,        \* the last connect attempt is less than 10 s old
    pc, spot,      \* per thread: where it is and the spot in its hands
    size_read,     \* per thread: queue_size as spot_queue_spot tested it
    submitted,     \* number of the last spot submitted
    sent,          \* spots send() took
    again,         \* spots send() refused with EAGAIN
    failed,        \* spots whose send failed
    refused        \* spots submitted that found no room in the ring

ring   == <<retry_queue, retry_head, retry_tail, queue_size>>
thread == <<pc, spot, size_read>>
wire   == <<sent, again, failed, refused, submitted>>
vars   == <<ring, connected, recent, thread, wire>>

Threads == Decoders \cup {"loop"}
Slots   == 0 .. RETRY_QUEUE_MAX - 1
Wrap(i) == i % RETRY_QUEUE_MAX

\* the slots between head and tail, as many as queue_size says
Live == {Wrap(retry_head + k) : k \in 0 .. queue_size - 1}

Init == /\ retry_queue = [i \in Slots |-> 0]
        /\ retry_head = 0 /\ retry_tail = 0 /\ queue_size = 0
        /\ connected = FALSE /\ recent = FALSE
        /\ pc = [t \in Threads |-> "idle"]
        /\ spot = [t \in Threads |-> 0] /\ size_read = [t \in Threads |-> 0]
        /\ submitted = 0 /\ sent = {} /\ again = {} /\ failed = {}
        /\ refused = {}

Idle(t) == pc[t] = "idle" /\ (OneThread => \A u \in Threads : pc[u] = "idle")
Goto(t, l) == pc' = [pc EXCEPT ![t] = l]

\* where a submission by t continues after it returned 0, or -1
Success(t) == Goto(t, IF t = "loop" THEN "pop" ELSE "idle")
Failure(t) == Goto(t, "idle")

\* spot_reporter_submit_spot tests connected first
SubmitEntry == IF connected THEN "send" ELSE "queue"

Submit(t) == /\ t \in Decoders /\ Idle(t) /\ submitted < MaxSpots
             /\ submitted' = submitted + 1
             /\ spot' = [spot EXCEPT ![t] = submitted + 1]
             /\ Goto(t, SubmitEntry)
             /\ UNCHANGED <<ring, connected, recent, size_read, sent, again,
                            failed, refused>>

SendOk(t) == /\ pc[t] = "send"
             /\ sent' = sent \cup {spot[t]}
             /\ Success(t)
             /\ UNCHANGED <<ring, connected, recent, spot, size_read, again,
                            failed, refused, submitted>>

\* EAGAIN counts as a success
SendAgain(t) == /\ pc[t] = "send" /\ LossySend
                /\ again' = again \cup {spot[t]}
                /\ Success(t)
                /\ UNCHANGED <<ring, connected, recent, spot, size_read, sent,
                               failed, refused, submitted>>

\* any other error: the spot goes to the ring, also when it came from there
SendFail(t) == /\ pc[t] = "send"
               /\ connected' = FALSE
               /\ failed' = failed \cup {spot[t]}
               /\ Goto(t, "requeue")
               /\ UNCHANGED <<ring, recent, spot, size_read, sent, again,
                              refused, submitted>>

(* spot_queue_spot, called with pc "queue" (its result is the submission's) *)
(* or "requeue" (the submission fails whatever it returns).                 *)

\* no room; a spot that the drain took from the ring keeps its place there
QueueFull(t) == /\ pc[t] \in {"queue", "requeue"}
                /\ queue_size >= RETRY_QUEUE_MAX
                /\ refused' = IF t = "loop" THEN refused
                              ELSE refused \cup {spot[t]}
                /\ Failure(t)
                /\ UNCHANGED <<ring, connected, recent, spot, size_read, sent,
                               again, failed, submitted>>

QueueStore(t) == /\ pc[t] \in {"queue", "requeue"}
                 /\ queue_size < RETRY_QUEUE_MAX
                 /\ retry_queue' = [retry_queue EXCEPT ![retry_tail] = spot[t]]
                 /\ size_read' = [size_read EXCEPT ![t] = queue_size]
                 /\ Goto(t, IF pc[t] = "queue" THEN "advance" ELSE "readvance")
                 /\ UNCHANGED <<retry_head, retry_tail, queue_size, connected,
                                recent, spot, wire>>

\* mutant: the tail does not move when it stands at the end of the array
QueueAdvanceStuck(t) ==
    /\ pc[t] \in {"advance", "readvance"}
    /\ retry_tail' = IF retry_tail + 1 < RETRY_QUEUE_MAX THEN retry_tail + 1
                     ELSE retry_tail
    /\ Goto(t, IF pc[t] = "advance" THEN "count" ELSE "recount")
    /\ UNCHANGED <<retry_queue, retry_head, queue_size, connected, recent,
                   spot, size_read, wire>>

QueueAdvance(t) ==
    /\ pc[t] \in {"advance", "readvance"}
    /\ retry_tail' = Wrap(retry_tail + 1)
    /\ Goto(t, IF pc[t] = "advance" THEN "count" ELSE "recount")
    /\ UNCHANGED <<retry_queue, retry_head, queue_size, connected, recent,
                   spot, size_read, wire>>

QueueCount(t) ==
    /\ pc[t] \in {"count", "recount"}
    /\ \E n \in {queue_size + 1, size_read[t] + 1} :
          queue_size' = n /\ size_read' = [size_read EXCEPT ![t] = n]
    /\ IF pc[t] = "count" THEN Success(t) ELSE Failure(t)
    /\ UNCHANGED <<retry_queue, retry_head, retry_tail, connected, recent,
                   spot, wire>>

-------------------------------------------------------------------------------
(* spot_reporter_process_retries.                                          *)

\* mutant: nothing connects again after a send failed
RetryStartConnected ==
    /\ Idle("loop") /\ queue_size > 0
    /\ connected \/ (recent = FALSE /\ failed = {})
    /\ recent' = (recent \/ ~connected) /\ connected' = TRUE
    /\ Goto("loop", "head")
    /\ UNCHANGED <<ring, spot, size_read, wire>>

\* connected, or a connect attempt is due and succeeds
RetryStart == /\ Idle("loop") /\ queue_size > 0
              /\ \/ connected /\ UNCHANGED <<connected, recent>>
                 \/ /\ ~connected /\ ~recent
                    /\ recent' = TRUE /\ connected' = TRUE
              /\ Goto("loop", "head")
              /\ UNCHANGED <<ring, spot, size_read, wire>>

ConnectFails == /\ Idle("loop") /\ queue_size > 0
                /\ ~connected /\ ~recent
                /\ recent' = TRUE
                /\ UNCHANGED <<ring, connected, thread, wire>>

\* the oldest spot is submitted from its slot
RetryHead == /\ pc["loop"] = "head"
             /\ spot' = [spot EXCEPT !["loop"] = retry_queue[retry_head]]
             /\ size_read' = [size_read EXCEPT !["loop"] = queue_size]
             /\ Goto("loop", SubmitEntry)
             /\ UNCHANGED <<ring, connected, recent, wire>>

\* it is removed when the submission returned 0, and the next one is tried
RetryPop == /\ pc["loop"] = "pop"
            /\ retry_head' = Wrap(retry_head + 1)
            /\ queue_size' \in {queue_size - 1, size_read["loop"] - 1}
            /\ Goto("loop", IF queue_size' > 0 THEN "head" ELSE "idle")
            /\ UNCHANGED <<retry_queue, retry_tail, connected, recent, spot,
                           size_read, wire>>

Retries == RetryStart \/ ConnectFails \/ RetryHead \/ RetryPop

\* the rest of the ten seconds passes
TimePasses == /\ recent /\ pc["loop"] = "idle"
              /\ recent' = FALSE
              /\ UNCHANGED <<ring, connected, thread, wire>>

Submission(t) == \/ Submit(t)
                 \/ SendOk(t) \/ SendAgain(t) \/ SendFail(t)
                 \/ QueueFull(t) \/ QueueStore(t)
                 \/ QueueAdvance(t) \/ QueueCount(t)

Next == Retries \/ TimePasses \/ \E t \in Threads : Submission(t)

Spec == Init /\ [][Next]_vars

\* Threads go on with what they began, the detection loop calls
\* process_retries every few seconds, and time passes.  A server that comes
\* and goes accepts a connection and takes a spot now and then.
FairSpec == /\ Spec
            /\ WF_vars(Retries) /\ WF_vars(TimePasses)
            /\ \A t \in Threads :
                  /\ WF_vars(Submission(t) /\ pc[t] # "idle")
                  /\ SF_vars(SendOk(t))
            /\ SF_vars(RetryStart)

-------------------------------------------------------------------------------
TypeOK == /\ retry_queue \in [Slots -> 0 .. MaxSpots]
          /\ retry_head \in Slots /\ retry_tail \in Slots
          /\ queue_size \in 0 .. RETRY_QUEUE_MAX
          /\ connected \in BOOLEAN /\ recent \in BOOLEAN
          /\ pc \in [Threads -> {"idle", "send", "queue", "requeue", "advance",
                                 "readvance", "count", "recount", "head", "pop"}]
          /\ spot \in [Threads -> 0 .. submitted]
          /\ size_read \in [Threads -> 0 .. RETRY_QUEUE_MAX]
          /\ submitted \in 0 .. MaxSpots
          /\ UNION {sent, again, failed, refused} \subseteq 1 .. submitted

AllIdle == \A t \in Threads : pc[t] = "idle"

\* Between operations the ring's three counters agree: the tail is
\* queue_size slots behind the head.  Drains, failed drains that put a spot
\* back, refusals and wrap-around keep it so when one thread does them all.
\* (Under the API, where threads race, it does not hold.)
RingConsistent == AllIdle => retry_tail = Wrap(retry_head + queue_size)

\* The slots in which spot s waits.
Copies(s) == {i \in Live : retry_queue[i] = s}

\* Every spot submitted is at every quiet moment in exactly one place: once
\* in the ring, sent, swallowed by EAGAIN, or refused because the ring was
\* full.  Only a spot whose send failed may be there twice; it is never gone.
EverySpotAccounted ==
    AllIdle => \A s \in 1 .. submitted :
        /\ Copies(s) # {} \/ s \in sent \cup again \cup refused
        /\ s \notin failed =>
              /\ \A i, j \in Copies(s) : i = j
              /\ Copies(s) # {} => s \notin sent \cup again \cup refused
              /\ s \notin (sent \cap again) \cup (sent \cap refused) \cup (again \cap refused)

\* The ring and the spots, between two calls from one thread.
SpotsAccounted == TypeOK /\ RingConsistent /\ EverySpotAccounted

\* A spot that found room in the ring is sent in the end, or swallowed by
\* EAGAIN, although sends and connects fail and every failed drain puts
\* another copy behind the rest, or finds no room for it.  Only a spot refused
\* when it was submitted is excused.
SubmittedIsSent == \A s \in 1 .. MaxSpots :
    s <= submitted ~> s \in sent \cup again \cup refused

===============================================================================
