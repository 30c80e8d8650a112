----------------------------- MODULE DecodeWorker -----------------------------
(***************************************************************************)
(* One decode worker (decode_worker.c): a slot of the detector's channel   *)
(* pool with a lock, a condition variable, a ring of IQ chunks, one        *)
(* decoder and the thread that feeds the decoder.  Controllers (the        *)
(* detection thread, the GUI thread that changes the configuration or      *)
(* destroys the detector) start, reset, feed, flush and shut down the      *)
(* worker; the result callback of cwskimmer_api.c runs on the decode       *)
(* thread and, for a steady carrier, calls decode_worker_reset from there. *)
(*                                                                         *)
(* A critical section of worker->lock is one step, except the one around   *)
(* the result callback: the callback may block, so the lock is a variable. *)
(* decode_worker_stop unlocks around pthread_join, so it is three steps,   *)
(* shared by everybody who executes it.                                    *)
(***************************************************************************)
EXTENDS Naturals, Sequences, FiniteSets

CONSTANTS Threads,        \* identities of decode threads (pthread_t)
          Callers,        \* controller threads
          Nobody,         \* no thread, or nobody holds the lock
          DEPTH,          \* DECODE_WORKER_QUEUE_DEPTH
          MaxChunk,       \* bound: chunks accepted in a behaviour
          SteadyCarrier   \* may cw_decoder_is_birdie answer 1?

ASSUME ConstantsAssumption ==
    /\ DEPTH \in Nat \ {0}
    /\ MaxChunk \in Nat
    /\ SteadyCarrier \in BOOLEAN
    /\ Threads \cap Callers = {}
    /\ Nobody \notin Threads \cup Callers

VARIABLES
    stop, active, birdie,       \* the worker's flags
    thread_running, thread,     \* 1 while `thread' has to be joined
    decoder,                    \* is a decoder allocated?
    iq_queue, queue_write, queue_read, queue_count,   \* the ring of chunks
    lock,                       \* holder of worker->lock across a callback
    destroyed,                  \* lock and condition variable are destroyed
    local_iq,                   \* local_iq[t]: the chunk thread t copied out
    accepted,                   \* number of the last chunk submit_iq accepted
    pc, tid, op                 \* control state, join target, operation

ring    == <<iq_queue, queue_write, queue_read, queue_count>>
flags   == <<stop, active, birdie>>
joinVar == <<thread_running, thread>>
ctrl    == <<pc, tid, op>>
vars    == <<flags, joinVar, decoder, ring, lock, destroyed, local_iq,
             accepted, ctrl>>

Procs  == Threads \cup Callers
Slots  == 0 .. DEPTH - 1
Chunks == 0 .. MaxChunk          \* 0 is the zeroed memory of memset

\* Where a controller, a decode thread, and whoever executes
\* decode_worker_stop can be.
StopPc   == {"signal", "join", "free", "clear"}
CallerPc == {"idle", "create", "destroy", "wait_idle", "flush"} \cup StopPc
ThreadPc == {"none", "top", "waiting", "dequeued", "process", "result",
             "publish", "birdie", "birdie_cb", "exited"} \cup StopPc
Ops      == {"start", "reset", "shutdown"}

-------------------------------------------------------------------------------
(* decode_worker_init *)
Init == /\ stop = FALSE /\ active = FALSE /\ birdie = FALSE
        /\ thread_running = FALSE /\ thread = Nobody
        /\ decoder = FALSE
        /\ iq_queue = [s \in Slots |-> 0]
        /\ queue_write = 0 /\ queue_read = 0 /\ queue_count = 0
        /\ lock = Nobody /\ destroyed = FALSE
        /\ local_iq = [t \in Threads |-> 0]
        /\ accepted = 0
        /\ pc = [p \in Procs |-> IF p \in Callers THEN "idle" ELSE "none"]
        /\ tid = [p \in Procs |-> Nobody]
        /\ op = [p \in Procs |-> IF p \in Callers THEN "start" ELSE "reset"]

Unlocked == lock = Nobody

Goto(p, place) == pc' = [pc EXCEPT ![p] = place]

\* p leaves for `place' and the threads of W wake up inside
\* pthread_cond_wait: they compete for the lock and test the loop condition.
GotoWaking(p, place, W) ==
    pc' = [x \in Procs |-> IF x = p THEN place
                           ELSE IF x \in W THEN "top" ELSE pc[x]]

Waiters == {t \in Threads : pc[t] = "waiting"}

\* mutant: the read index is not reset
ClearQueueKeepsRead == /\ queue_write' = 0 /\ queue_count' = 0
                       /\ UNCHANGED <<iq_queue, queue_read>>

ClearQueue == /\ queue_write' = 0 /\ queue_read' = 0 /\ queue_count' = 0
              /\ UNCHANGED iq_queue

-------------------------------------------------------------------------------
(* A controller calls decode_worker_start, _reset or _shutdown: all three  *)
(* begin with decode_worker_stop.                                          *)
Call(c, o) == /\ pc[c] = "idle" /\ ~destroyed
              /\ op' = [op EXCEPT ![c] = o]
              /\ Goto(c, "signal")
              /\ UNCHANGED <<flags, joinVar, decoder, ring, lock, destroyed,
                             local_iq, accepted, tid>>

\* mutant: the condition variable is not broadcast
StopSignalSilent(p) == /\ pc[p] = "signal" /\ Unlocked
                       /\ stop' = TRUE /\ active' = FALSE
                       /\ tid' = [tid EXCEPT ![p] = IF thread_running
                                                    THEN thread ELSE Nobody]
                       /\ thread_running' = FALSE
                       /\ Goto(p, "join")
                       /\ UNCHANGED <<birdie, thread, decoder, ring, lock,
                                      destroyed, local_iq, accepted, op>>

\* decode_worker_stop up to the first unlock
StopSignal(p) == /\ pc[p] = "signal" /\ Unlocked
                 /\ stop' = TRUE /\ active' = FALSE
                 /\ tid' = [tid EXCEPT ![p] = IF thread_running THEN thread
                                              ELSE Nobody]
                 /\ thread_running' = FALSE
                 /\ GotoWaking(p, "join", Waiters)
                 /\ UNCHANGED <<birdie, thread, decoder, ring, lock, destroyed,
                                local_iq, accepted, op>>

\* mutant: the thread is told to stop and not joined
StopJoinNobody(p) == /\ pc[p] = "join"
                     /\ Goto(p, "free")
                     /\ UNCHANGED <<flags, joinVar, decoder, ring, lock,
                                    destroyed, local_iq, accepted, tid, op>>

\* pthread_join: nothing to join; the caller joining itself, where the call
\* fails with EDEADLK and the result is not looked at; or the thread ended.
StopJoin(p) == /\ pc[p] = "join"
               /\ \/ /\ tid[p] \in {Nobody, p}
                     /\ Goto(p, "free")
                  \/ /\ tid[p] \in Threads \ {p} /\ pc[tid[p]] = "exited"
                     /\ pc' = [pc EXCEPT ![p] = "free", ![tid[p]] = "none"]
               /\ UNCHANGED <<flags, joinVar, decoder, ring, lock, destroyed,
                              local_iq, accepted, tid, op>>

AfterStop(o) == CASE o = "start" -> "create"
                  [] o = "reset" -> "clear"
                  [] o = "shutdown" -> "destroy"

\* decode_worker_stop after the join
StopFree(p) == /\ pc[p] = "free" /\ Unlocked
               /\ decoder' = FALSE
               /\ stop' = FALSE /\ birdie' = FALSE
               /\ thread' = Nobody
               /\ ClearQueue
               /\ Goto(p, AfterStop(op[p]))
               /\ UNCHANGED <<active, thread_running, lock, destroyed,
                              local_iq, accepted, tid, op>>

\* the rest of decode_worker_reset, and the return to the caller: for a
\* decode thread that is its result callback, which returns to the loop
ResetClear(p) == /\ pc[p] = "clear"
                 /\ birdie' = FALSE
                 /\ Goto(p, IF p \in Threads THEN "top" ELSE "idle")
                 /\ UNCHANGED <<stop, active, joinVar, decoder, ring, lock,
                                destroyed, local_iq, accepted, tid, op>>

\* the rest of decode_worker_shutdown
ShutdownDestroy(c) == /\ pc[c] = "destroy"
                      /\ destroyed' = TRUE
                      /\ Goto(c, "idle")
                      /\ UNCHANGED <<flags, joinVar, decoder, ring, lock,
                                     local_iq, accepted, tid, op>>

-------------------------------------------------------------------------------
(* the rest of decode_worker_start: the decoder cannot be allocated, the   *)
(* thread cannot be created, or both succeed                               *)
StartNoDecoder(c) == /\ pc[c] = "create" /\ Unlocked
                     /\ decoder' = FALSE
                     /\ Goto(c, "idle")
                     /\ UNCHANGED <<flags, joinVar, ring, lock, destroyed,
                                    local_iq, accepted, tid, op>>

StartNoThread(c) == /\ pc[c] = "create" /\ Unlocked
                    /\ birdie' = FALSE /\ stop' = FALSE /\ active' = FALSE
                    /\ ClearQueue
                    /\ thread_running' = FALSE
                    /\ decoder' = FALSE
                    /\ Goto(c, "idle")
                    /\ UNCHANGED <<thread, lock, destroyed, local_iq, accepted,
                                   tid, op>>

StartThread(c) == \E t \in Threads :
    /\ pc[c] = "create" /\ Unlocked /\ pc[t] = "none"
    /\ decoder' = TRUE
    /\ birdie' = FALSE /\ stop' = FALSE /\ active' = TRUE
    /\ ClearQueue
    /\ thread' = t /\ thread_running' = TRUE
    /\ pc' = [pc EXCEPT ![c] = "idle", ![t] = "top"]
    /\ UNCHANGED <<lock, destroyed, local_iq, accepted, tid, op>>

Create(c) == StartNoDecoder(c) \/ StartNoThread(c) \/ StartThread(c)

-------------------------------------------------------------------------------
(* decode_worker_submit_iq.  A refused chunk (-1) changes nothing.         *)
CanSubmit == active /\ ~birdie /\ queue_count < DEPTH

\* mutant: the signal is forgotten
SignalledNobody(W) == W = {}

\* pthread_cond_signal: one waiter, if there is one
Signalled(W) == W \subseteq Waiters
                /\ Cardinality(W) = IF Waiters = {} THEN 0 ELSE 1

Submit(c) == /\ pc[c] = "idle" /\ ~destroyed /\ Unlocked
             /\ CanSubmit
             /\ accepted < MaxChunk
             /\ accepted' = accepted + 1
             /\ iq_queue' = [iq_queue EXCEPT ![queue_write] = accepted + 1]
             /\ queue_write' = (queue_write + 1) % DEPTH
             /\ queue_count' = queue_count + 1
             /\ \E W \in SUBSET Waiters : Signalled(W) /\ GotoWaking(c, "idle", W)
             /\ UNCHANGED <<flags, joinVar, decoder, queue_read, lock,
                            destroyed, local_iq, tid, op>>

\* decode_worker_flush_decode: poll until the queue is empty, then use the
\* decoder under the lock
CallFlush(c) == /\ pc[c] = "idle" /\ ~destroyed
                /\ Goto(c, "wait_idle")
                /\ UNCHANGED <<flags, joinVar, decoder, ring, lock, destroyed,
                               local_iq, accepted, tid, op>>

WaitIdle(c) == /\ pc[c] = "wait_idle" /\ Unlocked
               /\ queue_count = 0
               /\ Goto(c, "flush")
               /\ UNCHANGED <<flags, joinVar, decoder, ring, lock, destroyed,
                              local_iq, accepted, tid, op>>

Flush(c) == /\ pc[c] = "flush" /\ Unlocked
            /\ Goto(c, "idle")
            /\ UNCHANGED <<flags, joinVar, decoder, ring, lock, destroyed,
                           local_iq, accepted, tid, op>>

-------------------------------------------------------------------------------
(* decode_worker_thread.  From the loop head it exits, sleeps, or takes a  *)
(* chunk; when the worker is not active or has no decoder it spins, which  *)
(* changes nothing.                                                        *)
Exit(t) == /\ pc[t] = "top" /\ Unlocked
           /\ stop
           /\ Goto(t, "exited")
           /\ UNCHANGED <<flags, joinVar, decoder, ring, lock, destroyed,
                          local_iq, accepted, tid, op>>

Sleep(t) == /\ pc[t] = "top" /\ Unlocked
            /\ ~stop /\ queue_count = 0 /\ active
            /\ Goto(t, "waiting")
            /\ UNCHANGED <<flags, joinVar, decoder, ring, lock, destroyed,
                           local_iq, accepted, tid, op>>

SpuriousWakeup(t) == /\ pc[t] = "waiting"
                     /\ Goto(t, "top")
                     /\ UNCHANGED <<flags, joinVar, decoder, ring, lock,
                                    destroyed, local_iq, accepted, tid, op>>

Dequeue(t) == /\ pc[t] = "top" /\ Unlocked
              /\ ~stop /\ active /\ decoder /\ queue_count > 0
              /\ local_iq' = [local_iq EXCEPT ![t] = iq_queue[queue_read]]
              /\ queue_read' = (queue_read + 1) % DEPTH
              /\ queue_count' = queue_count - 1
              /\ Goto(t, "dequeued")
              /\ UNCHANGED <<flags, joinVar, decoder, iq_queue, queue_write,
                             lock, destroyed, accepted, tid, op>>

\* the unlocked test of worker->decoder, then set_tone, process_iq, update
EnterDecoder(t) == /\ pc[t] = "dequeued"
                   /\ Goto(t, IF decoder THEN "process" ELSE "top")
                   /\ UNCHANGED <<flags, joinVar, decoder, ring, lock,
                                  destroyed, local_iq, accepted, tid, op>>

LeaveDecoder(t) == /\ pc[t] = "process"
                   /\ \/ Goto(t, "result")
                      \/ SteadyCarrier /\ Goto(t, "birdie")
                   /\ UNCHANGED <<flags, joinVar, decoder, ring, lock,
                                  destroyed, local_iq, accepted, tid, op>>

\* worker->birdie = 1, worker->active = 0 under the lock
MarkBirdie(t) == /\ pc[t] = "birdie" /\ Unlocked
                 /\ birdie' = TRUE /\ active' = FALSE
                 /\ Goto(t, "birdie_cb")
                 /\ UNCHANGED <<stop, joinVar, decoder, ring, lock, destroyed,
                                local_iq, accepted, tid, op>>

\* cwskimmer_decode_worker_result: a birdie releases the channel from the
\* decode thread itself
ResultReleases(t) == /\ birdie
                     /\ op' = [op EXCEPT ![t] = "reset"]
                     /\ Goto(t, "signal")
                     /\ UNCHANGED lock

\* the callback of the birdie branch is made without the lock
BirdieCallback(t) == /\ pc[t] = "birdie_cb"
                     /\ \/ ResultReleases(t)
                        \/ ~birdie /\ Goto(t, "top") /\ UNCHANGED <<lock, op>>
                     /\ UNCHANGED <<flags, joinVar, decoder, ring, destroyed,
                                    local_iq, accepted, tid>>

\* the result is published with the lock held ...
Publish(t) == /\ pc[t] = "result" /\ Unlocked
              /\ \/ decoder /\ lock' = t /\ Goto(t, "publish")
                 \/ /\ ~decoder /\ UNCHANGED lock
                    /\ GotoWaking(t, "top", IF queue_count = 0 THEN Waiters
                                            ELSE {})
              /\ UNCHANGED <<flags, joinVar, decoder, ring, destroyed, local_iq,
                             accepted, tid, op>>

\* ... across the callback, which returns, or begins a reset
PublishCallback(t) == /\ pc[t] = "publish"
                      /\ \/ ResultReleases(t)
                         \/ /\ ~birdie /\ lock' = Nobody /\ UNCHANGED op
                            /\ GotoWaking(t, "top", IF queue_count = 0
                                                    THEN Waiters ELSE {})
                      /\ UNCHANGED <<flags, joinVar, decoder, ring, destroyed,
                                     local_iq, accepted, tid>>

-------------------------------------------------------------------------------
Stopping(p) == StopSignal(p) \/ StopJoin(p) \/ StopFree(p) \/ ResetClear(p)

Controlling(c) == \/ \E o \in Ops : Call(c, o)
                  \/ Create(c) \/ ShutdownDestroy(c)
                  \/ Submit(c) \/ CallFlush(c) \/ WaitIdle(c) \/ Flush(c)

Decoding(t) == \/ Exit(t) \/ Sleep(t) \/ SpuriousWakeup(t) \/ Dequeue(t)
               \/ EnterDecoder(t) \/ LeaveDecoder(t) \/ MarkBirdie(t)
               \/ BirdieCallback(t) \/ Publish(t) \/ PublishCallback(t)

\* after the shutdown nobody calls the worker any more
Finished == /\ destroyed /\ \A c \in Callers : pc[c] = "idle"
            /\ UNCHANGED vars

Next == \/ \E p \in Procs : Stopping(p)
        \/ \E c \in Callers : Controlling(c)
        \/ \E t \in Threads : Decoding(t)
        \/ Finished

Spec == Init /\ [][Next]_vars

\* A thread that can run keeps running, and a call that was begun is carried
\* on; nobody has to begin a call, to wake spuriously, or to run out of memory.
Fairness ==
    /\ \A p \in Procs : WF_vars(Stopping(p))
    /\ \A c \in Callers : WF_vars(Create(c) \/ ShutdownDestroy(c)
                                  \/ WaitIdle(c) \/ Flush(c))
    /\ \A t \in Threads : WF_vars(\/ Exit(t) \/ Sleep(t) \/ Dequeue(t)
                                  \/ EnterDecoder(t) \/ LeaveDecoder(t)
                                  \/ MarkBirdie(t) \/ BirdieCallback(t)
                                  \/ Publish(t) \/ PublishCallback(t))

FairSpec == Spec /\ Fairness

-------------------------------------------------------------------------------
TypeOK == /\ stop \in BOOLEAN /\ active \in BOOLEAN /\ birdie \in BOOLEAN
          /\ thread_running \in BOOLEAN /\ thread \in Threads \cup {Nobody}
          /\ decoder \in BOOLEAN
          /\ iq_queue \in [Slots -> Chunks]
          /\ queue_write \in Slots /\ queue_read \in Slots
          /\ queue_count \in 0 .. DEPTH
          /\ lock \in Threads \cup {Nobody} /\ destroyed \in BOOLEAN
          /\ local_iq \in [Threads -> Chunks]
          /\ accepted \in Chunks
          /\ pc \in [Procs -> CallerPc \cup ThreadPc]
          /\ \A t \in Threads : pc[t] \in ThreadPc
          /\ \A c \in Callers : pc[c] \in CallerPc
          /\ tid \in [Procs -> Threads \cup {Nobody}]
          /\ op \in [Procs -> Ops] /\ \A t \in Threads : op[t] = "reset"

\* Every decode thread that was created and not yet joined is either the one
\* `thread' names while thread_running is 1, or the one somebody is joining:
\* no thread is forgotten and none is joined twice (decode_worker_stop takes
\* thread_running under the lock and joins after it).
ThreadAccounted ==
    /\ \A t \in Threads : pc[t] # "none" =>
           \/ thread_running /\ thread = t
           \/ \E p \in Procs \ {t} : pc[p] = "join" /\ tid[p] = t
    /\ \A p, r \in Procs :
           (pc[p] = "join" /\ pc[r] = "join" /\ p # r)
               => (tid[p] = Nobody \/ tid[p] # tid[r])

\* Why ThreadAccounted, OneDecoderThread, DecoderLive and
\* NoThreadOutlivesWorker hold when one controller drives the worker and no
\* steady carrier makes a thread reset itself: a thread exists only together
\* with its decoder, and only until the one stop in progress has joined it.
\* Inductive; see DecodeWorkerProofs.
AccountInv ==
    /\ ~birdie
    /\ \A t \in Threads : pc[t] \notin {"birdie", "birdie_cb"} \cup StopPc
    /\ \A t \in Threads : pc[t] # "none" =>
           /\ decoder
           /\ \/ thread_running /\ thread = t
              \/ \E c \in Callers : pc[c] = "join" /\ tid[c] = t
    /\ thread_running =>
           \A c \in Callers : pc[c] \in {"idle", "wait_idle", "flush", "signal"}
    /\ destroyed => ~thread_running /\ \A c \in Callers : pc[c] = "idle"

\* The inductive invariant of a worker with one controller and no steady carrier.
IInv == TypeOK /\ AccountInv

\* "Ensure any previous thread is fully joined before creating a new one"
\* (decode_worker_start): two threads never run decode_worker_thread on the
\* same worker.
OneDecoderThread ==
    \A t, u \in Threads : pc[t] = "none" \/ pc[u] = "none" \/ t = u

\* The decoder is not freed while a thread is inside cw_decoder_process_iq,
\* cw_decoder_update or cw_decoder_is_birdie, which run without the lock.
DecoderLive == \A t \in Threads : pc[t] = "process" => decoder

\* decode_worker_shutdown destroys the lock only when no decode thread is
\* left that would still take it.
NoThreadOutlivesWorker == destroyed => \A t \in Threads : pc[t] = "none"

\* What the users of a worker rely on: two threads never use one decoder, which
\* is neither freed under a thread nor left to one, and no thread is forgotten.
WorkerSafe == /\ OneDecoderThread /\ DecoderLive
              /\ NoThreadOutlivesWorker /\ ThreadAccounted

\* The ring with its three counters is a bounded FIFO: chunks reach the
\* decoder in the order submit_iq accepted them, each once, and disappear only
\* when stop or start empties the queue.
Fifo == INSTANCE ChunkFifo WITH
            Readers <- Threads, Capacity <- DEPTH, last <- accepted,
            q <- [i \in 1 .. queue_count |->
                      iq_queue[(queue_read + i - 1) % DEPTH]],
            taken <- local_iq
FifoSpec == Fifo!Spec

\* Starting, resetting and shutting down a worker return: the thread wakes up,
\* sees `stop' and ends, so the join is not for ever; and so does
\* decode_worker_wait_idle, which polls.
CallsReturn ==
    \A c \in Callers : pc[c] \in {"signal", "join", "free", "wait_idle"}
                           ~> pc[c] = "idle"

\* No lost wake-up: chunks that wait in the queue are taken, or the worker is
\* stopped, whatever the thread did when submit_iq signalled.
EveryChunkServed == queue_count > 0 ~> queue_count = 0
===============================================================================
