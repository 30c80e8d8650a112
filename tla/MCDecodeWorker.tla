---------------------------- MODULE MCDecodeWorker ----------------------------
(* The decode worker for TLC, twice: a worker that hears no steady carrier,   *)
(* and one that may, and that then resets its own channel from its callback.  *)
(* Which of the two a behaviour is about is chosen at its beginning.          *)
EXTENDS DecodeWorker

VARIABLES part,
          b_stop, b_active, b_birdie, b_running, b_thread, b_decoder, b_queue,
          b_write, b_read, b_count, b_lock, b_destroyed, b_local, b_accepted,
          b_pc, b_tid, b_op

steady == <<b_stop, b_active, b_birdie, b_running, b_thread, b_decoder, b_queue,
            b_write, b_read, b_count, b_lock, b_destroyed, b_local, b_accepted,
            b_pc, b_tid, b_op>>

Steady == INSTANCE DecodeWorker WITH
    stop <- b_stop, active <- b_active, birdie <- b_birdie,
    thread_running <- b_running, thread <- b_thread, decoder <- b_decoder,
    iq_queue <- b_queue, queue_write <- b_write, queue_read <- b_read,
    queue_count <- b_count, lock <- b_lock, destroyed <- b_destroyed,
    local_iq <- b_local, accepted <- b_accepted, pc <- b_pc, tid <- b_tid,
    op <- b_op, MaxChunk <- 3, SteadyCarrier <- TRUE

WorkersInit == part \in {"plain", "steady"} /\ Init /\ Steady!Init

\* The second worker may stop for good (see the run that
\* looks for two threads), so it may also rest: a deadlock is one of the first.
WorkersNext ==
    \/ part = "plain" /\ Next /\ UNCHANGED <<part, steady>>
    \/ part = "steady" /\ Steady!Next /\ UNCHANGED <<part, vars>>
    \/ part = "steady" /\ UNCHANGED <<part, steady, vars>>

\* Fairness is asked of the first worker only; it asks nothing of one nobody
\* has started.
WorkersSpec ==
    WorkersInit /\ [][WorkersNext]_<<part, steady, vars>> /\ Fairness

-------------------------------------------------------------------------------
(* Chunks reach the decoder in the order submit_iq accepted them, each once,  *)
(* and disappear only when the queue is emptied; and that still holds of a    *)
(* worker that reset itself in the middle of its own callback.                *)
WorkersFifo == FifoSpec /\ []Steady!TypeOK /\ Steady!FifoSpec
===============================================================================
