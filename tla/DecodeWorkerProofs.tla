-------------------------- MODULE DecodeWorkerProofs --------------------------
(***************************************************************************)
(* Theorems about one decode worker, for any number of decode threads, any *)
(* queue depth and any number of chunks.  Type correctness holds for every *)
(* use of the worker; that no thread is forgotten, doubled or left without *)
(* its decoder holds when one controller drives the worker and the decoder *)
(* never reports a steady carrier; the run with a carrier shows what       *)
(* happens without the second hypothesis.                                  *)
(***************************************************************************)
EXTENDS DecodeWorker, SequenceTheorems, TLAPS

\* queue_write and queue_read stay slots of the ring when they advance
\* modulo DECODE_WORKER_QUEUE_DEPTH.
LEMMA SlotAdvance == \A s \in Slots : (s + 1) % DEPTH \in Slots
  BY ConstantsAssumption DEF Slots

\* The worker's fields, the threads' copies and everybody's control state keep
\* their types, whatever the callers do: in particular queue_count never
\* leaves 0 .. DEPTH although submit_iq, the thread, stop and start all write
\* it.
THEOREM TypeCorrect == Spec => []TypeOK
<1>1. Init => TypeOK
  <2> SUFFICES ASSUME Init PROVE TypeOK
    OBVIOUS
  <2> USE ConstantsAssumption DEF Init
  <2>1. /\ queue_write \in Slots /\ queue_read \in Slots
        /\ queue_count \in 0 .. DEPTH /\ accepted \in Chunks
        /\ iq_queue \in [Slots -> Chunks] /\ local_iq \in [Threads -> Chunks]
    BY DEF Slots, Chunks
  <2>2. /\ tid \in [Procs -> Threads \cup {Nobody}]
        /\ op \in [Procs -> Ops] /\ \A t \in Threads : op[t] = "reset"
    BY DEF Ops, Procs
  <2>3. \A p \in Procs : pc[p] = IF p \in Callers THEN "idle" ELSE "none"
    OBVIOUS
  <2>4. /\ \A t \in Threads : pc[t] \in ThreadPc
        /\ \A c \in Callers : pc[c] \in CallerPc
        /\ pc \in [Procs -> CallerPc \cup ThreadPc]
    BY <2>3 DEF Procs, CallerPc, ThreadPc
  <2> QED
    BY <2>1, <2>2, <2>4 DEF TypeOK
<1>2. TypeOK /\ [Next]_vars => TypeOK'
  <2> SUFFICES ASSUME TypeOK, [Next]_vars PROVE TypeOK'
    OBVIOUS
  <2> USE ConstantsAssumption DEF TypeOK, Procs, CallerPc, ThreadPc, StopPc,
          Ops, flags, joinVar, ring
  <2>1. ASSUME NEW c \in Callers, NEW o \in Ops, Call(c, o) PROVE TypeOK'
    BY <2>1 DEF Call, Goto
  <2>2. ASSUME NEW p \in Procs, StopSignal(p) PROVE TypeOK'
    <3>1. /\ pc' \in [Procs -> CallerPc \cup ThreadPc]
          /\ \A t \in Threads : pc'[t] \in ThreadPc
          /\ \A c \in Callers : pc'[c] \in CallerPc
      BY <2>2 DEF StopSignal, GotoWaking, Waiters
    <3>2. tid' \in [Procs -> Threads \cup {Nobody}]
      BY <2>2 DEF StopSignal
    <3> QED
      BY <2>2, <3>1, <3>2 DEF StopSignal
  <2>3. ASSUME NEW p \in Procs, StopJoin(p) PROVE TypeOK'
    BY <2>3 DEF StopJoin, Goto
  <2>4. ASSUME NEW p \in Procs, StopFree(p) PROVE TypeOK'
    <3>1. /\ AfterStop(op[p]) \in {"create", "clear", "destroy"}
          /\ p \in Threads => AfterStop(op[p]) = "clear"
      BY DEF AfterStop
    <3>2. /\ pc' \in [Procs -> CallerPc \cup ThreadPc]
          /\ \A t \in Threads : pc'[t] \in ThreadPc
          /\ \A c \in Callers : pc'[c] \in CallerPc
      BY <2>4, <3>1 DEF StopFree, Goto
    <3>3. /\ queue_write' \in Slots /\ queue_read' \in Slots
          /\ queue_count' \in 0 .. DEPTH /\ iq_queue' \in [Slots -> Chunks]
      BY <2>4 DEF StopFree, ClearQueue, Slots
    <3> QED
      BY <2>4, <3>2, <3>3 DEF StopFree
  <2>5. ASSUME NEW p \in Procs, ResetClear(p) PROVE TypeOK'
    BY <2>5 DEF ResetClear, Goto
  <2>6. ASSUME NEW c \in Callers, ShutdownDestroy(c) PROVE TypeOK'
    BY <2>6 DEF ShutdownDestroy, Goto
  <2>7. ASSUME NEW c \in Callers, Create(c) PROVE TypeOK'
    <3>1. CASE StartNoDecoder(c)
      BY <3>1 DEF StartNoDecoder, Goto
    <3>2. ASSUME ClearQueue
          PROVE  /\ queue_write' \in Slots /\ queue_read' \in Slots
                 /\ queue_count' \in 0 .. DEPTH
                 /\ iq_queue' \in [Slots -> Chunks]
      BY <3>2 DEF ClearQueue, Slots
    <3>3. CASE StartNoThread(c)
      BY <3>2, <3>3 DEF StartNoThread, Goto
    <3>4. CASE StartThread(c)
      BY ZenonT(60), <3>2, <3>4 DEF StartThread
    <3> QED
      BY <2>7, <3>1, <3>3, <3>4 DEF Create
  <2>8. ASSUME NEW c \in Callers, Submit(c) PROVE TypeOK'
    BY <2>8, SlotAdvance DEF Submit, CanSubmit, GotoWaking, Waiters, Chunks
  <2>9. ASSUME NEW c \in Callers, CallFlush(c) \/ WaitIdle(c) \/ Flush(c)
        PROVE  TypeOK'
    BY <2>9 DEF CallFlush, WaitIdle, Flush, Goto
  <2>10. ASSUME NEW t \in Threads, Exit(t) \/ Sleep(t) \/ SpuriousWakeup(t)
         PROVE  TypeOK'
    BY <2>10 DEF Exit, Sleep, SpuriousWakeup, Goto
  <2>11. ASSUME NEW t \in Threads, Dequeue(t) PROVE TypeOK'
    BY <2>11, SlotAdvance DEF Dequeue, Goto
  <2>12. ASSUME NEW t \in Threads, EnterDecoder(t) \/ LeaveDecoder(t)
         PROVE  TypeOK'
    BY <2>12 DEF EnterDecoder, LeaveDecoder, Goto
  <2>13. ASSUME NEW t \in Threads, MarkBirdie(t) \/ BirdieCallback(t)
         PROVE  TypeOK'
    BY ZenonT(60), <2>13 DEF MarkBirdie, BirdieCallback, ResultReleases, Goto
  <2>14. ASSUME NEW t \in Threads, Publish(t) \/ PublishCallback(t)
         PROVE  TypeOK'
    BY <2>14 DEF Publish, PublishCallback, ResultReleases, Goto, GotoWaking,
                 Waiters
  <2>15. CASE UNCHANGED vars
    BY <2>15 DEF vars, ctrl
  <2> QED
    BY <2>1, <2>2, <2>3, <2>4, <2>5, <2>6, <2>7, <2>8, <2>9, <2>10, <2>11,
       <2>12, <2>13, <2>14, <2>15
       DEF Next, Stopping, Controlling, Decoding, Finished
<1> QED
  BY <1>1, <1>2, PTL DEF Spec

-------------------------------------------------------------------------------
\* One controller at a time drives the worker (the detection thread, or the
\* offline replay).
OneController == \A c, d \in Callers : c = d

\* AccountInv is preserved by every step of a worker that one controller
\* drives and whose decoder reports no steady carrier.
LEMMA AccountStep ==
  ASSUME OneController, ~SteadyCarrier,
         TypeOK, AccountInv, [Next]_vars
  PROVE  AccountInv'
<1> USE ConstantsAssumption DEF Procs, StopPc, flags, joinVar, ring
<1>1. ASSUME NEW c \in Callers, NEW o \in Ops, Call(c, o) PROVE AccountInv'
  BY <1>1 DEF Call, Goto, AccountInv, TypeOK
<1>2. ASSUME NEW p \in Procs, StopSignal(p) PROVE AccountInv'
  <2>1. p \in Callers
    BY <1>2 DEF StopSignal, AccountInv
  <2> QED
    BY <1>2, <2>1 DEF StopSignal, GotoWaking, Waiters, AccountInv, TypeOK,
                      OneController
<1>3. ASSUME NEW p \in Procs, StopJoin(p) PROVE AccountInv'
  <2>1. p \in Callers
    BY <1>3 DEF StopJoin, AccountInv
  <2> QED
    BY <1>3, <2>1 DEF StopJoin, Goto, AccountInv, TypeOK, OneController
<1>4. ASSUME NEW p \in Procs, StopFree(p) PROVE AccountInv'
  <2>1. p \in Callers
    BY <1>4 DEF StopFree, AccountInv
  <2>2. \A t \in Threads : pc[t] = "none"
    BY <1>4, <2>1 DEF StopFree, AccountInv, OneController
  <2>3. AfterStop(op[p]) \in {"create", "clear", "destroy"}
    BY DEF AfterStop, TypeOK, Ops
  <2> QED
    BY <1>4, <2>1, <2>2, <2>3 DEF StopFree, Goto, AccountInv, TypeOK
<1>5. ASSUME NEW p \in Procs, ResetClear(p) PROVE AccountInv'
  <2>1. p \in Callers
    BY <1>5 DEF ResetClear, AccountInv
  <2> QED
    BY <1>5, <2>1 DEF ResetClear, Goto, AccountInv, TypeOK, OneController
<1>6. ASSUME NEW c \in Callers, ShutdownDestroy(c) PROVE AccountInv'
  BY <1>6 DEF ShutdownDestroy, Goto, AccountInv, TypeOK, OneController
<1>7. ASSUME NEW c \in Callers, Create(c) PROVE AccountInv'
  <2>1. \A t \in Threads : pc[t] = "none"
    BY <1>7 DEF Create, StartNoDecoder, StartNoThread, StartThread,
                AccountInv, OneController
  <2>2. \A d \in Callers : d = c
    BY DEF OneController
  <2>3. CASE StartNoDecoder(c)
    BY <2>1, <2>2, <2>3 DEF StartNoDecoder, Goto, AccountInv, TypeOK
  <2>4. CASE StartNoThread(c)
    BY <2>1, <2>2, <2>4 DEF StartNoThread, Goto, AccountInv, TypeOK
  <2>5. CASE StartThread(c)
    BY <2>1, <2>2, <2>5 DEF StartThread, AccountInv, TypeOK
  <2> QED
    BY <1>7, <2>3, <2>4, <2>5 DEF Create
<1>8. ASSUME NEW c \in Callers, Submit(c) PROVE AccountInv'
  BY <1>8 DEF Submit, GotoWaking, Waiters, AccountInv, TypeOK
<1>9. ASSUME NEW c \in Callers, CallFlush(c) \/ WaitIdle(c) \/ Flush(c)
      PROVE  AccountInv'
  BY <1>9 DEF CallFlush, WaitIdle, Flush, Goto, AccountInv, TypeOK
<1>10. ASSUME NEW t \in Threads,
              Exit(t) \/ Sleep(t) \/ SpuriousWakeup(t) \/ Dequeue(t)
       PROVE  AccountInv'
  BY <1>10 DEF Exit, Sleep, SpuriousWakeup, Dequeue, Goto, AccountInv, TypeOK
<1>11. ASSUME NEW t \in Threads, EnterDecoder(t) \/ LeaveDecoder(t)
       PROVE  AccountInv'
  BY <1>11 DEF EnterDecoder, LeaveDecoder, Goto, AccountInv, TypeOK
<1>12. ASSUME NEW t \in Threads, MarkBirdie(t) \/ BirdieCallback(t)
       PROVE  AccountInv'
  BY <1>12 DEF MarkBirdie, BirdieCallback, AccountInv
<1>13. ASSUME NEW t \in Threads, Publish(t) \/ PublishCallback(t)
       PROVE  AccountInv'
  BY <1>13 DEF Publish, PublishCallback, ResultReleases, Goto, GotoWaking,
               Waiters, AccountInv, TypeOK
<1>14. CASE UNCHANGED vars
  BY <1>14 DEF vars, ctrl, AccountInv
<1> QED
  BY <1>1, <1>2, <1>3, <1>4, <1>5, <1>6, <1>7, <1>8, <1>9, <1>10, <1>11,
     <1>12, <1>13, <1>14
     DEF Next, Stopping, Controlling, Decoding, Finished

\* With one controller and no steady carrier every field keeps its type, and a
\* decode thread exists only together with its decoder and only until the stop
\* in progress has joined it.
THEOREM WorkerInvariant ==
  ASSUME OneController, ~SteadyCarrier
  PROVE  Spec => []IInv
<1>1. Init => AccountInv
  BY ConstantsAssumption DEF Init, AccountInv, Procs, StopPc
<1>2. TypeOK /\ AccountInv /\ [Next]_vars => AccountInv'
  BY AccountStep
<1>3. TypeOK /\ AccountInv => IInv
  BY DEF IInv
<1> QED
  BY <1>1, <1>2, <1>3, TypeCorrect, PTL DEF Spec

\* decode_worker_start never leaves two threads on one worker, decode_worker_stop
\* frees no decoder a thread is inside, and decode_worker_shutdown leaves no
\* thread behind, when one controller drives the worker and no thread resets
\* itself.
THEOREM WorkerSafety ==
  ASSUME OneController, ~SteadyCarrier
  PROVE  Spec => []WorkerSafe
<1>1. TypeOK /\ AccountInv =>
          OneDecoderThread /\ DecoderLive /\ NoThreadOutlivesWorker
  BY DEF AccountInv, OneDecoderThread, DecoderLive, NoThreadOutlivesWorker,
         OneController, TypeOK
<1>2. TypeOK /\ AccountInv => ThreadAccounted
  BY ConstantsAssumption
     DEF AccountInv, ThreadAccounted, OneController, Procs, StopPc
<1>3. /\ OneDecoderThread /\ DecoderLive /\ NoThreadOutlivesWorker /\ ThreadAccounted
      => WorkerSafe
  BY DEF WorkerSafe
<1>4. IInv => TypeOK /\ AccountInv
  BY DEF IInv
<1> QED
  BY <1>1, <1>2, <1>3, <1>4, WorkerInvariant, PTL

-------------------------------------------------------------------------------
(* The ring is a FIFO.  QueueOf(r, h, c) is what Fifo maps the ring to: the c *)
(* chunks of r from slot h on; chunk i of them is in slot SlotOf(h, i).       *)
QueueOf(r, h, c) == [i \in 1 .. c |-> r[(h + i - 1) % DEPTH]]

Modulo(x) == IF x < DEPTH THEN x ELSE x - DEPTH

SlotOf(h, i) == Modulo(h + i - 1)

\* An index that went round the ring at most once is taken modulo its length.
LEMMA Wrapped ==
  ASSUME NEW x \in 0 .. 2 * DEPTH - 1
  PROVE  x % DEPTH = Modulo(x) /\ Modulo(x) \in Slots
<1>1. DEPTH \in Nat \ {0}
  BY ConstantsAssumption
<1>2. Modulo(x) \in Slots
  BY <1>1 DEF Modulo, Slots
<1>3. CASE x < DEPTH
  BY <1>1, <1>2, <1>3 DEF Modulo
<1>4. CASE x >= DEPTH
  <2> DEFINE m == x % DEPTH
             d == x \div DEPTH
             y == DEPTH * d
  <2>1. /\ x \in Nat /\ x < 2 * DEPTH
        /\ m \in 0 .. DEPTH - 1 /\ d \in Int /\ y \in Int
    BY <1>1
  <2>2. x = y + m
    BY <1>1, <2>1
  <2>3. /\ d <= 0 => y <= 0
        /\ d >= 2 => y >= 2 * DEPTH
        /\ d = 1 => y = DEPTH
    BY <1>1, <2>1
  <2> HIDE DEF m, d, y
  <2>4. d = 1
    BY <1>1, <1>4, <2>1, <2>2, <2>3
  <2>5. m = x - DEPTH
    BY <1>1, <2>1, <2>2, <2>3, <2>4
  <2> QED
    BY <1>1, <1>2, <1>4, <2>5 DEF m, Modulo
<1> QED
  BY <1>1, <1>3, <1>4

\* The queue a ring holds.
LEMMA QueueOfIs ==
  ASSUME NEW r \in [Slots -> Chunks], NEW h \in Slots, NEW c \in 0 .. DEPTH
  PROVE  /\ QueueOf(r, h, c) \in Seq(Chunks) /\ Len(QueueOf(r, h, c)) = c
         /\ \A i \in 1 .. c : /\ QueueOf(r, h, c)[i] = r[SlotOf(h, i)]
                              /\ SlotOf(h, i) \in Slots
<1>1. DEPTH \in Nat \ {0}
  BY ConstantsAssumption
<1> DEFINE g(i) == r[(h + i - 1) % DEPTH]
<1>2. ASSUME NEW i \in 1 .. c
      PROVE  g(i) = r[SlotOf(h, i)] /\ SlotOf(h, i) \in Slots
  <2> DEFINE x == h + i - 1
  <2>1. x \in 0 .. 2 * DEPTH - 1
    BY <1>1 DEF Slots
  <2> HIDE DEF x
  <2>2. x % DEPTH = Modulo(x) /\ Modulo(x) \in Slots
    BY <2>1, Wrapped
  <2> QED
    BY <2>2 DEF SlotOf, x
<1>3. \A i \in 1 .. c : r[SlotOf(h, i)] \in Chunks
  BY <1>2
<1>4. QueueOf(r, h, c) = [i \in 1 .. c |-> g(i)]
  BY DEF QueueOf
<1> HIDE DEF g
<1>5. \A i \in 1 .. c : g(i) \in Chunks
  BY <1>2, <1>3
<1> QED
  BY <1>1, <1>2, <1>4, <1>5

\* A chunk stored in the slot behind the last one is appended.
LEMMA QueuePut ==
  ASSUME NEW r \in [Slots -> Chunks], NEW h \in Slots, NEW c \in 0 .. DEPTH - 1,
         NEW x \in Chunks
  PROVE  /\ QueueOf([r EXCEPT ![Modulo(h + c)] = x], h, c + 1)
              = Append(QueueOf(r, h, c), x)
         /\ (Modulo(h + c) + 1) % DEPTH = Modulo(h + (c + 1))
<1>1. DEPTH \in Nat \ {0}
  BY ConstantsAssumption
<1> DEFINE w == Modulo(h + c)
           s == [r EXCEPT ![w] = x]
           q == QueueOf(r, h, c)
           u == QueueOf(s, h, c + 1)
<1>2. w \in Slots /\ w = SlotOf(h, c + 1)
  BY <1>1 DEF Slots, Modulo, SlotOf
<1>3. \A i \in 1 .. c : SlotOf(h, i) # w
  BY <1>1 DEF Slots, Modulo, SlotOf
<1>4. (w + 1) % DEPTH = Modulo(h + (c + 1))
  <2> DEFINE y == w + 1
  <2>1. y \in 0 .. 2 * DEPTH - 1
    BY <1>1, <1>2 DEF Slots
  <2>2. Modulo(y) = Modulo(h + (c + 1))
    BY <1>1 DEF Modulo, Slots
  <2> HIDE DEF y
  <2>3. y % DEPTH = Modulo(y)
    BY <2>1, Wrapped
  <2> QED
    BY <2>2, <2>3 DEF y
<1>5. /\ s \in [Slots -> Chunks] /\ s[w] = x
      /\ \A i \in Slots : i # w => s[i] = r[i]
  BY <1>2
<1>6. /\ c \in 0 .. DEPTH /\ c + 1 \in 0 .. DEPTH /\ c \in Nat
  BY <1>1
<1>7. /\ q \in Seq(Chunks) /\ Len(q) = c
      /\ \A i \in 1 .. c : q[i] = r[SlotOf(h, i)] /\ SlotOf(h, i) \in Slots
  BY <1>6, QueueOfIs
<1> HIDE DEF w, s, q
<1>8. /\ u \in Seq(Chunks) /\ Len(u) = c + 1
      /\ \A i \in 1 .. c + 1 : u[i] = s[SlotOf(h, i)]
  BY <1>5, <1>6, QueueOfIs
<1> HIDE DEF u
<1>9. /\ Append(q, x) \in Seq(Chunks) /\ Len(Append(q, x)) = c + 1
      /\ \A i \in 1 .. c : Append(q, x)[i] = q[i]
      /\ Append(q, x)[c + 1] = x
  BY <1>7, AppendProperties
<1>10. \A i \in 1 .. c + 1 : u[i] = Append(q, x)[i]
  <2>1. u[c + 1] = x
    BY <1>2, <1>5, <1>6, <1>8
  <2>2. ASSUME NEW i \in 1 .. c PROVE u[i] = q[i]
    <3>1. u[i] = s[SlotOf(h, i)]
      BY <1>6, <1>8
    <3> QED
      BY <1>3, <1>5, <1>7, <3>1
  <2> QED
    BY <1>6, <1>9, <2>1, <2>2
<1>11. u = Append(q, x)
  BY <1>8, <1>9, <1>10, SeqEqual
<1> QED
  BY <1>4, <1>11 DEF w, s, q, u

\* The thread takes the head and leaves the tail.
LEMMA QueueTake ==
  ASSUME NEW r \in [Slots -> Chunks], NEW h \in Slots, NEW c \in 1 .. DEPTH
  PROVE  /\ QueueOf(r, h, c) # << >>
         /\ Head(QueueOf(r, h, c)) = r[h]
         /\ QueueOf(r, (h + 1) % DEPTH, c - 1) = Tail(QueueOf(r, h, c))
         /\ Modulo(((h + 1) % DEPTH) + (c - 1)) = Modulo(h + c)
<1>1. DEPTH \in Nat \ {0}
  BY ConstantsAssumption
<1> DEFINE k == (h + 1) % DEPTH
           q == QueueOf(r, h, c)
           u == QueueOf(r, k, c - 1)
<1>2. k = Modulo(h + 1) /\ k \in Slots
  <2> DEFINE y == h + 1
  <2>1. y \in 0 .. 2 * DEPTH - 1
    BY <1>1 DEF Slots
  <2> HIDE DEF y
  <2>2. y % DEPTH = Modulo(y) /\ Modulo(y) \in Slots
    BY <2>1, Wrapped
  <2> QED
    BY <2>2 DEF y
<1>3. c \in 0 .. DEPTH /\ c - 1 \in 0 .. DEPTH /\ c \in Nat \ {0}
  BY <1>1
<1>4. /\ q \in Seq(Chunks) /\ Len(q) = c
      /\ \A i \in 1 .. c : q[i] = r[SlotOf(h, i)]
  BY <1>3, QueueOfIs
<1> HIDE DEF q, k
<1>5. /\ u \in Seq(Chunks) /\ Len(u) = c - 1
      /\ \A i \in 1 .. c - 1 : u[i] = r[SlotOf(k, i)]
  BY <1>2, <1>3, QueueOfIs
<1> HIDE DEF u
<1>6. \A i \in 1 .. c - 1 : SlotOf(k, i) = SlotOf(h, i + 1)
  BY <1>1, <1>2 DEF Slots, Modulo, SlotOf
<1>7. SlotOf(h, 1) = h /\ Modulo(k + (c - 1)) = Modulo(h + c)
  BY <1>1, <1>2, <1>3 DEF Slots, Modulo, SlotOf
<1>8. q # << >> /\ Head(q) = r[h]
  <2>1. q[1] = r[h]
    BY <1>3, <1>4, <1>7
  <2> QED
    BY <1>3, <1>4, <2>1
<1>9. /\ Tail(q) \in Seq(Chunks) /\ Len(Tail(q)) = c - 1
      /\ \A i \in 1 .. c - 1 : Tail(q)[i] = q[i + 1]
  BY <1>3, <1>4, <1>8, HeadTailProperties
<1>10. \A i \in 1 .. c - 1 : u[i] = Tail(q)[i]
  <2> SUFFICES ASSUME NEW i \in 1 .. c - 1 PROVE u[i] = Tail(q)[i]
    OBVIOUS
  <2>1. i + 1 \in 1 .. c
    BY <1>3
  <2> QED
    BY <1>4, <1>5, <1>6, <1>9, <2>1
<1>11. u = Tail(q)
  BY <1>5, <1>9, <1>10, SeqEqual
<1> QED
  BY <1>7, <1>8, <1>11 DEF k, q, u

\* queue_write is the slot behind the last queued chunk.
WriteFollows == queue_write = Modulo(queue_read + queue_count)

queue == QueueOf(iq_queue, queue_read, queue_count)

\* What a step does to the ring, the number of the last chunk and the threads'
\* copies: nothing, empty it, take one out, or put one in.
LEMMA RingStep ==
  ASSUME TypeOK, WriteFollows, [Next]_vars
  PROVE  /\ WriteFollows'
         /\ \/ UNCHANGED <<queue, accepted, local_iq>>
            \/ queue' = << >> /\ UNCHANGED <<accepted, local_iq>>
            \/ /\ queue # << >>
               /\ \E t \in Threads :
                    local_iq' = [local_iq EXCEPT ![t] = Head(queue)]
               /\ queue' = Tail(queue)
               /\ UNCHANGED accepted
            \/ /\ Len(queue) < DEPTH
               /\ accepted' = accepted + 1
               /\ queue' = Append(queue, accepted + 1)
               /\ UNCHANGED local_iq
<1> DEFINE Good == WriteFollows' /\ (
            \/ UNCHANGED <<queue, accepted, local_iq>>
            \/ queue' = << >> /\ UNCHANGED <<accepted, local_iq>>
            \/ /\ queue # << >>
               /\ \E t \in Threads :
                    local_iq' = [local_iq EXCEPT ![t] = Head(queue)]
               /\ queue' = Tail(queue)
               /\ UNCHANGED accepted
            \/ /\ Len(queue) < DEPTH
               /\ accepted' = accepted + 1
               /\ queue' = Append(queue, accepted + 1)
               /\ UNCHANGED local_iq)
<1>1. ASSUME UNCHANGED <<ring, accepted, local_iq>> PROVE Good
  BY <1>1 DEF ring, WriteFollows, queue
<1>2. ASSUME ClearQueue, UNCHANGED <<accepted, local_iq>> PROVE Good
  <2>1. queue' = << >>
    BY <1>2 DEF queue, QueueOf, ClearQueue
  <2>2. WriteFollows'
    BY <1>2, ConstantsAssumption DEF ClearQueue, WriteFollows, Modulo
  <2> QED
    BY <1>2, <2>1, <2>2
<1>3. ASSUME NEW t \in Threads, Dequeue(t) PROVE Good
  <2>1. /\ iq_queue \in [Slots -> Chunks] /\ queue_read \in Slots
        /\ queue_count \in 1 .. DEPTH
    BY <1>3, ConstantsAssumption DEF TypeOK, Dequeue
  <2>2. /\ queue # << >> /\ Head(queue) = iq_queue[queue_read]
        /\ QueueOf(iq_queue, (queue_read + 1) % DEPTH, queue_count - 1) = Tail(queue)
        /\ Modulo(((queue_read + 1) % DEPTH) + (queue_count - 1))
             = Modulo(queue_read + queue_count)
    BY <2>1, QueueTake DEF queue
  <2>3. /\ iq_queue' = iq_queue /\ queue_write' = queue_write
        /\ queue_read' = (queue_read + 1) % DEPTH
        /\ queue_count' = queue_count - 1
        /\ local_iq' = [local_iq EXCEPT ![t] = iq_queue[queue_read]]
        /\ accepted' = accepted
    BY <1>3 DEF Dequeue
  <2>4. queue' = Tail(queue)
    BY <2>2, <2>3 DEF queue
  <2>5. WriteFollows'
    BY <2>2, <2>3 DEF WriteFollows
  <2> QED
    BY <2>2, <2>3, <2>4, <2>5
<1>4. ASSUME NEW c \in Callers, Submit(c) PROVE Good
  <2>1. /\ iq_queue \in [Slots -> Chunks] /\ queue_read \in Slots
        /\ queue_count \in 0 .. DEPTH - 1 /\ accepted + 1 \in Chunks
    BY <1>4, ConstantsAssumption DEF TypeOK, Submit, CanSubmit, Chunks
  <2> DEFINE x == accepted + 1
  <2>2. /\ QueueOf([iq_queue EXCEPT ![Modulo(queue_read + queue_count)] = x],
                   queue_read, queue_count + 1)
             = Append(queue, x)
        /\ (Modulo(queue_read + queue_count) + 1) % DEPTH
             = Modulo(queue_read + (queue_count + 1))
    <3> HIDE DEF x
    <3> QED
      BY <2>1, QueuePut DEF queue, x
  <2>3. /\ iq_queue' = [iq_queue EXCEPT ![queue_write] = x]
        /\ queue_write' = (queue_write + 1) % DEPTH
        /\ queue_count' = queue_count + 1
        /\ accepted' = x
        /\ queue_read' = queue_read /\ local_iq' = local_iq
    BY <1>4 DEF Submit
  <2>4. queue' = Append(queue, x)
    BY <2>2, <2>3 DEF queue, WriteFollows
  <2>5. WriteFollows'
    BY <2>2, <2>3 DEF WriteFollows
  <2>6. Len(queue) < DEPTH
    <3>1. queue_count \in 0 .. DEPTH
      BY <2>1, ConstantsAssumption
    <3>2. Len(queue) = queue_count
      BY <2>1, <3>1, QueueOfIs DEF queue
    <3> QED
      BY <2>1, <3>2, ConstantsAssumption
  <2> QED
    BY <2>3, <2>4, <2>5, <2>6
<1> HIDE DEF Good
<1>5. ASSUME NEW p \in Procs, Stopping(p) PROVE Good
  <2>1. CASE StopFree(p)
    BY <1>2, <2>1 DEF StopFree
  <2>2. CASE ~StopFree(p)
    BY <1>1, <1>5, <2>2 DEF Stopping, StopSignal, StopJoin, ResetClear
  <2> QED
    BY <2>1, <2>2
<1>6. ASSUME NEW c \in Callers, Controlling(c) PROVE Good
  <2>1. CASE Submit(c)
    BY <1>4, <2>1
  <2>2. CASE Create(c)
    BY <1>1, <1>2, <2>2 DEF Create, StartNoDecoder, StartNoThread, StartThread
  <2>3. ASSUME NEW o \in Ops, Call(c, o) PROVE Good
    BY <1>1, <2>3 DEF Call
  <2>4. CASE ShutdownDestroy(c) \/ CallFlush(c) \/ WaitIdle(c) \/ Flush(c)
    BY <1>1, <2>4 DEF ShutdownDestroy, CallFlush, WaitIdle, Flush
  <2> QED
    BY <1>6, <2>1, <2>2, <2>3, <2>4 DEF Controlling
<1>7. ASSUME NEW t \in Threads, Decoding(t) PROVE Good
  <2>1. CASE Dequeue(t)
    BY <1>3, <2>1
  <2>2. CASE Exit(t) \/ Sleep(t) \/ SpuriousWakeup(t) \/ EnterDecoder(t)
             \/ LeaveDecoder(t)
    BY <1>1, <2>2 DEF Exit, Sleep, SpuriousWakeup, EnterDecoder, LeaveDecoder
  <2>3. CASE MarkBirdie(t) \/ BirdieCallback(t) \/ Publish(t) \/ PublishCallback(t)
    BY <1>1, <2>3 DEF MarkBirdie, BirdieCallback, Publish, PublishCallback
  <2> QED
    BY <1>7, <2>1, <2>2, <2>3 DEF Decoding
<1>8. ASSUME UNCHANGED vars PROVE Good
  <2>1. UNCHANGED <<ring, accepted, local_iq>>
    BY <1>8 DEF vars, ring
  <2> QED
    BY <1>1, <2>1
<1>9. Good
  BY <1>5, <1>6, <1>7, <1>8 DEF Next, Finished
<1> QED
  BY <1>9 DEF Good

\* The ring of chunks with its three counters implements the bounded FIFO,
\* whoever starts, stops, resets, feeds or empties the worker, carriers and
\* leftover threads included: chunks leave in the order decode_worker_submit_iq
\* accepted them, each to one thread, and disappear only all at once.
THEOREM RingIsFifo == Spec => FifoSpec
<1>1. Init => WriteFollows /\ queue = << >> /\ accepted = 0
                /\ local_iq = [t \in Threads |-> 0]
  BY ConstantsAssumption DEF Init, WriteFollows, Modulo, queue, QueueOf
<1>2. Init => Fifo!Init
  BY <1>1 DEF Fifo!Init, queue, QueueOf
<1>3. TypeOK /\ WriteFollows /\ [Next]_vars => WriteFollows'
  BY RingStep
<1>4. TypeOK /\ WriteFollows /\ [Next]_vars
        => [Fifo!Next]_<<accepted, queue, local_iq>>
  BY RingStep DEF Fifo!Next, Fifo!Put, Fifo!Take, Fifo!Discard, queue, QueueOf
<1> QED
  BY <1>1, <1>2, <1>3, <1>4, TypeCorrect, PTL DEF Spec, FifoSpec, Fifo!Spec, queue, QueueOf
===============================================================================
