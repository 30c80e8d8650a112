------------------------------ MODULE LinksProofs ------------------------------
(***************************************************************************)
(* The radio control for queues and backlogs of any length, any number of  *)
(* commands and speeds: commands keep their order on their way through the *)
(* queue, the batch and the backlog to the sockets, and the CAT socket is  *)
(* asked once at a time and knows the speed.                               *)
(*                                                                         *)
(* When one thread makes all the calls, as the command-line program does,  *)
(* the three counters of the reporter's ring agree and no spot is lost,    *)
(* for any length of the ring and any number of spots, whatever sends and  *)
(* connects fail.                                                          *)
(***************************************************************************)
EXTENDS Links, Integers, SequenceTheorems, WellFoundedInduction, TLAPS

\* Commands in the order they were issued, and after number n.
Ordered(s)  == \A i, j \in 1 .. Len(s) : i < j => s[i].num < s[j].num
After(n, s) == \A i \in 1 .. Len(s) : n < s[i].num

\* A new CAT socket is told the speed and an open one is told of every change,
\* unless that is still to be done by the service that took the flag, or that
\* service gave up.
SpeedKnown ==
    /\ ky_state = "ready" /\ ~speed_dirty /\ ~send_wpm /\ ~missed => ky_speed = wpm
    /\ send_wpm => pc \in {"taken", "ky", "ky_read", "ky_poll", "speed"} /\ ret = "speed"

\* The CAT socket is read and asked only while it is open.
Polling == OnePoll /\ (pc \in {"ky_read", "ky_poll"} => ky_state = "ready")

\* Commands go from the queue through the batch to a socket or the backlog, and
\* those further on were issued earlier.
QueueLast ==
    /\ Ordered(queue)
    /\ After(sent, queue) /\ After(keyed, queue)
    /\ \A i \in 1 .. Len(batch) : After(batch[i].num, queue)
    /\ \A i \in 1 .. Len(ky_backlog) : After(ky_backlog[i], queue)
    /\ \A i \in 1 .. Len(queue) : queue[i].num <= issued
BatchNext ==
    /\ Ordered(batch)
    /\ After(sent, batch) /\ After(keyed, batch)
    /\ \A i \in 1 .. Len(ky_backlog) : After(ky_backlog[i], batch)
    /\ \A i \in 1 .. Len(batch) : batch[i].num <= issued
BacklogFirst ==
    /\ \A i, j \in 1 .. Len(ky_backlog) : i < j => ky_backlog[i] < ky_backlog[j]
    /\ \A i \in 1 .. Len(ky_backlog) :
          ky_backlog[i] <= issued /\ (i > ky_pos => keyed < ky_backlog[i])

IInv == TypeOK /\ Polling /\ SpeedKnown /\ QueueLast /\ BatchNext /\ BacklogFirst

\* A set of numbers that is not empty has a least one.
LEMMA LeastNat ==
  ASSUME NEW T \in SUBSET Nat, T # {}
  PROVE  \E m \in T : \A n \in T : m <= n
<1> DEFINE R == OpToRel(<, Nat)
<1>1. IsWellFoundedOn(R, Nat)
  BY NatLessThanWellFounded
<1>2. \A x, y \in Nat : <<x, y>> \in R <=> x < y
  BY DEF OpToRel
<1> HIDE DEF R
<1>3. PICK x \in T : \A y \in T : ~ (<<y, x>> \in R)
  BY <1>1, WFMin
<1>4. \A y \in T : ~ (y < x) /\ y \in Nat
  BY <1>2, <1>3
<1> QED
  BY <1>4

\* Induction over the numbers up to n, for a set of them.
LEMMA UpTo ==
  ASSUME NEW n \in Nat, NEW S, 0 \in S,
         \A i \in 1 .. n : i - 1 \in S => i \in S
  PROVE  0 .. n \subseteq S
<1> SUFFICES ASSUME 0 .. n \ S # {} PROVE FALSE
  OBVIOUS
<1>1. PICK m \in 0 .. n \ S : \A i \in 0 .. n \ S : m <= i
  <2> DEFINE T == 0 .. n \ S
  <2>1. T \in SUBSET Nat /\ T # {}
    OBVIOUS
  <2> HIDE DEF T
  <2>2. \E m \in T : \A i \in T : m <= i
    BY <2>1, LeastNat
  <2> QED
    BY <2>2 DEF T
<1>2. m \in 1 .. n /\ m - 1 \in 0 .. n
  BY <1>1
<1> QED
  BY <1>1, <1>2

\* The recursive definition of what is kept defines a function.
LEMMA KeptIs ==
  ASSUME NEW q \in Seq(Op), NEW kind
  PROVE  /\ kept(q, kind)[0] = << >>
         /\ \A i \in 1 .. Len(q) :
               kept(q, kind)[i] = IF q[i].kind # kind
                                  THEN Append(kept(q, kind)[i - 1], q[i])
                                  ELSE kept(q, kind)[i - 1]
<1> DEFINE F(f, i) == IF i = 0 THEN << >>
                      ELSE IF q[i].kind # kind THEN Append(f[i - 1], q[i]) ELSE f[i - 1]
           n == Len(q)
           Works(k, f) == /\ f = [i \in 0 .. k |-> f[i]]
                          /\ \A i \in 0 .. k : f[i] = F(f, i)
           S == {k \in 0 .. n : \E f : Works(k, f)}
<1>1. n \in Nat
  OBVIOUS
<1>2. 0 \in S
  <2>1. Works(0, [i \in 0 .. 0 |-> << >>])
    OBVIOUS
  <2> HIDE DEF Works
  <2> QED
    BY <1>1, <2>1
<1>3. \A k \in 1 .. n : k - 1 \in S => k \in S
  <2> SUFFICES ASSUME NEW k \in 1 .. n, k - 1 \in S PROVE \E g : Works(k, g)
    BY <1>1
  <2>1. PICK f : Works(k - 1, f)
    OBVIOUS
  <2> DEFINE g == [i \in 0 .. k |-> IF i = k THEN F(f, k) ELSE f[i]]
  <2>2. \A i \in 0 .. k : g[i] = F(g, i)
    <3> SUFFICES ASSUME NEW i \in 0 .. k PROVE g[i] = F(g, i)
      OBVIOUS
    <3>1. i # 0 => i - 1 \in 0 .. k /\ i - 1 # k /\ g[i - 1] = f[i - 1]
      OBVIOUS
    <3>2. F(g, i) = F(f, i)
      BY <3>1
    <3> HIDE DEF F
    <3>3. g[i] = IF i = k THEN F(f, k) ELSE f[i]
      OBVIOUS
    <3>4. i # k => f[i] = F(f, i)
      BY <2>1
    <3> HIDE DEF g
    <3> QED
      BY <3>2, <3>3, <3>4
  <2>3. g = [i \in 0 .. k |-> g[i]]
    OBVIOUS
  <2> QED
    BY <2>2, <2>3
<1>4. n \in S
  <2> HIDE DEF S, n
  <2>1. 0 .. n \subseteq S
    BY <1>1, <1>2, <1>3, UpTo
  <2> QED
    BY <1>1, <2>1
<1>5. PICK f : Works(n, f)
  BY <1>4
<1>6. f = [i \in 0 .. n |-> F(f, i)]
  BY <1>5
<1>7. kept(q, kind) = [i \in 0 .. n |-> F(kept(q, kind), i)]
  <2> DEFINE D(h) == h = [i \in 0 .. n |-> F(h, i)]
  <2>1. kept(q, kind) = CHOOSE h : D(h)
    BY DEF kept
  <2>2. D(f)
    BY <1>6
  <2> HIDE DEF D
  <2>3. D(kept(q, kind))
    BY <2>1, <2>2
  <2> QED
    BY <2>3 DEF D
<1> DEFINE K == kept(q, kind)
<1>8. \A i \in 0 .. n : K[i] = F(K, i)
  BY <1>7
<1> QED
  BY <1>1, <1>8

-------------------------------------------------------------------------------
\* Dropping the commands of a kind keeps the others, in their order.
LEMMA DropKindKeeps ==
  ASSUME NEW q \in Seq(Op), Ordered(q), NEW kind
  PROVE  /\ DropKind(q, kind) \in Seq(Op) /\ Len(DropKind(q, kind)) <= Len(q)
         /\ Ordered(DropKind(q, kind))
         /\ \A j \in 1 .. Len(DropKind(q, kind)) :
               /\ DropKind(q, kind)[j].kind # kind
               /\ \E i \in 1 .. Len(q) : DropKind(q, kind)[j] = q[i]
<1> DEFINE K == kept(q, kind)
           n == Len(q)
           Good(k) == /\ K[k] \in Seq(Op) /\ Len(K[k]) <= k /\ Ordered(K[k])
                      /\ \A j \in 1 .. Len(K[k]) :
                            K[k][j].kind # kind /\ \E i \in 1 .. k : K[k][j] = q[i]
           S == {k \in 0 .. n : Good(k)}
<1>1. n \in Nat /\ \A i \in 1 .. n : q[i] \in Op
  OBVIOUS
<1>2. 0 \in S
  <2>1. K[0] = << >>
    BY KeptIs
  <2>2. Good(0)
    BY <2>1 DEF Ordered
  <2> HIDE DEF Good
  <2> QED
    BY <1>1, <2>2
<1>3. \A k \in 1 .. n : k - 1 \in S => k \in S
  <2> SUFFICES ASSUME NEW k \in 1 .. n, Good(k - 1) PROVE Good(k)
    BY <1>1
  <2> DEFINE a == K[k - 1]
  <2>1. K[k] = IF q[k].kind # kind THEN Append(a, q[k]) ELSE a
    BY KeptIs
  <2>2. /\ a \in Seq(Op) /\ Len(a) <= k - 1 /\ Ordered(a)
        /\ \A j \in 1 .. Len(a) : a[j].kind # kind /\ \E i \in 1 .. k - 1 : a[j] = q[i]
    OBVIOUS
  <2> DEFINE b == Append(a, q[k])
  <2> HIDE DEF a, K
  <2>3. CASE K[k] = a
    BY <2>2, <2>3, <1>1
  <2>4. CASE q[k].kind # kind /\ K[k] = b
    <3>1. /\ b \in Seq(Op) /\ Len(b) = Len(a) + 1 /\ b[Len(a) + 1] = q[k]
          /\ \A j \in 1 .. Len(a) : b[j] = a[j]
      BY <1>1, <2>2
    <3>2. Len(b) <= k
      BY <2>2, <3>1
    <3>3. \A j \in 1 .. Len(b) : b[j].kind # kind /\ \E i \in 1 .. k : b[j] = q[i]
      BY <2>2, <2>4, <3>1
    <3>4. \A j \in 1 .. Len(a) : a[j].num < q[k].num
      <4> SUFFICES ASSUME NEW j \in 1 .. Len(a) PROVE a[j].num < q[k].num
        OBVIOUS
      <4>1. PICK i \in 1 .. k - 1 : a[j] = q[i]
        BY <2>2
      <4> QED
        BY <1>1, <4>1 DEF Ordered
    <3> HIDE DEF b
    <3>5. Ordered(b)
      <4> SUFFICES ASSUME NEW i \in 1 .. Len(b), NEW j \in 1 .. Len(b), i < j
                   PROVE  b[i].num < b[j].num
        BY DEF Ordered
      <4>1. Len(a) \in Nat /\ i \in 1 .. Len(a)
        BY <2>2, <3>1
      <4>2. CASE j = Len(a) + 1
        BY <3>1, <3>4, <4>1, <4>2
      <4>3. CASE j # Len(a) + 1
        <5>1. j \in 1 .. Len(a)
          BY <3>1, <4>1, <4>3
        <5> QED
          BY <2>2, <3>1, <4>1, <5>1 DEF Ordered
      <4> QED
        BY <4>2, <4>3
    <3> QED
      BY <2>4, <3>1, <3>2, <3>3, <3>5
  <2> QED
    BY <2>1, <2>3, <2>4
<1>4. n \in S
  <2> HIDE DEF S, n
  <2>1. 0 .. n \subseteq S
    BY <1>1, <1>2, <1>3, UpTo
  <2> QED
    BY <1>1, <2>1
<1>5. DropKind(q, kind) = K[n]
  BY DEF DropKind
<1>6. Good(n)
  BY <1>4
<1> HIDE DEF K
<1> QED
  BY <1>5, <1>6

\* A command pushed is the last one, and room is made at the front.
LEMMA PushIsLast ==
  ASSUME NEW q \in Seq(Op), Len(q) <= RC_QUEUE, Ordered(q),
         NEW op \in Op, \A i \in 1 .. Len(q) : q[i].num < op.num
  PROVE  /\ Push(q, op) \in Seq(Op) /\ Len(Push(q, op)) <= RC_QUEUE
         /\ Ordered(Push(q, op))
         /\ \A j \in 1 .. Len(Push(q, op)) :
               Push(q, op)[j] = op \/ \E i \in 1 .. Len(q) : Push(q, op)[j] = q[i]
<1> DEFINE t == IF Len(q) >= RC_QUEUE THEN Tail(q) ELSE q
           r == Append(t, op)
<1>1. /\ t \in Seq(Op) /\ Len(t) < RC_QUEUE /\ Ordered(t)
      /\ \A j \in 1 .. Len(t) : \E i \in 1 .. Len(q) : t[j] = q[i]
  <2>1. CASE Len(q) >= RC_QUEUE
    <3>1. q # << >> /\ t = Tail(q)
      BY <2>1, RadioAssumption
    <3>2. /\ t \in Seq(Op) /\ Len(t) = Len(q) - 1
          /\ \A j \in 1 .. Len(t) : j + 1 \in 1 .. Len(q) /\ t[j] = q[j + 1]
      BY <3>1
    <3> HIDE DEF t
    <3>3. Ordered(t)
      BY SMTT(30), <3>2 DEF Ordered
    <3>4. Len(t) < RC_QUEUE
      BY <3>2, RadioAssumption
    <3> QED
      BY <3>2, <3>3, <3>4
  <2>2. CASE ~ (Len(q) >= RC_QUEUE)
    BY <2>2, RadioAssumption
  <2> QED
    BY <2>1, <2>2
<1> HIDE DEF t
<1>2. /\ r \in Seq(Op) /\ Len(r) = Len(t) + 1 /\ r[Len(t) + 1] = op
      /\ \A j \in 1 .. Len(t) : r[j] = t[j]
  BY <1>1
<1>3. Push(q, op) = r
  BY DEF Push, t
<1> HIDE DEF r
<1>4. \A j \in 1 .. Len(t) : t[j].num < op.num
  BY <1>1
<1>5. Ordered(r)
  <2> SUFFICES ASSUME NEW i \in 1 .. Len(r), NEW j \in 1 .. Len(r), i < j
               PROVE  r[i].num < r[j].num
    BY DEF Ordered
  <2>1. Len(t) \in Nat /\ i \in 1 .. Len(t)
    BY <1>1, <1>2
  <2>2. CASE j = Len(t) + 1
    BY <1>2, <1>4, <2>1, <2>2
  <2>3. CASE j # Len(t) + 1
    <3>1. j \in 1 .. Len(t)
      BY <1>2, <2>1, <2>3
    <3> QED
      BY <1>1, <1>2, <2>1, <3>1 DEF Ordered
  <2> QED
    BY <2>2, <2>3
<1>6. \A j \in 1 .. Len(r) : r[j] = op \/ \E i \in 1 .. Len(q) : r[j] = q[i]
  <2> SUFFICES ASSUME NEW j \in 1 .. Len(r)
               PROVE  r[j] = op \/ \E i \in 1 .. Len(q) : r[j] = q[i]
    OBVIOUS
  <2>1. CASE j = Len(t) + 1
    BY <1>2, <2>1
  <2>2. CASE j # Len(t) + 1
    <3>1. j \in 1 .. Len(t)
      BY <1>1, <1>2, <2>2
    <3> QED
      BY <1>1, <1>2, <3>1
  <2> QED
    BY <2>1, <2>2
<1>7. Len(r) <= RC_QUEUE
  BY <1>1, <1>2, RadioAssumption
<1> QED
  BY <1>2, <1>3, <1>5, <1>6, <1>7

-------------------------------------------------------------------------------
order == <<queue, batch, sent, keyed, issued, ky_backlog, ky_pos>>

\* What leaves the commands and the text alone keeps their order.
LEMMA OrderStays ==
  ASSUME QueueLast, BatchNext, BacklogFirst, UNCHANGED order
  PROVE  QueueLast' /\ BatchNext' /\ BacklogFirst'
BY DEF QueueLast, BatchNext, BacklogFirst, Ordered, After, order

\* Types of the queue's parts.
LEMMA OrderTypes ==
  ASSUME IInv
  PROVE  /\ queue \in Seq(Op) /\ batch \in Seq(Op) /\ ky_backlog \in Seq(1 .. MaxIssued)
         /\ Len(queue) \in Nat /\ Len(batch) \in Nat /\ Len(ky_backlog) \in Nat
         /\ \A i \in 1 .. Len(queue) : queue[i] \in Op /\ queue[i].num \in Nat
         /\ \A i \in 1 .. Len(batch) : batch[i] \in Op /\ batch[i].num \in Nat
         /\ \A i \in 1 .. Len(ky_backlog) : ky_backlog[i] \in Nat
         /\ sent \in Nat /\ keyed \in Nat /\ issued \in Nat /\ ky_pos \in Nat
         /\ sent <= issued /\ keyed <= issued
<1>1. queue \in Seq(Op) /\ batch \in Seq(Op) /\ ky_backlog \in Seq(1 .. MaxIssued)
  BY DEF IInv, TypeOK
<1>2. /\ issued \in 0 .. MaxIssued /\ sent \in 0 .. issued /\ keyed \in 0 .. issued
      /\ ky_pos \in 0 .. Len(ky_backlog)
  BY DEF IInv, TypeOK
<1>3. \A op \in Op : op.num \in 1 .. MaxIssued
  BY DEF Op
<1>4. 1 .. MaxIssued \subseteq Nat
  BY RadioAssumption
<1>5. \A i \in 1 .. Len(queue) : queue[i] \in Op
  BY <1>1
<1>6. \A i \in 1 .. Len(batch) : batch[i] \in Op
  BY <1>1
<1>7. \A i \in 1 .. Len(ky_backlog) : ky_backlog[i] \in 1 .. MaxIssued
  <2> DEFINE N == 1 .. MaxIssued
  <2>1. ky_backlog \in Seq(N)
    BY <1>1
  <2> HIDE DEF N
  <2>2. \A i \in 1 .. Len(ky_backlog) : ky_backlog[i] \in N
    BY <2>1
  <2> QED
    BY <2>2 DEF N
<1>8. Len(queue) \in Nat /\ Len(batch) \in Nat /\ Len(ky_backlog) \in Nat
  BY <1>1
<1> QED
  BY <1>1, <1>2, <1>3, <1>4, <1>5, <1>6, <1>7, <1>8, RadioAssumption

\* A command is issued: whatever of its kind was dropped before, it is the last.
LEMMA Issuing ==
  ASSUME IInv, NEW kind \in Kinds, NEW drop,
         \/ Issue(kind, queue)
         \/ Issue(kind, DropKind(queue, drop))
  PROVE  /\ queue' \in Seq(Op) /\ Len(queue') <= RC_QUEUE
         /\ issued' = issued + 1 /\ issued' \in 0 .. MaxIssued
         /\ Ordered(queue)'
         /\ \A j \in 1 .. Len(queue') :
               queue'[j].num = issued + 1 \/ \E i \in 1 .. Len(queue) : queue'[j] = queue[i]
<1> DEFINE op == [kind |-> kind, num |-> issued + 1]
<1>1. issued < MaxIssued /\ issued' = issued + 1 /\ issued \in Nat
  BY OrderTypes DEF Issue
<1>2. op \in Op /\ op.num = issued + 1
  BY <1>1, RadioAssumption DEF Op
<1>3. PICK q : /\ q \in {queue, DropKind(queue, drop)} /\ queue' = Push(q, op)
  BY DEF Issue
<1>4. queue \in Seq(Op) /\ Len(queue) <= RC_QUEUE /\ Ordered(queue)
  BY DEF IInv, TypeOK, QueueLast
<1>5. /\ q \in Seq(Op) /\ Len(q) <= RC_QUEUE /\ Ordered(q)
      /\ \A j \in 1 .. Len(q) : \E i \in 1 .. Len(queue) : q[j] = queue[i]
  <2>1. CASE q = queue
    BY <1>4, <2>1
  <2>2. CASE q = DropKind(queue, drop)
    <3>1. q \in Seq(Op) /\ Len(q) <= Len(queue) /\ Ordered(q)
      BY <1>4, <2>2, DropKindKeeps
    <3>2. \A j \in 1 .. Len(q) : \E i \in 1 .. Len(queue) : q[j] = queue[i]
      BY <1>4, <2>2, DropKindKeeps
    <3>3. Len(q) \in Nat /\ Len(queue) \in Nat /\ RC_QUEUE \in Nat
      BY <1>4, <3>1, RadioAssumption
    <3> QED
      BY <1>4, <3>1, <3>2, <3>3
  <2> QED
    BY <1>3, <2>1, <2>2
<1>6. \A j \in 1 .. Len(q) : q[j].num < op.num
  <2> SUFFICES ASSUME NEW j \in 1 .. Len(q) PROVE q[j].num < op.num
    OBVIOUS
  <2>1. PICK i \in 1 .. Len(queue) : q[j] = queue[i]
    BY <1>5
  <2>2. queue[i].num <= issued /\ queue[i].num \in Nat
    BY OrderTypes DEF IInv, QueueLast
  <2> QED
    BY <1>1, <1>2, <2>1, <2>2
<1> HIDE DEF op
<1> DEFINE r == Push(q, op)
<1>7. /\ r \in Seq(Op) /\ Len(r) <= RC_QUEUE /\ Ordered(r)
      /\ \A j \in 1 .. Len(r) : r[j] = op \/ \E i \in 1 .. Len(q) : r[j] = q[i]
  BY <1>2, <1>5, <1>6, PushIsLast
<1>8. queue' = r
  BY <1>3
<1> HIDE DEF r
<1>9. \A j \in 1 .. Len(r) : r[j].num = issued + 1 \/ \E i \in 1 .. Len(queue) : r[j] = queue[i]
  BY <1>2, <1>5, <1>7
<1>10. Ordered(queue)'
  BY <1>7, <1>8 DEF Ordered
<1>11. issued' \in 0 .. MaxIssued
  BY <1>1, RadioAssumption
<1> QED
  BY <1>1, <1>7, <1>8, <1>9, <1>10, <1>11

\* Then everything that is further on was issued before it.
LEMMA IssuedLast ==
  ASSUME IInv, issued' = issued + 1,
         UNCHANGED <<batch, sent, keyed>>,
         Ordered(queue)',
         \A j \in 1 .. Len(queue') :
            queue'[j].num = issued + 1 \/ \E i \in 1 .. Len(queue) : queue'[j] = queue[i],
         \/ UNCHANGED <<ky_backlog, ky_pos>>
         \/ ky_backlog' = << >>
  PROVE  QueueLast' /\ BatchNext' /\ BacklogFirst'
<1> USE OrderTypes
<1>1. \A n \in Nat : n <= issued /\ After(n, queue) => After(n, queue')
  <2> SUFFICES ASSUME NEW n \in Nat, n <= issued, After(n, queue),
                      NEW j \in 1 .. Len(queue')
               PROVE  n < queue'[j].num
    BY DEF After
  <2>1. CASE queue'[j].num = issued + 1
    BY <2>1
  <2>2. CASE \E i \in 1 .. Len(queue) : queue'[j] = queue[i]
    BY <2>2 DEF After
  <2> QED
    BY <2>1, <2>2
<1>2. \A i \in 1 .. Len(batch) : batch[i].num <= issued /\ After(batch[i].num, queue)
  BY DEF IInv, BatchNext, QueueLast
<1>3. \A i \in 1 .. Len(ky_backlog) : /\ ky_backlog[i] <= issued /\ After(ky_backlog[i], queue)
                                      /\ After(ky_backlog[i], batch)
  BY DEF IInv, BacklogFirst, QueueLast, BatchNext
<1>4. After(sent, queue) /\ After(keyed, queue)
  BY DEF IInv, QueueLast
<1>5. Len(ky_backlog') > 0 => ky_backlog' = ky_backlog /\ ky_pos' = ky_pos
  OBVIOUS
<1>6. \A j \in 1 .. Len(queue') : queue'[j].num <= issued'
  <2> SUFFICES ASSUME NEW j \in 1 .. Len(queue') PROVE queue'[j].num <= issued'
    OBVIOUS
  <2>1. CASE queue'[j].num = issued + 1
    BY <2>1
  <2>2. CASE \E i \in 1 .. Len(queue) : queue'[j] = queue[i]
    <3>1. PICK i \in 1 .. Len(queue) : queue'[j] = queue[i]
      BY <2>2
    <3>2. queue[i].num <= issued
      BY DEF IInv, QueueLast
    <3> QED
      BY <3>1, <3>2
  <2> QED
    BY <2>1, <2>2
<1>7. QueueLast'
  <2>1. After(sent, queue)' /\ After(keyed, queue)'
    BY <1>1, <1>4 DEF After
  <2>2. \A i \in 1 .. Len(batch') : After(batch'[i].num, queue')
    BY <1>1, <1>2
  <2>3. \A i \in 1 .. Len(ky_backlog') : After(ky_backlog'[i], queue')
    <3>1. CASE ky_backlog' = << >>
      BY <3>1
    <3>2. CASE ky_backlog' = ky_backlog
      BY <1>1, <1>3, <3>2
    <3> QED
      BY <3>1, <3>2
  <2> QED
    BY <1>6, <2>1, <2>2, <2>3 DEF QueueLast
<1>8. BatchNext'
  <2>1. \A i \in 1 .. Len(ky_backlog') : After(ky_backlog'[i], batch)
    <3>1. CASE ky_backlog' = << >>
      BY <3>1
    <3>2. CASE ky_backlog' = ky_backlog
      BY <1>3, <3>2
    <3> QED
      BY <3>1, <3>2
  <2>2. \A i \in 1 .. Len(batch) : batch[i].num <= issued'
    BY <1>2
  <2>3. Ordered(batch) /\ After(sent, batch) /\ After(keyed, batch)
    BY DEF IInv, BatchNext
  <2> QED
    BY <2>1, <2>2, <2>3 DEF BatchNext, Ordered, After
<1>9. BacklogFirst'
  <2>1. CASE ky_backlog' = << >>
    BY <2>1 DEF BacklogFirst
  <2>2. CASE UNCHANGED <<ky_backlog, ky_pos>>
    BY <1>3, <2>2 DEF IInv, BacklogFirst
  <2> QED
    BY <2>1, <2>2
<1> QED
  BY <1>7, <1>8, <1>9

-------------------------------------------------------------------------------
\* What the GUI calls.
LEMMA CallingStep == ASSUME IInv, Calling PROVE IInv'
<1>1. CASE Tune \/ CwText \/ CwStop
  <2>1. PICK kind, drop : /\ kind \in Kinds
                            /\ \/ Issue(kind, queue)
                               \/ Issue(kind, DropKind(queue, drop))
    BY <1>1 DEF Tune, CwText, CwStop, Kinds
  <2>2. /\ queue' \in Seq(Op) /\ Len(queue') <= RC_QUEUE
        /\ issued' = issued + 1 /\ issued' \in 0 .. MaxIssued
        /\ Ordered(queue)'
        /\ \A j \in 1 .. Len(queue') :
              queue'[j].num = issued + 1 \/ \E i \in 1 .. Len(queue) : queue'[j] = queue[i]
    BY <2>1, Issuing
  <2>3. /\ UNCHANGED <<batch, sent, keyed>>
        /\ UNCHANGED <<ky_backlog, ky_pos>> \/ (ky_backlog' = << >> /\ ky_pos' = 0)
        /\ UNCHANGED <<mode, wpm, speed_dirty, changes, ky_state, ky_awaiting, ky_wait,
                       asked, wireVars, svcVars, link>>
        /\ stopped' \in {stopped, issued + 1}
    BY <1>1 DEF Tune, CwText, CwStop, kyVars, wireVars, told, svcVars
  <2>4. QueueLast' /\ BatchNext' /\ BacklogFirst'
    BY <2>2, <2>3, IssuedLast
  <2>5. TypeOK'
    <3>1. issued \in Nat /\ stopped \in 0 .. issued /\ sent \in 0 .. issued /\ keyed \in 0 .. issued
      BY OrderTypes DEF IInv, TypeOK
    <3>2. /\ stopped' \in 0 .. issued' /\ sent' \in 0 .. issued' /\ keyed' \in 0 .. issued'
      BY <2>2, <2>3, <3>1
    <3>3. /\ ky_backlog' \in Seq(1 .. MaxIssued) /\ Len(ky_backlog') <= RC_BACKLOG
          /\ ky_pos' \in 0 .. Len(ky_backlog')
      <4>1. CASE UNCHANGED <<ky_backlog, ky_pos>>
        BY <4>1 DEF IInv, TypeOK
      <4>2. CASE ky_backlog' = << >> /\ ky_pos' = 0
        BY <4>2, RadioAssumption
      <4> QED
        BY <2>3, <4>1, <4>2
    <3> QED
      BY <2>2, <2>3, <3>2, <3>3 DEF IInv, TypeOK, wireVars, told, svcVars
  <2>6. Polling' /\ SpeedKnown'
    BY <2>3 DEF IInv, OnePoll, Polling, SpeedKnown, wireVars, told, svcVars
  <2> QED
    BY <2>4, <2>5, <2>6 DEF IInv
<1>2. ASSUME NEW w \in Speeds, SetWpm(w) PROVE IInv'
  <2>1. UNCHANGED order /\ speed_dirty' = TRUE
    BY <1>2 DEF SetWpm, order, wireVars, told, svcVars, kyVars
  <2>2. QueueLast' /\ BatchNext' /\ BacklogFirst'
    BY <2>1, OrderStays DEF IInv
  <2>3. Polling' /\ SpeedKnown'
    BY <1>2 DEF IInv, OnePoll, Polling, SpeedKnown, SetWpm, svcVars, kyVars
  <2>4. TypeOK'
    <3>1. changes' \in 0 .. MaxChanges
      BY <1>2, RadioAssumption DEF IInv, TypeOK, SetWpm, Change
    <3>2. wpm' \in Speeds /\ speed_dirty' \in BOOLEAN /\ missed' \in BOOLEAN
      BY <1>2 DEF SetWpm
    <3>3. UNCHANGED <<queue, mode, issued, stopped, kyVars, told, svcVars, link>>
      BY <1>2 DEF SetWpm
    <3> QED
      BY <3>1, <3>2, <3>3 DEF IInv, TypeOK, told, svcVars, kyVars
  <2> QED
    BY <2>2, <2>3, <2>4 DEF IInv
<1>3. ASSUME NEW m \in {"tci", "ky"}, NEW w \in Speeds, ApplyConfig(m, w) PROVE IInv'
  <2>1. UNCHANGED order /\ speed_dirty' = TRUE
    BY <1>3 DEF ApplyConfig, order, wireVars, told, svcVars
  <2>2. QueueLast' /\ BatchNext' /\ BacklogFirst'
    BY <2>1, OrderStays DEF IInv
  <2>3. Polling' /\ SpeedKnown'
    BY <1>3
      DEF IInv, OnePoll, Polling, SpeedKnown, ApplyConfig, KyClose, Unlocked, svcVars
  <2>4. TypeOK'
    <3>1. changes' \in 0 .. MaxChanges
      BY <1>3, RadioAssumption DEF IInv, TypeOK, ApplyConfig, Change
    <3>2. /\ ky_state' \in {"down", "connecting", "ready"}
          /\ ky_awaiting' \in BOOLEAN /\ asked' \in BOOLEAN
      BY <1>3 DEF IInv, TypeOK, ApplyConfig, KyClose
    <3>3. /\ mode' \in {"tci", "ky"} /\ wpm' \in Speeds
          /\ speed_dirty' \in BOOLEAN /\ missed' \in BOOLEAN
      BY <1>3 DEF ApplyConfig
    <3>4. UNCHANGED <<queue, issued, stopped, ky_wait, ky_backlog, ky_pos, told, svcVars, link>>
      BY <1>3 DEF ApplyConfig
    <3> QED
      BY <3>1, <3>2, <3>3, <3>4 DEF IInv, TypeOK, told, svcVars
  <2> QED
    BY <2>2, <2>3, <2>4 DEF IInv
<1> QED
  BY <1>1, <1>2, <1>3 DEF Calling

\* Connections and time.
LEMMA LinkStep == ASSUME IInv, LinkUp \/ LinkDown \/ TimePasses PROVE IInv'
<1>1. UNCHANGED order
  BY DEF LinkUp, LinkDown, TimePasses, order, cmdVars, kyVars, wireVars, told, svcVars
<1>2. QueueLast' /\ BatchNext' /\ BacklogFirst'
  BY <1>1, OrderStays DEF IInv
<1>3. Polling' /\ SpeedKnown'
  BY
    DEF IInv, OnePoll, Polling, SpeedKnown, LinkUp, LinkDown, TimePasses, cmdVars,
        kyVars, wireVars, told,
         svcVars
<1>4. link' \in {"down", "up", "training"} /\ ky_wait' \in BOOLEAN
  BY DEF IInv, TypeOK, LinkUp, LinkDown, TimePasses, kyVars
<1>5. UNCHANGED <<cmdVars, wireVars, svcVars, ky_state, ky_awaiting, ky_backlog, ky_pos, asked>>
  BY DEF LinkUp, LinkDown, TimePasses, kyVars
<1>6. TypeOK'
  BY <1>4, <1>5 DEF IInv, TypeOK, cmdVars, wireVars, told, svcVars
<1> QED
  BY <1>2, <1>3, <1>6 DEF IInv

\* The steps of the CAT socket that send no text.
LEMMA SocketStep ==
  ASSUME IInv,
         KyNotReady \/ KyReady \/ KyReadNothing \/ KyReadClosed \/ KyReadBusy \/ KyPoll
  PROVE  IInv'
<1>1. UNCHANGED <<cmdVars, sent, tci_speed, ret, batch, bmode, send_wpm, wpm_copy, link,
                  ky_backlog, ky_pos, keyed>>
  BY
    DEF KyNotReady, KyReady, KyReadNothing, KyReadClosed, KyReadBusy, KyPoll, KyRest,
        kyVars
<1>2. QueueLast' /\ BatchNext' /\ BacklogFirst'
  BY <1>1, OrderStays DEF IInv, order, cmdVars
<1>3. /\ ky_state' \in {"down", "connecting", "ready"}
      /\ ky_awaiting' \in BOOLEAN /\ asked' \in BOOLEAN /\ ky_wait' \in BOOLEAN
  BY
    DEF IInv, TypeOK, KyNotReady, KyReady, KyReadNothing, KyReadClosed, KyReadBusy,
        KyPoll,
         KyClose, kyVars
<1>4. Polling'
  BY
    DEF IInv, TypeOK, OnePoll, Polling, KyReturn, KyNotReady, KyReady, KyReadNothing,
        KyReadClosed, KyReadBusy,
         KyPoll, KyClose, kyVars
<1>5. pc \in {"ky", "ky_read", "ky_poll"} /\ pc' \in {"ky_read", "ky_poll", ret}
  BY DEF KyNotReady, KyReady, KyReadNothing, KyReadClosed, KyReadBusy, KyPoll, KyReturn
<1>6. /\ ky_speed' \in {ky_speed, wpm} /\ missed' \in {missed, FALSE}
      /\ ky_state' = "ready" => ky_state = "ready" \/ ky_speed' = wpm
      /\ missed' = missed \/ ky_speed' = wpm
  BY
    DEF KyNotReady, KyReady, KyReadNothing, KyReadClosed, KyReadBusy, KyPoll, KyClose,
        kyVars
<1>7. SpeedKnown'
  BY <1>1, <1>5, <1>6 DEF IInv, SpeedKnown, cmdVars
<1>8. TypeOK'
  <2>1. pc' \in {"idle", "taken", "ky", "ky_read", "ky_poll", "speed", "send"}
    BY <1>5 DEF IInv, TypeOK
  <2>2. ky_speed' \in Speeds \cup {0}
    BY <1>6 DEF IInv, TypeOK
  <2>3. missed' \in BOOLEAN
    BY <1>6 DEF IInv, TypeOK
  <2> QED
    BY <1>1, <1>3, <2>1, <2>2, <2>3 DEF IInv, TypeOK, cmdVars
<1> QED
  BY <1>2, <1>4, <1>7, <1>8 DEF IInv

\* A piece is not empty and ends within the backlog.
LEMMA NextPosLater ==
  ASSUME TypeOK, ky_pos < Len(ky_backlog)
  PROVE  NextPos \in ky_pos + 1 .. Len(ky_backlog)
<1> DEFINE n == Len(ky_backlog)
<1>1. n \in Nat /\ ky_pos \in Nat /\ ky_pos < n
  BY DEF TypeOK
<1> HIDE DEF n
<1>2. KY_CHUNK \in Nat \ {0}
  BY RadioAssumption
<1>3. NextPos = IF ky_pos + KY_CHUNK < n THEN ky_pos + KY_CHUNK ELSE n
  BY DEF NextPos, n
<1> QED
  BY <1>1, <1>2, <1>3 DEF n

\* The peer has room: the next piece of the backlog is keyed.
LEMMA KeyStep == ASSUME IInv, KyReadFree PROVE IInv'
<1> USE OrderTypes
<1>1. UNCHANGED <<cmdVars, sent, tci_speed, ky_speed, missed, ret, batch, bmode, send_wpm,
                  wpm_copy, link, ky_wait>>
  BY DEF KyReadFree, KyRest
<1>2. /\ asked' = FALSE /\ ky_awaiting' = FALSE /\ ky_state' \in {"down", ky_state}
      /\ pc \in {"ky_read"} /\ pc' \in {"ky_poll", ret} /\ ky_state = "ready"
      /\ pc' = "ky_poll" => ky_state' = ky_state
  BY DEF KyReadFree, KyReturn, IInv, Polling, TypeOK
<1>3. /\ \/ UNCHANGED <<ky_backlog, keyed>> /\ ky_pos' \in ky_pos .. Len(ky_backlog)
         \/ ky_backlog' = << >> /\ ky_pos' = 0 /\ keyed' = keyed
         \/ /\ ky_backlog' = ky_backlog /\ ky_pos' \in ky_pos + 1 .. Len(ky_backlog)
            /\ keyed' = ky_backlog[ky_pos']
         \/ /\ ky_backlog' = << >> /\ ky_pos' = 0
            /\ Len(ky_backlog) > ky_pos /\ keyed' = ky_backlog[Len(ky_backlog)]
  <2>1. ky_pos < Len(ky_backlog) => NextPos \in ky_pos + 1 .. Len(ky_backlog)
    BY NextPosLater DEF IInv
  <2> QED
    BY <2>1 DEF KyReadFree
<1>4. /\ ky_backlog' = << >> \/ ky_backlog' = ky_backlog
      /\ ky_pos' \in 0 .. Len(ky_backlog')
  BY <1>3
<1>5. keyed' = keyed \/ \E i \in 1 .. Len(ky_backlog) : i > ky_pos /\ keyed' = ky_backlog[i]
  BY <1>3
<1>6. keyed' \in 0 .. issued /\ keyed' >= keyed
  BY <1>5 DEF IInv, BacklogFirst
<1>7. QueueLast' /\ BatchNext'
  <2>1. After(keyed', queue) /\ After(keyed', batch)
    BY <1>5 DEF IInv, QueueLast, BatchNext
  <2>2. \A i \in 1 .. Len(ky_backlog') : After(ky_backlog'[i], queue)
          /\ After(ky_backlog'[i], batch)
    <3>1. CASE ky_backlog' = << >>
      BY <3>1
    <3>2. CASE ky_backlog' = ky_backlog
      BY <3>2 DEF IInv, QueueLast, BatchNext
    <3> QED
      BY <1>4, <3>1, <3>2
  <2> QED
    BY <1>1, <2>1, <2>2 DEF IInv, QueueLast, BatchNext, cmdVars, Ordered, After
<1>8. BacklogFirst'
  <2>1. CASE ky_backlog' = << >>
    BY <2>1 DEF BacklogFirst
  <2>2. CASE ky_backlog' # << >>
    <3>1. /\ ky_backlog' = ky_backlog
          /\ \/ keyed' = keyed /\ ky_pos' \in ky_pos .. Len(ky_backlog)
             \/ ky_pos' \in ky_pos + 1 .. Len(ky_backlog) /\ keyed' = ky_backlog[ky_pos']
      BY <1>3, <2>2
    <3>2. issued' = issued
      BY <1>1 DEF cmdVars
    <3>3. \A i \in 1 .. Len(ky_backlog) : i > ky_pos' => keyed' < ky_backlog[i]
      BY SMTT(30), <3>1 DEF IInv, BacklogFirst
    <3> QED
      BY <3>1, <3>2, <3>3 DEF IInv, BacklogFirst
  <2> QED
    BY <2>1, <2>2
<1>9. Polling' /\ SpeedKnown'
  <2>1. Polling'
    BY <1>2 DEF IInv, OnePoll, Polling, TypeOK
  <2>2. SpeedKnown'
    BY <1>1, <1>2 DEF IInv, SpeedKnown, cmdVars
  <2> QED
    BY <2>1, <2>2
<1>10. TypeOK'
  <2>1. ky_backlog' \in Seq(1 .. MaxIssued) /\ Len(ky_backlog') <= RC_BACKLOG
    <3>1. CASE ky_backlog' = << >>
      BY <3>1, RadioAssumption
    <3>2. CASE ky_backlog' = ky_backlog
      BY <3>2 DEF IInv, TypeOK
    <3> QED
      BY <1>4, <3>1, <3>2
  <2>2. pc' \in {"idle", "taken", "ky", "ky_read", "ky_poll", "speed", "send"}
          /\ ky_state' \in {"down", "connecting", "ready"}
    BY <1>2 DEF IInv, TypeOK
  <2>3. UNCHANGED <<queue, mode, wpm, speed_dirty, issued, changes, stopped>>
    BY <1>1 DEF cmdVars
  <2>4. /\ ky_awaiting' \in BOOLEAN /\ asked' \in BOOLEAN
        /\ ky_pos' \in 0 .. Len(ky_backlog') /\ keyed' \in 0 .. issued'
    BY <1>2, <1>4, <1>6, <2>3
  <2> QED
    BY <1>1, <2>1, <2>2, <2>3, <2>4 DEF IInv, TypeOK
<1> QED
  BY <1>7, <1>8, <1>9, <1>10 DEF IInv

\* The service takes the queue, or throws it away, sends the speed, or is done.
LEMMA ServiceStep ==
  ASSUME IInv, \/ ServiceTraining \/ ServiceTake \/ ServiceGoesOn
         \/ ServiceGivesUp \/ ServiceSpeed \/ ServiceDone
  PROVE  IInv'
<1>1. UNCHANGED <<issued, stopped, sent, keyed, mode, wpm, changes, ky_wait, link>>
  BY
    DEF ServiceTraining, ServiceTake, ServiceGoesOn, ServiceGivesUp, ServiceSpeed, ServiceDone, cmdVars, kyVars,
        wireVars, told
<1>2. \/ UNCHANGED <<queue, batch, ky_backlog, ky_pos>>
      \/ queue' = << >> /\ ky_backlog' = << >> /\ ky_pos' = 0 /\ batch' = batch
      \/ queue' = << >> /\ batch' = queue /\ UNCHANGED <<ky_backlog, ky_pos>>
      \/ batch' = << >> /\ UNCHANGED <<queue, ky_backlog, ky_pos>>
  BY
    DEF ServiceTraining, ServiceTake, ServiceGoesOn, ServiceGivesUp, ServiceSpeed, ServiceDone, cmdVars, kyVars,
        svcVars
<1>3. QueueLast' /\ BatchNext' /\ BacklogFirst'
  <2>1. CASE UNCHANGED <<queue, batch, ky_backlog, ky_pos>>
    BY <1>1, <2>1, OrderStays DEF IInv, order
  <2>2. CASE queue' = << >> /\ ky_backlog' = << >> /\ ky_pos' = 0 /\ batch' = batch
    BY <1>1, <2>2 DEF IInv, QueueLast, BatchNext, BacklogFirst, Ordered, After
  <2>3. CASE queue' = << >> /\ batch' = queue /\ UNCHANGED <<ky_backlog, ky_pos>>
    BY <1>1, <2>3 DEF IInv, QueueLast, BatchNext, BacklogFirst, Ordered, After
  <2>4. CASE batch' = << >> /\ UNCHANGED <<queue, ky_backlog, ky_pos>>
    BY <1>1, <2>4 DEF IInv, QueueLast, BatchNext, BacklogFirst, Ordered, After
  <2> QED
    BY <1>2, <2>1, <2>2, <2>3, <2>4
<1>4. Polling'
  BY
    DEF IInv, TypeOK, OnePoll, Polling, ServiceTraining, ServiceTake, ServiceGoesOn, ServiceGivesUp, ServiceSpeed,
        ServiceDone,
         KyClose, cmdVars, kyVars, svcVars
<1>5. SpeedKnown'
  <2>1. CASE ServiceTraining \/ ServiceDone
    BY <2>1
      DEF IInv, SpeedKnown, ServiceTraining, ServiceDone, cmdVars, kyVars, wireVars, told,
          svcVars
  <2>2. CASE ServiceTake
    BY <2>2 DEF IInv, SpeedKnown, ServiceTake, kyVars, wireVars, told
  <2>3. CASE ServiceSpeed
    BY <2>3 DEF IInv, SpeedKnown, ServiceSpeed, KyClose, cmdVars
  <2>4. CASE ServiceGoesOn
    BY <2>4
      DEF IInv, TypeOK, SpeedKnown, ServiceGoesOn, cmdVars, kyVars, wireVars, told
  <2>5. CASE ServiceGivesUp
    BY <2>5 DEF IInv, TypeOK, SpeedKnown, ServiceGivesUp, cmdVars, kyVars, told
  <2> QED
    BY <2>1, <2>2, <2>3, <2>4, <2>5
<1>6. TypeOK'
  <2>1. /\ queue' \in Seq(Op) /\ Len(queue') <= RC_QUEUE
        /\ batch' \in Seq(Op) /\ Len(batch') <= RC_QUEUE
        /\ ky_backlog' \in Seq(1 .. MaxIssued) /\ Len(ky_backlog') <= RC_BACKLOG
        /\ ky_pos' \in 0 .. Len(ky_backlog')
    <3>1. CASE UNCHANGED <<queue, batch, ky_backlog, ky_pos>>
      BY <3>1 DEF IInv, TypeOK
    <3>2. CASE queue' = << >> /\ ky_backlog' = << >> /\ ky_pos' = 0 /\ batch' = batch
      BY <3>2, RadioAssumption DEF IInv, TypeOK
    <3>3. CASE queue' = << >> /\ batch' = queue /\ UNCHANGED <<ky_backlog, ky_pos>>
      BY <3>3, RadioAssumption DEF IInv, TypeOK
    <3>4. CASE batch' = << >> /\ UNCHANGED <<queue, ky_backlog, ky_pos>>
      BY <3>4, RadioAssumption DEF IInv, TypeOK
    <3> QED
      BY <1>2, <3>1, <3>2, <3>3, <3>4
  <2>2. /\ ky_state' \in {"down", "connecting", "ready"}
        /\ ky_awaiting' \in BOOLEAN /\ asked' \in BOOLEAN
    BY
      DEF IInv, TypeOK, ServiceTraining, ServiceTake, ServiceGoesOn, ServiceGivesUp, ServiceSpeed, ServiceDone,
          KyClose, kyVars
  <2>3. /\ tci_speed' \in Speeds \cup {0} /\ ky_speed' \in Speeds \cup {0}
        /\ wpm_copy' \in Speeds
    BY
      DEF IInv, TypeOK, ServiceTraining, ServiceTake, ServiceGoesOn, ServiceGivesUp, ServiceSpeed, ServiceDone,
          wireVars, told, svcVars
  <2>4. /\ bmode' \in {"tci", "ky"} /\ ret' \in {"speed", "send"}
        /\ pc' \in {"idle", "taken", "ky", "ky_read", "ky_poll", "speed", "send"}
    BY
      DEF IInv, TypeOK, ServiceTraining, ServiceTake, ServiceGoesOn, ServiceGivesUp, ServiceSpeed, ServiceDone,
          svcVars
  <2>5. speed_dirty' \in BOOLEAN /\ send_wpm' \in BOOLEAN /\ missed' \in BOOLEAN
    BY
      DEF IInv, TypeOK, ServiceTraining, ServiceTake, ServiceGoesOn, ServiceGivesUp, ServiceSpeed, ServiceDone,
          cmdVars, wireVars, told, svcVars
  <2> QED
    BY <1>1, <2>1, <2>2, <2>3, <2>4, <2>5 DEF IInv, TypeOK
<1> QED
  BY <1>3, <1>4, <1>5, <1>6 DEF IInv

\* The first command of the batch is sent, or goes to the backlog.
LEMMA SendStep == ASSUME IInv, SendNext \/ SendText PROVE IInv'
<1> USE OrderTypes
<1>1. UNCHANGED <<cmdVars, ky_state, ky_awaiting, ky_wait, ky_pos, asked, keyed, tci_speed,
                  ky_speed, missed, bmode, send_wpm, wpm_copy, link>>
  BY DEF SendNext, SendText, kyVars, wireVars, told
<1>2. pc = "send" /\ batch # << >> /\ batch' = Tail(batch)
  BY DEF SendNext, SendText
<1> DEFINE n == batch[1].num
<1>3. /\ n \in Nat /\ Len(batch) \in Nat \ {0} /\ Head(batch) = batch[1]
      /\ batch' \in Seq(Op) /\ Len(batch') = Len(batch) - 1
      /\ \A i \in 1 .. Len(batch') : i + 1 \in 1 .. Len(batch) /\ batch'[i] = batch[i + 1]
  BY <1>2
<1>4. /\ sent < n /\ keyed < n /\ n <= issued /\ n > 0
      /\ After(n, queue) /\ \A i \in 1 .. Len(ky_backlog) : ky_backlog[i] < n
  <2>1. 1 \in 1 .. Len(batch)
    BY <1>3
  <2>2. n <= issued /\ After(n, queue)
    BY <2>1 DEF IInv, QueueLast, BatchNext
  <2>3. sent < n /\ keyed < n
    BY <2>1 DEF IInv, BatchNext, After
  <2>4. \A i \in 1 .. Len(ky_backlog) : ky_backlog[i] < n
    BY <2>1 DEF IInv, BatchNext, After
  <2> HIDE DEF n
  <2> QED
    BY <1>3, <2>2, <2>3, <2>4
<1>5. /\ Ordered(batch') /\ After(n, batch') /\ After(sent, batch') /\ After(keyed, batch')
      /\ \A i \in 1 .. Len(batch') : batch'[i].num <= issued /\ After(batch'[i].num, queue)
      /\ \A i \in 1 .. Len(ky_backlog) : After(ky_backlog[i], batch')
  <2>1. 1 \in 1 .. Len(batch) /\ \A i \in 1 .. Len(batch') : i \in Nat /\ i + 1 > 1
    BY <1>3
  <2>2. Ordered(batch')
    <3> SUFFICES ASSUME NEW i \in 1 .. Len(batch'), NEW j \in 1 .. Len(batch'), i < j
                 PROVE  batch'[i].num < batch'[j].num
      BY DEF Ordered
    <3>1. /\ i + 1 \in 1 .. Len(batch) /\ batch'[i] = batch[i + 1]
          /\ j + 1 \in 1 .. Len(batch) /\ batch'[j] = batch[j + 1] /\ i + 1 < j + 1
      BY <1>3
    <3> QED
      BY <3>1 DEF IInv, BatchNext, Ordered
  <2>3. After(n, batch')
    <3> SUFFICES ASSUME NEW i \in 1 .. Len(batch') PROVE n < batch'[i].num
      BY DEF After
    <3>1. i + 1 \in 1 .. Len(batch) /\ batch'[i] = batch[i + 1] /\ 1 < i + 1
      BY <1>3, <2>1
    <3> QED
      BY <2>1, <3>1 DEF IInv, BatchNext, Ordered
  <2>4. After(sent, batch') /\ After(keyed, batch')
    BY <1>3 DEF IInv, BatchNext, After
  <2>5. \A i \in 1 .. Len(batch') : batch'[i].num <= issued /\ After(batch'[i].num, queue)
    BY <1>3 DEF IInv, QueueLast, BatchNext
  <2>6. \A i \in 1 .. Len(ky_backlog) : After(ky_backlog[i], batch')
    BY <1>3 DEF IInv, BatchNext, After
  <2> QED
    BY <2>2, <2>3, <2>4, <2>5, <2>6
<1> HIDE DEF n
<1>6. CASE SendNext
  <2>1. sent' \in {sent, n} /\ ky_backlog' = ky_backlog /\ pc' = pc /\ ret' = ret
    BY <1>3, <1>6 DEF SendNext, SendTci, kyVars, n
  <2>2. QueueLast'
    BY <1>1, <1>4, <1>5, <2>1 DEF IInv, QueueLast, cmdVars, Ordered, After
  <2>3. BatchNext'
    BY <1>1, <1>5, <2>1 DEF BatchNext, cmdVars, Ordered, After
  <2>4. BacklogFirst'
    BY <1>1, <2>1 DEF IInv, BacklogFirst, cmdVars
  <2>5. Polling' /\ SpeedKnown'
    BY <1>1, <2>1 DEF IInv, OnePoll, Polling, SpeedKnown, cmdVars
  <2>6. TypeOK'
    <3>1. sent' \in 0 .. issued /\ Len(batch') <= RC_QUEUE
      <4>1. sent' \in 0 .. issued
        BY <1>3, <1>4, <2>1
      <4>2. Len(batch) <= RC_QUEUE
        BY DEF IInv, TypeOK
      <4> QED
        BY <1>3, <4>1, <4>2, RadioAssumption
    <3> QED
      BY <1>1, <1>3, <2>1, <3>1 DEF IInv, TypeOK, cmdVars
  <2> QED
    BY <2>2, <2>3, <2>4, <2>5, <2>6 DEF IInv
<1>7. CASE SendText
  <2>1. /\ sent' = sent /\ pc' = "ky" /\ ret' = "send"
        /\ ky_backlog' = AppendText(ky_backlog, n)
    BY <1>3, <1>7 DEF SendText, wireVars, told, n
  <2> DEFINE k == Len(ky_backlog)
  <2>2. n \in 1 .. MaxIssued /\ k \in Nat
    <3>1. issued \in 0 .. MaxIssued
      BY DEF IInv, TypeOK
    <3> QED
      BY <1>3, <1>4, <3>1, RadioAssumption
  <2>3. \/ ky_backlog' = ky_backlog
        \/ /\ k < RC_BACKLOG /\ ky_backlog' = Append(ky_backlog, n)
    BY <2>1 DEF AppendText
  <2>4. /\ ky_backlog' \in Seq(1 .. MaxIssued) /\ Len(ky_backlog') <= RC_BACKLOG
        /\ Len(ky_backlog') >= k
        /\ \A i \in 1 .. Len(ky_backlog') :
              \/ i <= k /\ ky_backlog'[i] = ky_backlog[i]
              \/ i = k + 1 /\ ky_backlog'[i] = n
    <3>1. CASE ky_backlog' = ky_backlog
      BY <3>1 DEF IInv, TypeOK
    <3>2. CASE k < RC_BACKLOG /\ ky_backlog' = Append(ky_backlog, n)
      BY SMTT(30), <2>2, <3>2, RadioAssumption
    <3> QED
      BY <2>3, <3>1, <3>2
  <2>5. Len(ky_backlog') \in Nat
    BY <2>4
  <2> HIDE DEF k
  <2>6. QueueLast'
    <3>1. \A i \in 1 .. Len(ky_backlog') : After(ky_backlog'[i], queue)
      BY <1>4, <2>2, <2>4, <2>5 DEF IInv, QueueLast, k
    <3> QED
      BY <1>1, <1>5, <2>1, <3>1 DEF IInv, QueueLast, cmdVars, Ordered, After
  <2>7. BatchNext'
    <3>1. \A i \in 1 .. Len(ky_backlog') : After(ky_backlog'[i], batch')
      <4> SUFFICES ASSUME NEW i \in 1 .. Len(ky_backlog') PROVE After(ky_backlog'[i], batch')
        OBVIOUS
      <4>1. CASE i <= k /\ ky_backlog'[i] = ky_backlog[i]
        <5>1. i \in 1 .. Len(ky_backlog)
          BY <2>2, <2>5, <4>1 DEF k
        <5> QED
          BY <1>5, <4>1, <5>1
      <4>2. CASE i = k + 1 /\ ky_backlog'[i] = n
        BY <1>5, <4>2
      <4> QED
        BY <2>4, <4>1, <4>2
    <3> QED
      BY <1>1, <1>5, <2>1, <3>1 DEF BatchNext, cmdVars, Ordered, After
  <2>8. BacklogFirst'
    <3>1. \A i \in 1 .. Len(ky_backlog') : ky_backlog'[i] <= issued /\ (i > ky_pos
            => keyed < ky_backlog'[i])
      <4> SUFFICES ASSUME NEW i \in 1 .. Len(ky_backlog')
                   PROVE  ky_backlog'[i] <= issued /\ (i > ky_pos => keyed < ky_backlog'[i])
        OBVIOUS
      <4>1. CASE i <= k /\ ky_backlog'[i] = ky_backlog[i]
        <5>1. i \in 1 .. Len(ky_backlog)
          BY <2>2, <2>5, <4>1 DEF k
        <5> QED
          BY <4>1, <5>1 DEF IInv, BacklogFirst
      <4>2. CASE i = k + 1 /\ ky_backlog'[i] = n
        BY <1>4, <4>2
      <4> QED
        BY <2>4, <4>1, <4>2
    <3>2. \A i, j \in 1 .. Len(ky_backlog') : i < j => ky_backlog'[i] < ky_backlog'[j]
      <4> SUFFICES ASSUME NEW i \in 1 .. Len(ky_backlog'), NEW j \in 1 .. Len(ky_backlog'), i < j
                   PROVE  ky_backlog'[i] < ky_backlog'[j]
        OBVIOUS
      <4>1. i \in 1 .. Len(ky_backlog) /\ ky_backlog'[i] = ky_backlog[i]
        BY SMTT(30), <2>2, <2>4, <2>5 DEF k
      <4>2. CASE j <= k /\ ky_backlog'[j] = ky_backlog[j]
        <5>1. j \in 1 .. Len(ky_backlog)
          BY <2>2, <2>5, <4>2 DEF k
        <5> QED
          BY <4>1, <4>2, <5>1 DEF IInv, BacklogFirst
      <4>3. CASE j = k + 1 /\ ky_backlog'[j] = n
        BY <1>4, <4>1, <4>3
      <4> QED
        BY <2>4, <4>2, <4>3
    <3> QED
      BY <1>1, <3>1, <3>2 DEF BacklogFirst, cmdVars
  <2>9. Polling' /\ SpeedKnown'
    BY <1>1, <1>2, <2>1 DEF IInv, OnePoll, Polling, SpeedKnown, cmdVars
  <2>10. TypeOK'
    <3>1. Len(batch') <= RC_QUEUE /\ ky_pos' \in 0 .. Len(ky_backlog')
      BY <1>1, <1>3, <2>2, <2>4, <2>5, RadioAssumption DEF IInv, TypeOK, k
    <3> QED
      BY <1>1, <1>3, <2>1, <2>4, <3>1 DEF IInv, TypeOK, cmdVars
  <2> QED
    BY <2>6, <2>7, <2>8, <2>9, <2>10 DEF IInv
<1> QED
  BY <1>6, <1>7

-------------------------------------------------------------------------------
LEMMA Inductive == Spec => []IInv
<1>1. Init => IInv
  <2> SUFFICES ASSUME Init PROVE IInv
    OBVIOUS
  <2>1. TypeOK
    <3>1. queue \in Seq(Op) /\ batch \in Seq(Op) /\ ky_backlog \in Seq(1 .. MaxIssued)
      BY DEF Init
    <3>2. Len(queue) = 0 /\ Len(batch) = 0 /\ Len(ky_backlog) = 0
      BY DEF Init
    <3>3. 0 <= RC_QUEUE /\ 0 <= RC_BACKLOG /\ 0 \in 0 .. MaxIssued /\ 0 \in 0 .. MaxChanges
      BY RadioAssumption
    <3>4. /\ ky_pos \in 0 .. Len(ky_backlog) /\ changes \in 0 .. MaxChanges
          /\ issued \in 0 .. MaxIssued /\ stopped \in 0 .. issued
          /\ sent \in 0 .. issued /\ keyed \in 0 .. issued
      BY <3>2, <3>3 DEF Init
    <3>5. /\ Len(queue) <= RC_QUEUE /\ Len(batch) <= RC_QUEUE /\ Len(ky_backlog) <= RC_BACKLOG
      BY <3>2, <3>3
    <3> QED
      BY <3>1, <3>4, <3>5 DEF Init, TypeOK
  <2>2. Polling /\ SpeedKnown
    BY DEF Init, OnePoll, Polling, SpeedKnown
  <2>3. QueueLast /\ BatchNext /\ BacklogFirst
    BY DEF Init, QueueLast, BatchNext, BacklogFirst, Ordered, After
  <2> QED
    BY <2>1, <2>2, <2>3 DEF IInv
<1>2. IInv /\ [Next]_vars => IInv'
  <2> SUFFICES ASSUME IInv, [Next]_vars PROVE IInv'
    OBVIOUS
  <2>1. CASE Calling
    BY <2>1, CallingStep
  <2>2. CASE LinkUp \/ LinkDown \/ TimePasses
    BY <2>2, LinkStep
  <2>3. CASE Servicing
    BY <2>3, ServiceStep, SendStep, SocketStep, KeyStep DEF Servicing, KyService
  <2>4. CASE UNCHANGED vars
    <3>1. UNCHANGED order
      BY <2>4 DEF vars, order, cmdVars, kyVars, wireVars, told, svcVars
    <3>2. QueueLast' /\ BatchNext' /\ BacklogFirst'
      BY <3>1, OrderStays DEF IInv
    <3>3. Polling' /\ SpeedKnown' /\ TypeOK'
      BY <2>4
        DEF IInv, TypeOK, OnePoll, Polling, SpeedKnown, vars, cmdVars, kyVars,
            wireVars, told,
                  svcVars
    <3> QED
      BY <3>2, <3>3 DEF IInv
  <2> QED
    BY <2>1, <2>2, <2>3, <2>4 DEF Next
<1> QED
  BY <1>1, <1>2, PTL DEF Spec

\* rc_ky_service: the peer owes at most one answer, and only while the code waits
\* for it on an open socket; between two services an open socket has been told
\* the current speed.  Whatever the GUI closes or changes in between.
THEOREM SocketServed == Spec => []KySocket
<1>1. IInv => KySocket
  BY DEF IInv, Polling, SpeedKnown, KySocket, KySpeedCurrent
<1> QED
  BY <1>1, Inductive, PTL

\* Commands leave on the TCI socket, and texts on the CAT socket, in the order in
\* which the GUI issued them, each at most once, for queues and backlogs of any
\* length and any number of commands.
THEOREM CommandsKeepOrder == Spec => CommandsInOrder
<1>1. IInv /\ [Next]_vars => (sent' # sent => sent' > sent) /\ (keyed' # keyed => keyed' > keyed)
  <2> SUFFICES ASSUME IInv, [Next]_vars
               PROVE  (sent' # sent => sent' > sent) /\ (keyed' # keyed => keyed' > keyed)
    OBVIOUS
  <2> USE OrderTypes
  <2>1. CASE SendNext
    <3>1. batch # << >> /\ keyed' = keyed /\ sent' \in {sent, batch[1].num} /\ 1 \in 1 .. Len(batch)
      BY <2>1 DEF SendNext, SendTci
    <3> QED
      BY <3>1 DEF IInv, BatchNext, After
  <2>2. CASE KyReadFree
    <3>1. sent' = sent
      BY <2>2 DEF KyReadFree, KyRest
    <3>2. ky_pos < Len(ky_backlog) => NextPos \in ky_pos + 1 .. Len(ky_backlog)
      BY NextPosLater DEF IInv
    <3>3. keyed' = keyed \/ \E i \in ky_pos + 1 .. Len(ky_backlog) : keyed' = ky_backlog[i]
      BY <2>2, <3>2 DEF KyReadFree
    <3>4. \A i \in ky_pos + 1 .. Len(ky_backlog) : i \in 1 .. Len(ky_backlog) /\ i > ky_pos
      OBVIOUS
    <3> QED
      BY <3>1, <3>3, <3>4 DEF IInv, BacklogFirst
  <2>3. CASE ~SendNext /\ ~KyReadFree
    <3>1. UNCHANGED <<sent, keyed>>
      BY <2>3
        DEF Next, vars, Calling, Tune, CwText, CwStop, SetWpm, ApplyConfig, LinkUp,
            LinkDown,
             TimePasses, Servicing, ServiceTraining, ServiceTake, ServiceGoesOn,
             ServiceGivesUp, ServiceSpeed, SendText,
             ServiceDone, KyService, KyNotReady, KyReady, KyReadNothing, KyReadClosed, KyReadBusy,
             KyPoll, KyRest, wireVars, told
    <3> QED
      BY <3>1
  <2> QED
    BY <2>1, <2>2, <2>3
<1> QED
  BY <1>1, Inductive, PTL DEF Spec, CommandsInOrder, TciInOrder, KyInOrder

\* On a connection that holds: a speed the service took has reached the radio,
\* or is in the hands of the service, or was changed since and is marked again.
SpeedTold ==
    /\ link \in {"down", "up"}
    /\ link = "down" => pc = "idle" /\ speed_dirty
    /\ ~speed_dirty /\ send_wpm => wpm_copy = wpm
    /\ ~speed_dirty /\ ~send_wpm => tci_speed = wpm

\* The flag is cleared before the speed is sent, and still no change is lost: on
\* a connection that does not fail the radio has the current speed between two
\* services, or the speed is marked for sending.
THEOREM SpeedReachesRadio == ~LinkDrops => (Spec => []TciSpeedCurrent)
<1> SUFFICES ASSUME ~LinkDrops PROVE Spec => []TciSpeedCurrent
  OBVIOUS
<1>1. Init => SpeedTold
  BY DEF Init, SpeedTold
<1>2. IInv /\ SpeedTold /\ [Next]_vars => SpeedTold'
  <2> SUFFICES ASSUME IInv, SpeedTold, [Next]_vars PROVE SpeedTold'
    OBVIOUS
  <2>1. speed_dirty \in BOOLEAN /\ send_wpm \in BOOLEAN
    BY DEF IInv, TypeOK
  <2>2. CASE Calling
    BY <2>1, <2>2
      DEF SpeedTold, Calling, Tune, CwText, CwStop, SetWpm, ApplyConfig, kyVars,
                      wireVars, told, svcVars
  <2>3. CASE LinkUp \/ LinkDown \/ TimePasses
    BY <2>1, <2>3
      DEF SpeedTold, LinkUp, LinkDown, TimePasses, cmdVars, wireVars, told, svcVars
  <2>4. CASE \/ ServiceTraining \/ ServiceTake \/ ServiceGoesOn
             \/ ServiceGivesUp \/ ServiceSpeed \/ ServiceDone
    <3>1. CASE ServiceTraining
      BY <3>1 DEF SpeedTold, ServiceTraining
    <3>2. CASE ServiceTake
      <4>1. ~send_wpm
        BY <3>2 DEF IInv, SpeedKnown, ServiceTake
      <4> QED
        BY <2>1, <3>2, <4>1 DEF SpeedTold, ServiceTake, wireVars, told
    <3>3. CASE ServiceSpeed
      BY <2>1, <3>3 DEF SpeedTold, ServiceSpeed, cmdVars
    <3>4. CASE ServiceDone
      BY <2>1, <3>4 DEF SpeedTold, ServiceDone, cmdVars, wireVars, told
    <3>5. CASE ServiceGoesOn
      BY <2>1, <3>5 DEF SpeedTold, ServiceGoesOn, cmdVars, wireVars, told
    <3>6. CASE ServiceGivesUp
      BY <3>6 DEF SpeedTold, ServiceGivesUp
    <3> QED
      BY <2>4, <3>1, <3>2, <3>3, <3>4, <3>5, <3>6
  <2>5. CASE SendNext \/ SendText
    BY <2>1, <2>5 DEF SpeedTold, SendNext, SendText, cmdVars, wireVars, told
  <2>6. CASE KyService
    <3>1. /\ UNCHANGED <<cmdVars, tci_speed, send_wpm, wpm_copy, link>>
          /\ pc \in {"ky", "ky_read", "ky_poll"}
      BY <2>6
        DEF KyService, KyNotReady, KyReady, KyReadNothing, KyReadClosed, KyReadBusy,
                  KyReadFree, KyPoll, KyRest
    <3> QED
      BY <2>1, <3>1 DEF SpeedTold, cmdVars
  <2>7. CASE UNCHANGED vars
    BY <2>7 DEF SpeedTold, vars, cmdVars, wireVars, told, svcVars
  <2> QED
    BY <2>2, <2>3, <2>4, <2>5, <2>6, <2>7 DEF Next, Servicing
<1>3. IInv /\ SpeedTold => TciSpeedCurrent
  BY DEF IInv, SpeedKnown, SpeedTold, TciSpeedCurrent
<1> QED
  BY <1>1, <1>2, <1>3, Inductive, PTL DEF Spec

-----------------------------------------------------------------------------
(* The reporter, used from one thread.                                     *)
LEMMA SpotConstants ==
    /\ RETRY_QUEUE_MAX \in Nat \ {0} /\ MaxSpots \in Nat
    /\ OneThread \in BOOLEAN /\ LossySend \in BOOLEAN
    /\ "loop" \notin Decoders
BY LinksAssumption DEF Reporter!SpotAssumption

Inside == {"send", "queue", "requeue", "advance", "readvance", "count", "recount",
           "head", "pop"}

Types ==
    /\ retry_head \in Reporter!Slots /\ retry_tail \in Reporter!Slots
    /\ queue_size \in 0 .. RETRY_QUEUE_MAX
    /\ where \in [Reporter!Threads -> {"idle"} \cup Inside]
    /\ size_read \in [Reporter!Threads -> 0 .. RETRY_QUEUE_MAX]

\* One thread at a time is inside the reporter.
Alone == \A t, u \in Reporter!Threads : where[t] # "idle" /\ where[u] # "idle" => t = u

\* What a thread read of queue_size before it changes it still holds, and there
\* is room when it has stored a spot, and a spot when it removes one.
Reads == \A t \in Reporter!Threads :
    /\ where[t] \in {"advance", "readvance", "count", "recount"} =>
           size_read[t] = queue_size /\ queue_size < RETRY_QUEUE_MAX
    /\ where[t] \in {"head", "pop"} => t = "loop" /\ queue_size > 0
    /\ t = "loop" /\ where[t] \in {"send", "pop"} =>
           size_read[t] = queue_size /\ queue_size > 0

\* The tail is ahead of the counter by the spot that is just being added.
Adding == \E t \in Reporter!Threads : where[t] \in {"count", "recount"}
Counters == retry_tail = Reporter!Wrap(retry_head + queue_size + IF Adding THEN 1 ELSE 0)

RingInv == Types /\ Alone /\ Reads /\ Counters

-----------------------------------------------------------------------------
\* One turn around the ring.
LEMMA WrapOnce ==
  ASSUME NEW i \in 0 .. 2 * RETRY_QUEUE_MAX - 1
  PROVE  /\ Reporter!Wrap(i) \in Reporter!Slots
         /\ Reporter!Wrap(i) = IF i < RETRY_QUEUE_MAX THEN i ELSE i - RETRY_QUEUE_MAX
BY SpotConstants DEF Reporter!Wrap, Reporter!Slots

\* Thread t, alone in the reporter, moves on: the others stay where they are.
LEMMA Moves ==
  ASSUME RingInv, NEW t \in Reporter!Threads, \A u \in Reporter!Threads \ {t} : where[u] = "idle",
         NEW l \in {"idle"} \cup Inside, Reporter!Goto(t, l)
  PROVE  /\ where' \in [Reporter!Threads -> {"idle"} \cup Inside] /\ Alone'
         /\ where'[t] = l /\ \A u \in Reporter!Threads \ {t} : where'[u] = "idle"
         /\ Adding <=> where[t] \in {"count", "recount"}
         /\ Adding' <=> l \in {"count", "recount"}
<1>1. where \in [Reporter!Threads -> {"idle"} \cup Inside]
  BY DEF RingInv, Types
<1>2. where' = [where EXCEPT ![t] = l]
  BY DEF Reporter!Goto
<1> QED
  BY <1>1, <1>2 DEF Alone, Adding

\* Thread t is alone when it begins and as long as it is inside.
LEMMA Others ==
  ASSUME RingInv, OneThread, NEW t \in Reporter!Threads, Reporter!Idle(t) \/ where[t] # "idle"
  PROVE  \A u \in Reporter!Threads \ {t} : where[u] = "idle"
BY DEF RingInv, Alone, Reporter!Idle

\* The spot is sent, or not, or finds no room: the counters stay.
LEMMA SentStep ==
  ASSUME RingInv, OneThread, NEW t \in Reporter!Threads,
         Reporter!Submit(t) \/ Reporter!SendOk(t) \/ Reporter!SendAgain(t) \/ Reporter!SendFail(t)
           \/ Reporter!QueueFull(t)
  PROVE  RingInv'
<1>1. \A u \in Reporter!Threads \ {t} : where[u] = "idle"
  BY Others
    DEF Reporter!Submit, Reporter!SendOk, Reporter!SendAgain, Reporter!SendFail,
        Reporter!QueueFull
<1>2. UNCHANGED <<Reporter!ring, size_read>>
  BY
    DEF Reporter!Submit, Reporter!SendOk, Reporter!SendAgain, Reporter!SendFail,
        Reporter!QueueFull
<1>3. PICK l \in {"idle", "pop", "send", "queue", "requeue"} :
         /\ Reporter!Goto(t, l)
         /\ where[t] \notin {"count", "recount"}
         /\ l = "pop" => t = "loop" /\ where[t] = "send"
         /\ l = "send" => t # "loop"
  <2>1. CASE Reporter!Submit(t)
    BY <2>1, SpotConstants DEF Reporter!Submit, Reporter!SubmitEntry, Reporter!Idle
  <2>2. CASE Reporter!SendOk(t) \/ Reporter!SendAgain(t)
    BY <2>2 DEF Reporter!SendOk, Reporter!SendAgain, Reporter!Success
  <2>3. CASE Reporter!SendFail(t) \/ Reporter!QueueFull(t)
    BY <2>3 DEF Reporter!SendFail, Reporter!QueueFull, Reporter!Failure
  <2> QED
    BY <2>1, <2>2, <2>3
<1>5. /\ where' \in [Reporter!Threads -> {"idle"} \cup Inside] /\ Alone'
      /\ where'[t] = l /\ \A u \in Reporter!Threads \ {t} : where'[u] = "idle"
      /\ ~Adding /\ ~Adding'
  BY <1>1, <1>3, Moves DEF Inside
<1>6. Types'
  BY <1>2, <1>5 DEF RingInv, Types, Reporter!ring
<1>7. Reads'
  BY <1>2, <1>3, <1>5 DEF RingInv, Reads, Reporter!ring
<1>8. Counters'
  BY <1>2, <1>5 DEF RingInv, Counters, Reporter!ring, Reporter!Wrap
<1> QED
  BY <1>5, <1>6, <1>7, <1>8 DEF RingInv

\* A spot is written into the slot behind the last one.
LEMMA StoreStep ==
  ASSUME RingInv, OneThread, NEW t \in Reporter!Threads, Reporter!QueueStore(t)
  PROVE  RingInv'
<1>1. \A u \in Reporter!Threads \ {t} : where[u] = "idle"
  BY Others DEF Reporter!QueueStore
<1>2. /\ UNCHANGED <<retry_head, retry_tail, queue_size>> /\ queue_size < RETRY_QUEUE_MAX
      /\ size_read' = [size_read EXCEPT ![t] = queue_size]
      /\ where[t] \in {"queue", "requeue"}
  BY DEF Reporter!QueueStore
<1>3. PICK l \in {"advance", "readvance"} : Reporter!Goto(t, l)
  BY DEF Reporter!QueueStore
<1>4. /\ where' \in [Reporter!Threads -> {"idle"} \cup Inside] /\ Alone'
      /\ where'[t] = l /\ \A u \in Reporter!Threads \ {t} : where'[u] = "idle"
      /\ ~Adding /\ ~Adding'
  BY <1>1, <1>2, <1>3, Moves DEF Inside
<1>5. Types'
  BY <1>2, <1>4 DEF RingInv, Types
<1>6. Reads'
  BY <1>2, <1>3, <1>4 DEF RingInv, Types, Reads
<1>7. Counters'
  BY <1>2, <1>4 DEF RingInv, Counters, Reporter!Wrap
<1> QED
  BY <1>4, <1>5, <1>6, <1>7 DEF RingInv

\* The tail moves on, once around the ring.
LEMMA AdvanceStep ==
  ASSUME RingInv, OneThread, NEW t \in Reporter!Threads, Reporter!QueueAdvance(t)
  PROVE  RingInv'
<1>1. \A u \in Reporter!Threads \ {t} : where[u] = "idle"
  BY Others DEF Reporter!QueueAdvance
<1>2. /\ UNCHANGED <<retry_head, queue_size, size_read>>
      /\ retry_tail' = Reporter!Wrap(retry_tail + 1)
      /\ where[t] \in {"advance", "readvance"}
  BY DEF Reporter!QueueAdvance
<1>3. PICK l \in {"count", "recount"} : Reporter!Goto(t, l)
  BY DEF Reporter!QueueAdvance
<1>4. /\ where' \in [Reporter!Threads -> {"idle"} \cup Inside] /\ Alone'
      /\ where'[t] = l /\ \A u \in Reporter!Threads \ {t} : where'[u] = "idle"
      /\ ~Adding /\ Adding'
  BY <1>1, <1>2, <1>3, Moves DEF Inside
<1>5. size_read[t] = queue_size /\ queue_size < RETRY_QUEUE_MAX
  BY <1>2 DEF RingInv, Reads
<1>6. retry_tail' \in Reporter!Slots /\ retry_tail' = Reporter!Wrap(retry_head + queue_size + 1)
  <2> DEFINE a == retry_head + queue_size
             b == retry_tail + 1
             c == a + 1
  <2>1. retry_tail = Reporter!Wrap(a)
    BY <1>4 DEF RingInv, Counters, Types, Reporter!Slots
  <2>2. /\ a \in 0 .. 2 * RETRY_QUEUE_MAX - 1 /\ c \in 0 .. 2 * RETRY_QUEUE_MAX - 1
        /\ b \in 0 .. 2 * RETRY_QUEUE_MAX - 1
    BY <1>5, SpotConstants DEF RingInv, Types, Reporter!Slots
  <2> HIDE DEF a
  <2>3. retry_tail = IF a < RETRY_QUEUE_MAX THEN a ELSE a - RETRY_QUEUE_MAX
    BY <2>1, <2>2, WrapOnce
  <2>4. b = retry_tail + 1 /\ c = a + 1
    OBVIOUS
  <2>5. retry_tail' = Reporter!Wrap(b)
    BY <1>2
  <2> HIDE DEF b, c
  <2>6. Reporter!Wrap(b) = IF b < RETRY_QUEUE_MAX THEN b ELSE b - RETRY_QUEUE_MAX
    BY <2>2, WrapOnce
  <2>7. Reporter!Wrap(c) = IF c < RETRY_QUEUE_MAX THEN c ELSE c - RETRY_QUEUE_MAX
    BY <2>2, WrapOnce
  <2>8. Reporter!Wrap(b) \in Reporter!Slots
    BY <2>2, WrapOnce
  <2>9. Reporter!Wrap(b) = Reporter!Wrap(c)
    <3>1. a \in Int /\ RETRY_QUEUE_MAX \in Int /\ c \in Int /\ c <= 2 * RETRY_QUEUE_MAX - 1
      BY <2>2, SpotConstants
    <3>2. CASE a < RETRY_QUEUE_MAX
      BY <2>3, <2>4, <2>6, <2>7, <3>1, <3>2
    <3>3. CASE a >= RETRY_QUEUE_MAX
      <4>1. b = c - RETRY_QUEUE_MAX /\ b < RETRY_QUEUE_MAX
        BY <2>3, <2>4, <3>1, <3>3
      <4>2. ~(c < RETRY_QUEUE_MAX)
        BY <2>4, <3>1, <3>3
      <4> QED
        BY <2>6, <2>7, <4>1, <4>2
    <3> QED
      BY <3>1, <3>2, <3>3
  <2>10. retry_tail' = Reporter!Wrap(retry_head + queue_size + 1)
    BY <2>5, <2>9 DEF a, c
  <2> QED
    BY <2>8, <2>5, <2>10
<1>7. Types'
  BY <1>2, <1>4, <1>6 DEF RingInv, Types
<1>8. Reads'
  BY <1>2, <1>3, <1>4, <1>5 DEF RingInv, Reads
<1>9. Counters'
  BY <1>2, <1>4, <1>6 DEF Counters, Reporter!Wrap
<1> QED
  BY <1>4, <1>7, <1>8, <1>9 DEF RingInv

\* The counter follows.
LEMMA CountStep ==
  ASSUME RingInv, OneThread, NEW t \in Reporter!Threads, Reporter!QueueCount(t)
  PROVE  RingInv'
<1>1. \A u \in Reporter!Threads \ {t} : where[u] = "idle"
  BY Others DEF Reporter!QueueCount
<1>2. where[t] \in {"count", "recount"} /\ UNCHANGED <<retry_head, retry_tail>>
  BY DEF Reporter!QueueCount
<1>3. size_read[t] = queue_size /\ queue_size < RETRY_QUEUE_MAX
  BY <1>2 DEF RingInv, Reads
<1>4. /\ queue_size' = queue_size + 1
      /\ size_read' = [size_read EXCEPT ![t] = queue_size + 1]
  BY <1>3 DEF Reporter!QueueCount
<1>5. PICK l \in {"idle", "pop"} : Reporter!Goto(t, l) /\ (l = "pop" => t = "loop")
  BY DEF Reporter!QueueCount, Reporter!Success, Reporter!Failure
<1>6. /\ where' \in [Reporter!Threads -> {"idle"} \cup Inside] /\ Alone'
      /\ where'[t] = l /\ \A u \in Reporter!Threads \ {t} : where'[u] = "idle"
      /\ Adding /\ ~Adding'
  BY <1>1, <1>2, <1>5, Moves DEF Inside
<1>7. queue_size' \in 0 .. RETRY_QUEUE_MAX /\ queue_size' > 0
  BY <1>3, <1>4, SpotConstants DEF RingInv, Types
<1>8. Types'
  BY <1>2, <1>4, <1>6, <1>7 DEF RingInv, Types
<1>9. Reads'
  BY <1>4, <1>5, <1>6, <1>7 DEF RingInv, Types, Reads
<1>10. Counters'
  <2>1. retry_head + queue_size + 1 = retry_head' + queue_size' + 0
    BY <1>2, <1>4, SpotConstants DEF RingInv, Types, Reporter!Slots
  <2> QED
    BY <1>2, <1>6, <2>1 DEF RingInv, Counters
<1> QED
  BY <1>6, <1>8, <1>9, <1>10 DEF RingInv

\* A drain begins, or no connection is made; the oldest spot is taken in hand.
LEMMA DrainStep ==
  ASSUME RingInv, OneThread, Reporter!RetryStart \/ Reporter!ConnectFails \/ Reporter!RetryHead
  PROVE  RingInv'
<1>1. "loop" \in Reporter!Threads
  BY DEF Reporter!Threads
<1>2. CASE Reporter!ConnectFails
  BY <1>2
    DEF Reporter!ConnectFails, Reporter!ring, Reporter!thread, RingInv, Types, Alone,
        Reads, Counters, Adding
<1>3. CASE Reporter!RetryStart \/ Reporter!RetryHead
  <2>1. \A u \in Reporter!Threads \ {"loop"} : where[u] = "idle"
    BY <1>1, <1>3, Others DEF Reporter!RetryStart, Reporter!RetryHead
  <2>2. /\ UNCHANGED Reporter!ring /\ queue_size \in Nat
        /\ size_read' \in {size_read, [size_read EXCEPT !["loop"] = queue_size]}
    BY <1>3 DEF Reporter!RetryStart, Reporter!RetryHead, RingInv, Types
  <2>3. PICK l \in {"head", "send", "queue"} :
           /\ Reporter!Goto("loop", l)
           /\ where["loop"] \notin {"count", "recount"}
           /\ queue_size > 0
           /\ l = "send" => size_read' = [size_read EXCEPT !["loop"] = queue_size]
    BY <1>1, <1>3
      DEF Reporter!RetryStart, Reporter!RetryHead, Reporter!SubmitEntry, Reporter!Idle,
          RingInv, Reads
  <2>4. /\ where' \in [Reporter!Threads -> {"idle"} \cup Inside] /\ Alone'
        /\ where'["loop"] = l /\ \A u \in Reporter!Threads \ {"loop"} : where'[u] = "idle"
        /\ ~Adding /\ ~Adding'
    BY <1>1, <2>1, <2>3, Moves DEF Inside
  <2>5. Types'
    BY <2>2, <2>4 DEF RingInv, Types, Reporter!ring
  <2>6. Reads'
    BY <1>1, <2>2, <2>3, <2>4 DEF RingInv, Types, Reads, Reporter!ring
  <2>7. Counters'
    BY <2>2, <2>4 DEF RingInv, Counters, Reporter!ring, Reporter!Wrap
  <2> QED
    BY <2>4, <2>5, <2>6, <2>7 DEF RingInv
<1> QED
  BY <1>2, <1>3

\* The oldest spot is removed: the head moves on, and the counter follows.
LEMMA PopStep == ASSUME RingInv, OneThread, Reporter!RetryPop PROVE RingInv'
<1>1. "loop" \in Reporter!Threads /\ where["loop"] = "pop"
  BY DEF Reporter!Threads, Reporter!RetryPop
<1>2. \A u \in Reporter!Threads \ {"loop"} : where[u] = "idle"
  BY <1>1, Others
<1>3. size_read["loop"] = queue_size /\ queue_size > 0
  BY <1>1 DEF RingInv, Reads
<1>4. /\ queue_size' = queue_size - 1 /\ retry_head' = Reporter!Wrap(retry_head + 1)
      /\ UNCHANGED <<retry_tail, size_read>>
  BY <1>3 DEF Reporter!RetryPop
<1>5. PICK l \in {"head", "idle"} : Reporter!Goto("loop", l) /\ (l = "head" => queue_size' > 0)
  BY DEF Reporter!RetryPop
<1>6. /\ where' \in [Reporter!Threads -> {"idle"} \cup Inside] /\ Alone'
      /\ where'["loop"] = l /\ \A u \in Reporter!Threads \ {"loop"} : where'[u] = "idle"
      /\ ~Adding /\ ~Adding'
  BY <1>1, <1>2, <1>5, Moves DEF Inside
<1> DEFINE a == retry_head + 1
           h == Reporter!Wrap(a)
           s == retry_head + queue_size
           r == h + (queue_size - 1)
<1>7. /\ a \in 0 .. 2 * RETRY_QUEUE_MAX - 1 /\ s \in 0 .. 2 * RETRY_QUEUE_MAX - 1
      /\ a \in Nat /\ queue_size \in Nat /\ s = (a - 1) + queue_size
      /\ queue_size - 1 \in 0 .. RETRY_QUEUE_MAX - 1
  BY <1>3, SpotConstants DEF RingInv, Types, Reporter!Slots
<1>8. retry_tail = Reporter!Wrap(s)
  BY <1>6, <1>7 DEF RingInv, Counters
<1>9. retry_head' = h
  BY <1>4
<1>10. queue_size' \in 0 .. RETRY_QUEUE_MAX
  BY <1>4, <1>7, SpotConstants
<1> HIDE DEF a, s
<1>11. h \in Reporter!Slots /\ h = IF a < RETRY_QUEUE_MAX THEN a ELSE a - RETRY_QUEUE_MAX
  BY <1>7, WrapOnce
<1> HIDE DEF h
<1>12. r \in 0 .. 2 * RETRY_QUEUE_MAX - 1 /\ r = h + (queue_size - 1)
  BY <1>7, <1>11, SpotConstants DEF Reporter!Slots
<1>13. retry_head' + queue_size' + 0 = r
  BY <1>4, <1>9, <1>11, <1>12, SpotConstants DEF Reporter!Slots
<1> HIDE DEF r
<1>14. Reporter!Wrap(r) = IF r < RETRY_QUEUE_MAX THEN r ELSE r - RETRY_QUEUE_MAX
  BY <1>12, WrapOnce
<1>15. Reporter!Wrap(s) = IF s < RETRY_QUEUE_MAX THEN s ELSE s - RETRY_QUEUE_MAX
  BY <1>7, WrapOnce
<1>16. Reporter!Wrap(r) = Reporter!Wrap(s)
  BY <1>7, <1>11, <1>12, <1>14, <1>15, SpotConstants DEF Reporter!Slots
<1>17. Counters'
  BY <1>4, <1>6, <1>8, <1>13, <1>16 DEF Counters
<1>18. Types'
  BY <1>4, <1>6, <1>9, <1>10, <1>11 DEF RingInv, Types
<1>19. Reads'
  BY <1>5, <1>6, <1>10 DEF Reads
<1> QED
  BY <1>6, <1>17, <1>18, <1>19 DEF RingInv

-----------------------------------------------------------------------------
LEMMA RingInvInit == ASSUME Reporter!Init PROVE RingInv
<1>1. Reporter!Wrap(0) = 0 /\ 0 \in Reporter!Slots /\ 0 \in 0 .. RETRY_QUEUE_MAX
  BY SpotConstants DEF Reporter!Wrap, Reporter!Slots
<1>2. ~Adding /\ Alone /\ Reads
  BY DEF Reporter!Init, Adding, Alone, Reads
<1>3. Types
  BY <1>1 DEF Reporter!Init, Types
<1>4. Counters
  BY <1>1, <1>2 DEF Reporter!Init, Counters
<1> QED
  BY <1>2, <1>3, <1>4 DEF RingInv

LEMMA RingInvStep == ASSUME RingInv, OneThread, [Reporter!Next]_(Reporter!vars) PROVE RingInv'
<1>1. CASE Reporter!RetryStart \/ Reporter!ConnectFails \/ Reporter!RetryHead
  BY <1>1, DrainStep
<1>2. CASE Reporter!RetryPop
  BY <1>2, PopStep
<1>3. ASSUME NEW t \in Reporter!Threads, Reporter!Submission(t) PROVE RingInv'
  BY <1>3, SentStep, StoreStep, AdvanceStep, CountStep DEF Reporter!Submission
<1>4. CASE Reporter!TimePasses \/ UNCHANGED Reporter!vars
  BY <1>4
    DEF Reporter!TimePasses, Reporter!vars, Reporter!ring, Reporter!thread, RingInv,
        Types, Alone, Reads, Counters, Adding
<1> QED
  BY <1>1, <1>2, <1>3, <1>4 DEF Reporter!Next, Reporter!Retries

LEMMA RingInvConsistent == ASSUME RingInv PROVE Reporter!RingConsistent
<1> SUFFICES ASSUME Reporter!AllIdle PROVE retry_tail = Reporter!Wrap(retry_head + queue_size)
  BY DEF Reporter!RingConsistent
<1>1. ~Adding
  BY DEF Reporter!AllIdle, Adding
<1>2. retry_head + queue_size + 0 = retry_head + queue_size
  BY SpotConstants DEF RingInv, Types, Reporter!Slots
<1> QED
  BY <1>1, <1>2 DEF RingInv, Counters

\* Between two calls the tail is as many slots ahead of the head as queue_size
\* says: drains that stop in the middle, spots put back, refusals and turns
\* around the end of the array keep it so.
THEOREM CountersAgree == OneThread => (Reporter!Spec => []Reporter!RingConsistent)
<1> SUFFICES ASSUME OneThread PROVE Reporter!Spec => []Reporter!RingConsistent
  OBVIOUS
<1>1. RingInv /\ [Reporter!Next]_(Reporter!vars) => RingInv'
  BY RingInvStep
<1> QED
  BY <1>1, RingInvInit, RingInvConsistent, PTL DEF Reporter!Spec

-----------------------------------------------------------------------------
(* Where the spots are.                                                    *)

Adds == {"advance", "readvance", "count", "recount"}

\* How far slot i is behind the oldest spot.
Behind(i) == IF i >= retry_head THEN i - retry_head ELSE i - retry_head + RETRY_QUEUE_MAX

\* The slots in use: one is stored before it is counted, and the oldest is
\* done with as soon as it is sent.
First == IF where["loop"] = "pop" THEN 1 ELSE 0
Last  == queue_size + IF \E t \in Reporter!Threads : where[t] \in Adds THEN 1 ELSE 0
Used  == {i \in Reporter!Slots : First <= Behind(i) /\ Behind(i) < Last}

Spotted ==
    /\ submitted \in 0 .. MaxSpots
    /\ retry_queue \in [Reporter!Slots -> 0 .. submitted]
    /\ spot \in [Reporter!Threads -> 0 .. submitted]
    /\ UNION {taken, again, failed, refused} \subseteq 1 .. submitted
    /\ connected \in BOOLEAN /\ recent \in BOOLEAN
    /\ \A i \in Used : retry_queue[i] \in 1 .. submitted

\* The spot in the hands of a thread.
Hands ==
    /\ where["loop"] \notin {"queue", "advance", "count"}
    /\ where["loop"] \in {"head", "send", "pop"} => connected
    /\ where["loop"] \in {"send", "requeue"} => \A i \in Reporter!Slots : Behind(i) = 0
         => retry_queue[i] = spot["loop"]
    /\ \A t \in Reporter!Threads :
          /\ where[t] \in {"send", "queue", "requeue"} => spot[t] \in 1 .. submitted
          /\ where[t] \in {"requeue", "readvance", "recount"} => spot[t] \in failed
          /\ where[t] \in Adds => \A i \in Reporter!Slots : Behind(i) = queue_size
               => retry_queue[i] = spot[t]

Held(s)  == \E i \in Used : retry_queue[i] = s
Gone(s)  == s \in taken \cup again \cup refused
Once(s)  == /\ \A i, j \in Used : retry_queue[i] = s /\ retry_queue[j] = s => i = j
            /\ ~ (Held(s) /\ Gone(s))
            /\ ~ (s \in taken /\ s \in again)
            /\ ~ (s \in taken /\ s \in refused)
            /\ ~ (s \in again /\ s \in refused)
Fresh(s) == \E t \in Reporter!Threads \ {"loop"} : where[t] \in {"send", "queue"} /\ spot[t] = s
Limbo(s) == \E t \in Reporter!Threads : where[t] = "requeue" /\ spot[t] = s

\* A spot is in the hands of the thread that submits it, or waits, or its fate
\* is known, or its send failed and it is being put back.
Place(s) == /\ Fresh(s) => ~ Held(s) /\ ~ Gone(s) /\ s \notin failed
            /\ Held(s) \/ Gone(s) \/ Fresh(s) \/ Limbo(s)
            /\ s \notin failed => Once(s)

Full == RingInv /\ Spotted /\ Hands /\ \A s \in 1 .. submitted : Place(s)

\* Slots differ in how far they are behind the oldest spot.
LEMMA BehindIs ==
  ASSUME retry_head \in Reporter!Slots, NEW i \in Reporter!Slots, NEW j \in Reporter!Slots
  PROVE  /\ Behind(i) \in 0 .. RETRY_QUEUE_MAX - 1
         /\ Behind(i) = 0 <=> i = retry_head
         /\ Behind(i) = Behind(j) => i = j
BY SpotConstants DEF Behind, Reporter!Slots

\* The live slots are those less than queue_size behind, and the tail is
\* queue_size behind.
LEMMA LiveIs ==
  ASSUME retry_head \in Reporter!Slots, queue_size \in 0 .. RETRY_QUEUE_MAX
  PROVE  /\ Reporter!Live = {i \in Reporter!Slots : Behind(i) < queue_size}
         /\ queue_size < RETRY_QUEUE_MAX =>
               \A i \in Reporter!Slots : Behind(i) = queue_size
                 <=> i = Reporter!Wrap(retry_head + queue_size)
<1>1. RETRY_QUEUE_MAX \in Nat /\ retry_head \in 0 .. RETRY_QUEUE_MAX - 1
  BY SpotConstants DEF Reporter!Slots
<1>2. ASSUME NEW k \in 0 .. RETRY_QUEUE_MAX - 1
      PROVE  Reporter!Wrap(retry_head + k) \in Reporter!Slots
        /\ Behind(Reporter!Wrap(retry_head + k)) = k
  <2> DEFINE a == retry_head + k
             w == Reporter!Wrap(a)
  <2>1. a \in 0 .. 2 * RETRY_QUEUE_MAX - 1
    BY <1>1
  <2>2. a = retry_head + k /\ a \in Int /\ k \in Int /\ 0 <= k /\ k < RETRY_QUEUE_MAX
    BY <1>1
  <2> HIDE DEF a
  <2>3. w \in Reporter!Slots /\ w = IF a < RETRY_QUEUE_MAX THEN a ELSE a - RETRY_QUEUE_MAX
    BY <2>1, WrapOnce
  <2> HIDE DEF w
  <2>4. (IF w >= retry_head THEN w - retry_head ELSE w - retry_head + RETRY_QUEUE_MAX) = k
    BY <1>1, <2>2, <2>3
  <2> QED
    BY <2>3, <2>4 DEF a, w, Behind
<1>3. \A i \in Reporter!Slots : Behind(i) \in 0 .. RETRY_QUEUE_MAX - 1
  BY BehindIs
<1>4. \A i \in Reporter!Slots : i = Reporter!Wrap(retry_head + Behind(i))
  BY <1>2, <1>3, BehindIs
<1>5. Reporter!Live = {i \in Reporter!Slots : Behind(i) < queue_size}
  <2>1. ASSUME NEW i \in Reporter!Live PROVE i \in Reporter!Slots /\ Behind(i) < queue_size
    <3>1. PICK k \in 0 .. queue_size - 1 : i = Reporter!Wrap(retry_head + k)
      BY DEF Reporter!Live
    <3>2. k \in 0 .. RETRY_QUEUE_MAX - 1 /\ k < queue_size
      BY <1>1
    <3> QED
      BY <1>2, <3>1, <3>2
  <2>2. ASSUME NEW i \in Reporter!Slots, Behind(i) < queue_size PROVE i \in Reporter!Live
    <3>1. Behind(i) \in 0 .. queue_size - 1
      BY <1>1, <1>3, <2>2
    <3> QED
      BY <1>4, <3>1 DEF Reporter!Live
  <2> QED
    BY <2>1, <2>2
<1>6. queue_size < RETRY_QUEUE_MAX =>
         \A i \in Reporter!Slots : Behind(i) = queue_size
           <=> i = Reporter!Wrap(retry_head + queue_size)
  BY <1>1, <1>2, <1>4
<1> QED
  BY <1>5, <1>6

\* Thread t, alone in the reporter, determines which slots are in use.
LEMMA UsedIs ==
  ASSUME RingInv, NEW t \in Reporter!Threads, \A u \in Reporter!Threads \ {t} : where[u] = "idle"
  PROVE  /\ First = IF where["loop"] = "pop" THEN 1 ELSE 0
         /\ Last = queue_size + IF where[t] \in Adds THEN 1 ELSE 0
         /\ Last \in Nat
BY SpotConstants DEF RingInv, Types, First, Last, Adds

\* A step that leaves the ring and the hands alone.
LEMMA Resting ==
  ASSUME Full, UNCHANGED <<retry_queue, retry_head, queue_size, where, spot, Reporter!wire>>,
         connected' \in BOOLEAN, recent' \in BOOLEAN, connected => connected'
  PROVE  Spotted' /\ Hands' /\ \A s \in 1 .. submitted' : Place(s)'
<1>1. Used' = Used /\ \A i \in Reporter!Slots : Behind(i)' = Behind(i)
  BY DEF Used, First, Last, Behind
<1>2. Spotted'
  BY <1>1 DEF Full, Spotted, Reporter!wire
<1>3. Hands'
  BY <1>1 DEF Full, Hands, Reporter!wire
<1>4. ASSUME NEW s \in 1 .. submitted PROVE Place(s)'
  BY <1>1 DEF Full, Place, Held, Gone, Once, Fresh, Limbo, Reporter!wire
<1> QED
  BY <1>2, <1>3, <1>4 DEF Reporter!wire

\* A new spot is in the hands of its thread and nowhere else.
LEMMA SubmitPlaces ==
  ASSUME Full, OneThread, NEW t \in Reporter!Threads, Reporter!Submit(t)
  PROVE  Spotted' /\ Hands' /\ \A s \in 1 .. submitted' : Place(s)'
<1>1. t # "loop" /\ \A u \in Reporter!Threads : where[u] = "idle"
  BY SpotConstants DEF Reporter!Submit, Reporter!Idle
<1>2. PICK l \in {"send", "queue"} : where' = [where EXCEPT ![t] = l]
  BY DEF Reporter!Submit, Reporter!SubmitEntry, Reporter!Goto
<1>3. /\ spot' = [spot EXCEPT ![t] = submitted + 1] /\ submitted' = submitted + 1
      /\ submitted < MaxSpots
      /\ UNCHANGED <<retry_queue, retry_head, queue_size, connected, recent, taken, again, failed,
                     refused>>
  BY DEF Reporter!Submit, Reporter!ring
<1>4. where \in [Reporter!Threads -> {"idle"} \cup Inside]
        /\ spot \in [Reporter!Threads -> 0 .. submitted]
      /\ submitted \in Nat
  BY SpotConstants DEF Full, RingInv, Types, Spotted
<1>5. where'[t] = l /\ spot'[t] = submitted + 1
        /\ \A u \in Reporter!Threads \ {t} : where'[u] = "idle"
  BY <1>1, <1>2, <1>3, <1>4
<1>6. "loop" \in Reporter!Threads /\ where["loop"] = "idle" /\ where'["loop"] = "idle"
  BY <1>1, <1>5 DEF Reporter!Threads
<1>7. Used' = Used /\ \A i \in Reporter!Slots : Behind(i)' = Behind(i)
  BY <1>1, <1>3, <1>5, <1>6 DEF Used, First, Last, Behind, Adds
<1>8. Spotted'
  <2>1. submitted' \in 0 .. MaxSpots /\ 0 .. submitted \subseteq 0 .. submitted'
        /\ 1 .. submitted \subseteq 1 .. submitted'
    BY <1>3, <1>4, SpotConstants
  <2>2. spot' \in [Reporter!Threads -> 0 .. submitted']
    BY <1>3, <1>4, <2>1
  <2>3. retry_queue' \in [Reporter!Slots -> 0 .. submitted']
    BY <1>3, <2>1 DEF Full, Spotted
  <2> QED
    BY <1>3, <1>7, <2>1, <2>2, <2>3 DEF Full, Spotted
<1>9. Hands'
  BY <1>3, <1>4, <1>5, <1>6 DEF Hands, Adds
<1>10. ASSUME NEW s \in 1 .. submitted' PROVE Place(s)'
  <2>1. CASE s = submitted + 1
    <3>1. ~ Held(s)' /\ ~ Gone(s)' /\ s \notin failed'
      BY <1>3, <1>4, <1>7, <2>1 DEF Full, Spotted, Held, Gone
    <3>2. Fresh(s)'
      BY <1>1, <1>5, <2>1 DEF Fresh
    <3>3. Once(s)'
      BY <3>1 DEF Once, Held, Gone
    <3> QED
      BY <3>1, <3>2, <3>3 DEF Place
  <2>2. CASE s # submitted + 1
    <3>1. s \in 1 .. submitted
      BY <1>3, <1>4, <2>2
    <3>2. ~ Fresh(s) /\ ~ Limbo(s)
      BY <1>1 DEF Fresh, Limbo
    <3>3. ~ Fresh(s)'
      BY <1>5, <2>2 DEF Fresh
    <3>4. Place(s)
      BY <3>1 DEF Full
    <3> QED
      BY <1>3, <1>7, <3>2, <3>3, <3>4 DEF Place, Held, Gone, Once
  <2> QED
    BY <2>1, <2>2
<1> QED
  BY <1>8, <1>9, <1>10

\* A spot in the hands of a decode thread: its fate is known.
LEMMA FatePlaces ==
  ASSUME Full, OneThread, NEW t \in Reporter!Threads \ {"loop"},
         Reporter!SendOk(t) \/ Reporter!SendAgain(t) \/ (Reporter!QueueFull(t)
           /\ where[t] = "queue")
  PROVE  Spotted' /\ Hands' /\ \A s \in 1 .. submitted' : Place(s)'
<1>1. \A u \in Reporter!Threads \ {t} : where[u] = "idle"
  BY Others DEF Full, Reporter!SendOk, Reporter!SendAgain, Reporter!QueueFull
<1>2. where[t] \in {"send", "queue"} /\ where' = [where EXCEPT ![t] = "idle"]
  BY
    DEF Reporter!SendOk, Reporter!SendAgain, Reporter!QueueFull, Reporter!Success,
        Reporter!Failure, Reporter!Goto
<1>3. UNCHANGED <<retry_queue, retry_head, queue_size, connected, recent, spot, failed, submitted>>
  BY DEF Reporter!SendOk, Reporter!SendAgain, Reporter!QueueFull, Reporter!ring
<1>4. /\ where \in [Reporter!Threads -> {"idle"} \cup Inside] /\ spot[t] \in 1 .. submitted
      /\ \A u \in Reporter!Threads : where'[u] = "idle"
      /\ "loop" \in Reporter!Threads /\ where["loop"] = "idle"
  BY <1>1, <1>2 DEF Full, RingInv, Types, Hands, Reporter!Threads
<1>5. \/ taken' = taken \cup {spot[t]} /\ UNCHANGED <<again, refused>>
      \/ again' = again \cup {spot[t]} /\ UNCHANGED <<taken, refused>>
      \/ refused' = refused \cup {spot[t]} /\ UNCHANGED <<taken, again>>
  BY DEF Reporter!SendOk, Reporter!SendAgain, Reporter!QueueFull
<1>6. Used' = Used /\ \A i \in Reporter!Slots : Behind(i)' = Behind(i)
  BY <1>1, <1>2, <1>3, <1>4 DEF Used, First, Last, Behind, Adds
<1>7. Spotted'
  BY <1>3, <1>4, <1>5, <1>6 DEF Full, Spotted
<1>8. Hands'
  BY <1>3, <1>4 DEF Hands, Adds
<1>9. ASSUME NEW s \in 1 .. submitted' PROVE Place(s)'
  <2>1. ~ Fresh(s)' /\ ~ Limbo(s)'
    BY <1>4 DEF Fresh, Limbo
  <2>2. Place(s) /\ ~ Limbo(s) /\ (Fresh(s) <=> s = spot[t])
    BY <1>1, <1>2, <1>3 DEF Full, Fresh, Limbo
  <2>3. CASE s = spot[t]
    <3>1. ~ Held(s) /\ ~ Gone(s) /\ s \notin failed
      BY <2>2, <2>3 DEF Place
    <3>2. ~ Held(s)' /\ Gone(s)'
      BY <1>3, <1>5, <1>6, <2>3, <3>1 DEF Held, Gone
    <3>3. Once(s)'
      BY <1>3, <1>5, <1>6, <2>3, <3>1, <3>2 DEF Once, Gone, Held
    <3> QED
      BY <2>1, <3>2, <3>3 DEF Place
  <2>4. CASE s # spot[t]
    <3>1. /\ s \in taken' <=> s \in taken
          /\ s \in again' <=> s \in again
          /\ s \in refused' <=> s \in refused
      BY <1>5, <2>4
    <3> QED
      BY <1>3, <1>6, <2>1, <2>2, <2>4, <3>1 DEF Place, Held, Gone, Once
  <2> QED
    BY <2>3, <2>4
<1> QED
  BY <1>7, <1>8, <1>9

\* The oldest spot is sent from its slot, which it leaves in the same step.
LEMMA DrainPlaces ==
  ASSUME Full, OneThread, Reporter!SendOk("loop") \/ Reporter!SendAgain("loop")
  PROVE  Spotted' /\ Hands' /\ \A s \in 1 .. submitted' : Place(s)'
<1>1. "loop" \in Reporter!Threads /\ \A u \in Reporter!Threads \ {"loop"} : where[u] = "idle"
  BY Others DEF Full, Reporter!SendOk, Reporter!SendAgain, Reporter!Threads
<1>2. where["loop"] = "send" /\ where' = [where EXCEPT !["loop"] = "pop"]
  BY DEF Reporter!SendOk, Reporter!SendAgain, Reporter!Success, Reporter!Goto
<1>3. UNCHANGED <<retry_queue, retry_head, queue_size, connected, recent, spot, failed, submitted,
                  refused>>
  BY DEF Reporter!SendOk, Reporter!SendAgain, Reporter!ring
<1>4. /\ where \in [Reporter!Threads -> {"idle"} \cup Inside] /\ spot["loop"] \in 1 .. submitted
      /\ where'["loop"] = "pop" /\ \A u \in Reporter!Threads \ {"loop"} : where'[u] = "idle"
      /\ queue_size > 0 /\ queue_size \in Nat
  BY <1>1, <1>2, SpotConstants DEF Full, RingInv, Types, Hands, Reads
<1>5. \/ taken' = taken \cup {spot["loop"]} /\ again' = again
      \/ again' = again \cup {spot["loop"]} /\ taken' = taken
  BY DEF Reporter!SendOk, Reporter!SendAgain
<1>6. \A i \in Reporter!Slots : Behind(i)' = Behind(i) /\ Behind(i) \in Nat
  BY <1>3, BehindIs, SpotConstants DEF Full, RingInv, Types, Behind
<1>7. /\ retry_head \in Used /\ retry_head \notin Used'
      /\ \A i : i \in Used' <=> i \in Used /\ i # retry_head
  <2>1. First = 0 /\ Last = queue_size /\ First' = 1 /\ Last' = queue_size
    BY <1>1, <1>2, <1>3, <1>4 DEF First, Last, Adds
  <2>2. retry_head \in Reporter!Slots /\ Behind(retry_head) = 0
    BY BehindIs DEF Full, RingInv, Types
  <2>3. \A i \in Reporter!Slots : Behind(i) = 0 <=> i = retry_head
    BY <2>2, BehindIs
  <2> QED
    BY <1>4, <1>6, <2>1, <2>2, <2>3 DEF Used
<1>8. retry_queue[retry_head] = spot["loop"]
  BY <1>2, BehindIs DEF Full, Hands, RingInv, Types
<1>9. Spotted'
  BY <1>3, <1>4, <1>5, <1>7 DEF Full, Spotted
<1>10. Hands'
  <2>1. connected
    BY <1>2 DEF Full, Hands
  <2> QED
    BY <1>1, <1>3, <1>4, <2>1 DEF Hands, Adds
<1>11. ASSUME NEW s \in 1 .. submitted' PROVE Place(s)'
  <2>1. ~ Fresh(s)' /\ ~ Limbo(s)' /\ ~ Fresh(s) /\ ~ Limbo(s)
    BY <1>1, <1>2, <1>4 DEF Fresh, Limbo
  <2>2. Place(s)
    BY <1>3 DEF Full
  <2>3. CASE s = spot["loop"]
    <3>1. Held(s) /\ Gone(s)'
      BY <1>5, <1>7, <1>8, <2>3 DEF Held, Gone
    <3>2. s \notin failed => Once(s)'
      <4> SUFFICES ASSUME s \notin failed PROVE Once(s)'
        OBVIOUS
      <4>1. ~ Gone(s) /\ \A i \in Used : retry_queue[i] = s => i = retry_head
        BY <1>7, <1>8, <2>2, <2>3, <3>1 DEF Place, Once
      <4>2. ~ Held(s)'
        BY <1>3, <1>7, <4>1 DEF Held
      <4> QED
        BY <1>3, <1>5, <4>1, <4>2 DEF Once, Held, Gone
    <3> QED
      BY <1>3, <2>1, <3>1, <3>2 DEF Place
  <2>4. CASE s # spot["loop"]
    <3>1. s \in taken' <=> s \in taken
      BY <1>5, <2>4
    <3>2. s \in again' <=> s \in again
      BY <1>5, <2>4
    <3>3. Held(s)' <=> Held(s)
      BY <1>3, <1>7, <1>8, <2>4 DEF Held
    <3>4. Once(s) => Once(s)'
      BY <1>3, <1>7, <3>1, <3>2, <3>3 DEF Once, Gone
    <3> QED
      BY <1>3, <2>1, <2>2, <3>1, <3>2, <3>3, <3>4 DEF Place, Gone
  <2> QED
    BY <2>3, <2>4
<1> QED
  BY <1>9, <1>10, <1>11

\* A send fails: the spot is put back, and may then be there twice, or is refused;
\* the one that the drain has in hand is still in its slot.
LEMMA FailPlaces ==
  ASSUME Full, OneThread, NEW t \in Reporter!Threads,
         Reporter!SendFail(t) \/ (Reporter!QueueFull(t) /\ where[t] = "requeue")
  PROVE  Spotted' /\ Hands' /\ \A s \in 1 .. submitted' : Place(s)'
<1>1. \A u \in Reporter!Threads \ {t} : where[u] = "idle"
  BY Others DEF Full, Reporter!SendFail, Reporter!QueueFull
<1>2. /\ where[t] \in {"send", "requeue"}
      /\ \/ where[t] = "send" /\ where' = [where EXCEPT ![t] = "requeue"]
         \/ where[t] = "requeue" /\ where' = [where EXCEPT ![t] = "idle"]
  BY DEF Reporter!SendFail, Reporter!QueueFull, Reporter!Failure, Reporter!Goto
<1>3. /\ UNCHANGED <<retry_queue, retry_head, queue_size, recent, spot, submitted, taken, again>>
      /\ connected' \in {FALSE, connected}
  BY DEF Reporter!SendFail, Reporter!QueueFull, Reporter!ring
<1>4. /\ where \in [Reporter!Threads -> {"idle"} \cup Inside] /\ spot[t] \in 1 .. submitted
      /\ \A u \in Reporter!Threads \ {t} : where'[u] = "idle" /\ u # t
      /\ where[t] = "requeue" => spot[t] \in failed
      /\ "loop" \in Reporter!Threads
  BY <1>1, <1>2 DEF Full, RingInv, Types, Hands, Reporter!Threads
<1>5. /\ failed' = failed \cup {spot[t]}
      /\ \/ refused' = refused /\ where[t] = "send" /\ where'[t] = "requeue"
         \/ refused' = refused \cup {spot[t]} /\ where'[t] = "idle"
         \/ /\ t = "loop" /\ refused' = refused
            /\ where[t] = "requeue" /\ where'[t] = "idle" /\ queue_size > 0
  <2>1. CASE Reporter!SendFail(t)
    BY <1>2, <1>4, <2>1 DEF Reporter!SendFail
  <2>2. CASE Reporter!QueueFull(t) /\ where[t] = "requeue"
    <3>1. queue_size > 0
      BY <2>2, SpotConstants DEF Reporter!QueueFull, Full, RingInv, Types
    <3> QED
      BY <1>2, <1>4, <2>2, <3>1 DEF Reporter!QueueFull
  <2> QED
    BY <2>1, <2>2
<1>6. Used' = Used /\ \A i \in Reporter!Slots : Behind(i)' = Behind(i)
  <2>1. First = 0 /\ First' = 0 /\ Last = queue_size + 0 /\ Last' = queue_size + 0
    BY <1>1, <1>2, <1>3, <1>4, <1>5 DEF First, Last, Adds
  <2> QED
    BY <1>3, <2>1 DEF Used, Behind
<1>7. Spotted'
  <2>1. connected' \in BOOLEAN /\ recent' \in BOOLEAN
    BY <1>3 DEF Full, Spotted
  <2>2. UNION {taken', again', failed', refused'} \subseteq 1 .. submitted
    BY <1>3, <1>4, <1>5 DEF Full, Spotted
  <2> QED
    BY <1>3, <1>6, <2>1, <2>2 DEF Full, Spotted
<1>8. Hands'
  <2>1. where'["loop"] \in {"requeue", "idle"}
    BY <1>4, <1>5
  <2>2. where'["loop"] = "requeue" => \A i \in Reporter!Slots : Behind(i)' = 0
          => retry_queue'[i] = spot'["loop"]
    BY <1>3, <1>4, <1>5, <1>6 DEF Full, Hands
  <2> QED
    BY <1>3, <1>4, <1>5, <2>1, <2>2 DEF Hands, Adds
<1>9. ASSUME NEW s \in 1 .. submitted' PROVE Place(s)'
  <2>1. ~ Fresh(s)'
    BY <1>4, <1>5 DEF Fresh
  <2>2. Place(s)
    BY <1>3 DEF Full
  <2>3. CASE s = spot[t]
    <3>1. s \in failed'
      BY <1>5, <2>3
    <3>2. Limbo(s)' \/ Gone(s)' \/ Held(s)'
      <4>1. CASE t = "loop" /\ where[t] = "requeue" /\ queue_size > 0
        <5>1. retry_head \in Reporter!Slots /\ Behind(retry_head) = 0
          BY BehindIs DEF Full, RingInv, Types
        <5>2. First = 0 /\ Last = queue_size /\ queue_size \in Nat
          BY <1>1, <1>4, <4>1, SpotConstants DEF First, Last, Adds, Full, RingInv, Types
        <5>3. retry_head \in Used /\ retry_queue[retry_head] = spot["loop"]
          BY <4>1, <5>1, <5>2 DEF Used, Full, Hands
        <5> QED
          BY <1>3, <1>6, <2>3, <4>1, <5>3 DEF Held
      <4> QED
        BY <1>3, <1>4, <1>5, <2>3, <4>1 DEF Limbo, Gone
    <3> QED
      BY <2>1, <3>1, <3>2 DEF Place
  <2>4. CASE s # spot[t]
    <3>1. (s \in failed' <=> s \in failed) /\ (s \in refused' <=> s \in refused)
      BY <1>5, <2>4
    <3>2. ~ Fresh(s) /\ ~ Limbo(s)
      BY <1>1, <1>3, <2>4 DEF Fresh, Limbo
    <3> QED
      BY <1>3, <1>6, <2>1, <2>2, <3>1, <3>2 DEF Place, Held, Gone, Once
  <2> QED
    BY <2>3, <2>4
<1> QED
  BY <1>7, <1>8, <1>9

\* A spot is stored in the slot behind those in use.
LEMMA StorePlaces ==
  ASSUME Full, OneThread, NEW t \in Reporter!Threads, Reporter!QueueStore(t)
  PROVE  Spotted' /\ Hands' /\ \A s \in 1 .. submitted' : Place(s)'
<1>1. \A u \in Reporter!Threads \ {t} : where[u] = "idle"
  BY Others DEF Full, Reporter!QueueStore
<1>2. /\ \/ where[t] = "queue" /\ where' = [where EXCEPT ![t] = "advance"]
         \/ where[t] = "requeue" /\ where' = [where EXCEPT ![t] = "readvance"]
      /\ queue_size < RETRY_QUEUE_MAX
      /\ retry_queue' = [retry_queue EXCEPT ![retry_tail] = spot[t]]
      /\ UNCHANGED <<retry_head, queue_size, connected, recent, spot, Reporter!wire>>
  BY DEF Reporter!QueueStore, Reporter!Goto
<1>3. /\ where \in [Reporter!Threads -> {"idle"} \cup Inside] /\ spot[t] \in 1 .. submitted
      /\ where'[t] \in {"advance", "readvance"}
      /\ where[t] = "requeue" => spot[t] \in failed
      /\ \A u \in Reporter!Threads \ {t} : where'[u] = "idle" /\ u # t
      /\ "loop" \in Reporter!Threads /\ queue_size \in Nat
      /\ retry_head \in Reporter!Slots /\ retry_tail \in Reporter!Slots
      /\ retry_queue \in [Reporter!Slots -> 0 .. submitted]
           /\ spot \in [Reporter!Threads -> 0 .. submitted]
  BY <1>1, <1>2, SpotConstants
    DEF Full, RingInv, Types, Hands, Reporter!Threads, Spotted
<1>4. where["loop"] # "queue" /\ (where[t] = "queue" => t # "loop")
  BY DEF Full, Hands
<1>5. \A i \in Reporter!Slots : /\ Behind(i)' = Behind(i) /\ Behind(i) \in Nat
                                /\ Behind(i) = queue_size <=> i = retry_tail
  <2>1. \A i \in Reporter!Slots : Behind(i)' = Behind(i) /\ Behind(i) \in Nat
    BY <1>2, <1>3, BehindIs, SpotConstants DEF Behind
  <2>2. ~ Adding
    BY <1>1, <1>2 DEF Adding
  <2>3. retry_tail = Reporter!Wrap(retry_head + queue_size)
    <3>1. queue_size + 0 = queue_size /\ retry_head + queue_size + 0 = retry_head + queue_size
      BY <1>3, SpotConstants DEF Reporter!Slots
    <3> QED
      BY <2>2, <3>1 DEF Full, RingInv, Counters
  <2>4. \A i \in Reporter!Slots : Behind(i) = queue_size
          <=> i = Reporter!Wrap(retry_head + queue_size)
    BY <1>2, <1>3, LiveIs DEF Full, RingInv, Types
  <2> QED
    BY <2>1, <2>3, <2>4
<1>6. retry_tail \notin Used /\ \A i : i \in Used' <=> i \in Used \/ i = retry_tail
  <2>1. First = 0 /\ First' = 0 /\ Last = queue_size /\ Last' = queue_size + 1
    BY <1>1, <1>2, <1>3 DEF First, Last, Adds
  <2> QED
    BY <1>3, <1>5, <2>1 DEF Used
<1>7. /\ retry_queue'[retry_tail] = spot[t]
      /\ \A i \in Used : retry_queue'[i] = retry_queue[i]
  BY <1>2, <1>3, <1>6 DEF Used
<1>8. Spotted'
  <2>1. retry_queue' \in [Reporter!Slots -> 0 .. submitted]
    BY <1>2, <1>3 DEF Reporter!Slots
  <2> QED
    BY <1>2, <1>3, <1>6, <1>7, <2>1 DEF Full, Spotted, Reporter!wire
<1>9. Hands'
  <2>1. where'["loop"] \in {"idle", "readvance"}
    BY <1>2, <1>3, <1>4
  <2>2. \A i \in Reporter!Slots : Behind(i)' = queue_size' => retry_queue'[i] = spot'[t]
    BY <1>2, <1>5, <1>7
  <2>3. where'[t] = "readvance" => spot'[t] \in failed'
    BY <1>2, <1>3 DEF Reporter!wire
  <2> QED
    BY <1>2, <1>3, <2>1, <2>2, <2>3 DEF Hands, Adds
<1>10. ASSUME NEW s \in 1 .. submitted' PROVE Place(s)'
  <2>1. ~ Fresh(s)' /\ ~ Limbo(s)'
    BY <1>3 DEF Fresh, Limbo
  <2>2. Place(s)
    BY <1>2 DEF Full, Reporter!wire
  <2>3. CASE s = spot[t]
    <3>1. Held(s)'
      BY <1>6, <1>7, <2>3 DEF Held
    <3>2. s \notin failed => Once(s)'
      <4> SUFFICES ASSUME s \notin failed PROVE Once(s)'
        OBVIOUS
      <4>1. Fresh(s)
        BY <1>2, <1>3, <1>4, <2>3 DEF Fresh
      <4>2. ~ Held(s) /\ ~ Gone(s)
        BY <2>2, <4>1 DEF Place
      <4>3. \A i \in Used' : retry_queue'[i] = s => i = retry_tail
        BY <1>6, <1>7, <4>2 DEF Held
      <4> QED
        BY <1>2, <4>2, <4>3 DEF Once, Gone, Reporter!wire
    <3> QED
      BY <1>2, <2>1, <3>1, <3>2 DEF Place, Reporter!wire
  <2>4. CASE s # spot[t]
    <3>1. ~ Fresh(s) /\ ~ Limbo(s)
      BY <1>1, <2>4 DEF Fresh, Limbo
    <3>2. Held(s)' <=> Held(s)
      BY <1>6, <1>7, <2>4 DEF Held
    <3>3. Once(s) => Once(s)'
      BY <1>2, <1>6, <1>7, <2>4, <3>2 DEF Once, Gone, Reporter!wire
    <3> QED
      BY <1>2, <2>1, <2>2, <3>1, <3>2, <3>3 DEF Place, Gone, Reporter!wire
  <2> QED
    BY <2>3, <2>4
<1> QED
  BY <1>8, <1>9, <1>10

\* The tail and the counter follow: the slots in use stay.
LEMMA AddPlaces ==
  ASSUME Full, OneThread, NEW t \in Reporter!Threads, Reporter!QueueAdvance(t)
    \/ Reporter!QueueCount(t)
  PROVE  Spotted' /\ Hands' /\ \A s \in 1 .. submitted' : Place(s)'
<1>1. \A u \in Reporter!Threads \ {t} : where[u] = "idle"
  BY Others DEF Full, Reporter!QueueAdvance, Reporter!QueueCount
<1>2. UNCHANGED <<retry_queue, retry_head, connected, recent, spot, Reporter!wire>>
  BY DEF Reporter!QueueAdvance, Reporter!QueueCount
<1>3. /\ where \in [Reporter!Threads -> {"idle"} \cup Inside] /\ "loop" \in Reporter!Threads
      /\ queue_size \in Nat /\ where[t] \in Adds
      /\ where["loop"] \notin {"advance", "count"}
  BY SpotConstants
    DEF Full, RingInv, Types, Reporter!Threads, Adds, Reporter!QueueAdvance,
        Reporter!QueueCount, Hands
<1>4. \/ /\ queue_size' = queue_size
         /\ \/ where[t] = "advance" /\ where' = [where EXCEPT ![t] = "count"]
            \/ where[t] = "readvance" /\ where' = [where EXCEPT ![t] = "recount"]
      \/ /\ queue_size' = queue_size + 1
         /\ \/ where[t] = "count" /\ where' = [where EXCEPT ![t] = "idle"]
            \/ where[t] = "recount" /\ where' = [where EXCEPT ![t] = "idle"]
  <2>1. CASE Reporter!QueueAdvance(t)
    BY <2>1 DEF Reporter!QueueAdvance, Reporter!Goto
  <2>2. CASE Reporter!QueueCount(t)
    <3>1. size_read[t] = queue_size
      BY <2>2 DEF Reporter!QueueCount, Full, RingInv, Reads
    <3> QED
      BY <1>3, <2>2, <3>1
        DEF Reporter!QueueCount, Reporter!Success, Reporter!Failure, Reporter!Goto
  <2> QED
    BY <2>1, <2>2
<1>5. /\ \A u \in Reporter!Threads \ {t} : where'[u] = "idle" /\ u # t
      /\ \/ queue_size' = queue_size /\ where'[t] = "count" /\ where[t] = "advance"
         \/ queue_size' = queue_size /\ where'[t] = "recount" /\ where[t] = "readvance"
         \/ queue_size' = queue_size + 1 /\ where'[t] = "idle" /\ where[t] \in {"count", "recount"}
  BY <1>1, <1>3, <1>4
<1>6. Used' = Used /\ \A i \in Reporter!Slots : Behind(i)' = Behind(i)
  <2>1. First = 0 /\ First' = 0 /\ Last = queue_size + 1 /\ Last' = queue_size + 1
    BY <1>1, <1>3, <1>5 DEF First, Last, Adds
  <2> QED
    BY <1>2, <2>1 DEF Used, Behind
<1>7. Spotted'
  BY <1>2, <1>6 DEF Full, Spotted, Reporter!wire
<1>8. Hands'
  <2>1. where'["loop"] \in {"idle", "recount"}
    BY <1>3, <1>5
  <2>2. where'[t] = "recount" => spot[t] \in failed
    BY <1>5 DEF Full, Hands
  <2>3. where'[t] \in Adds => \A i \in Reporter!Slots : Behind(i)' = queue_size'
          => retry_queue'[i] = spot'[t]
    BY <1>2, <1>3, <1>5, <1>6 DEF Full, Hands, Adds
  <2>4. \A u \in Reporter!Threads : where'[u] \in {"idle", "count", "recount"}
    BY <1>5
  <2> QED
    BY <1>2, <1>5, <2>1, <2>2, <2>3, <2>4 DEF Hands, Adds, Reporter!wire
<1>9. ASSUME NEW s \in 1 .. submitted' PROVE Place(s)'
  <2>1. ~ Fresh(s)' /\ ~ Limbo(s)'
    BY <1>5 DEF Fresh, Limbo
  <2>2. ~ Fresh(s) /\ ~ Limbo(s)
    BY <1>1, <1>5 DEF Fresh, Limbo
  <2>3. Place(s)
    BY <1>2 DEF Full, Reporter!wire
  <2> QED
    BY <1>2, <1>6, <2>1, <2>2, <2>3 DEF Place, Held, Gone, Once, Reporter!wire
<1> QED
  BY <1>7, <1>8, <1>9

\* A drain begins, and takes the oldest spot in hand.
LEMMA HeadPlaces ==
  ASSUME Full, OneThread, Reporter!RetryStart \/ Reporter!RetryHead
  PROVE  Spotted' /\ Hands' /\ \A s \in 1 .. submitted' : Place(s)'
<1>1. "loop" \in Reporter!Threads /\ \A u \in Reporter!Threads \ {"loop"} : where[u] = "idle"
  BY Others DEF Full, Reporter!RetryStart, Reporter!RetryHead, Reporter!Threads
<1>2. /\ \/ where["loop"] = "idle" /\ where' = [where EXCEPT !["loop"] = "head"] /\ spot' = spot
         \/ /\ where["loop"] = "head" /\ where' = [where EXCEPT !["loop"] = "send"]
            /\ spot' = [spot EXCEPT !["loop"] = retry_queue[retry_head]]
      /\ connected' = TRUE /\ recent' \in BOOLEAN
      /\ queue_size > 0
      /\ UNCHANGED <<retry_queue, retry_head, queue_size, Reporter!wire>>
  BY <1>1
    DEF Reporter!RetryStart, Reporter!RetryHead, Reporter!Idle, Reporter!Goto,
        Reporter!SubmitEntry, Reporter!ring, Full, Hands, Spotted, RingInv, Reads
<1>3. /\ where \in [Reporter!Threads -> {"idle"} \cup Inside]
           /\ spot \in [Reporter!Threads -> 0 .. submitted]
      /\ retry_head \in Reporter!Slots /\ queue_size \in Nat
      /\ retry_queue \in [Reporter!Slots -> 0 .. submitted]
  BY SpotConstants DEF Full, RingInv, Types, Spotted
<1>4. /\ \A u \in Reporter!Threads \ {"loop"} : where'[u] = "idle" /\ spot'[u] = spot[u]
      /\ \/ where'["loop"] = "head"
         \/ where'["loop"] = "send" /\ spot'["loop"] = retry_queue[retry_head]
  BY <1>1, <1>2, <1>3
<1>5. Used' = Used /\ \A i \in Reporter!Slots : Behind(i)' = Behind(i)
  <2>1. First = 0 /\ First' = 0 /\ Last = queue_size + 0 /\ Last' = queue_size + 0
    BY <1>1, <1>2, <1>4 DEF First, Last, Adds
  <2> QED
    BY <1>2, <2>1 DEF Used, Behind
<1>6. retry_head \in Used /\ \A i \in Reporter!Slots : Behind(i) = 0 <=> i = retry_head
  <2>1. First = 0 /\ Last = queue_size /\ Behind(retry_head) = 0
    BY <1>1, <1>2, <1>3, BehindIs DEF First, Last, Adds
  <2>2. retry_head \in Used
    BY <1>2, <1>3, <2>1 DEF Used
  <2> QED
    BY <1>3, <2>2, BehindIs
<1>7. retry_queue[retry_head] \in 1 .. submitted
  BY <1>6 DEF Full, Spotted
<1>8. Spotted'
  <2>1. spot' \in [Reporter!Threads -> 0 .. submitted]
    BY <1>1, <1>2, <1>3
  <2> QED
    BY <1>2, <1>5, <2>1 DEF Full, Spotted, Reporter!wire
<1>9. Hands'
  <2>1. \A i \in Reporter!Slots : Behind(i)' = 0 => retry_queue'[i] = retry_queue[retry_head]
    BY <1>2, <1>5, <1>6
  <2> QED
    BY <1>2, <1>4, <1>7, <2>1 DEF Hands, Adds, Reporter!wire
<1>10. ASSUME NEW s \in 1 .. submitted' PROVE Place(s)'
  <2>1. ~ Fresh(s)' /\ ~ Limbo(s)'
    BY <1>4 DEF Fresh, Limbo
  <2>2. ~ Fresh(s) /\ ~ Limbo(s)
    BY <1>1, <1>2 DEF Fresh, Limbo
  <2>3. Place(s)
    BY <1>2 DEF Full, Reporter!wire
  <2> QED
    BY <1>2, <1>5, <2>1, <2>2, <2>3 DEF Place, Held, Gone, Once, Reporter!wire
<1> QED
  BY <1>8, <1>9, <1>10

\* The head moves on: the slot of the spot just sent was not in use any more.
LEMMA PopPlaces ==
  ASSUME Full, OneThread, Reporter!RetryPop
  PROVE  Spotted' /\ Hands' /\ \A s \in 1 .. submitted' : Place(s)'
<1>1. /\ "loop" \in Reporter!Threads /\ where["loop"] = "pop"
           /\ \A u \in Reporter!Threads \ {"loop"} : where[u] = "idle"
      /\ retry_head' = Reporter!Wrap(retry_head + 1)
      /\ UNCHANGED <<retry_queue, connected, recent, spot, Reporter!wire>>
  BY Others DEF Full, Reporter!RetryPop, Reporter!Threads
<1>2. size_read["loop"] = queue_size /\ queue_size > 0 /\ connected
  BY <1>1 DEF Full, RingInv, Reads, Hands
<1>3. queue_size' = queue_size - 1 /\
      \E l \in {"head", "idle"} : where' = [where EXCEPT !["loop"] = l]
  BY <1>2 DEF Reporter!RetryPop, Reporter!Goto
<1>4. /\ where'["loop"] \in {"head", "idle"} /\ \A u \in Reporter!Threads \ {"loop"} : where'[u] = "idle"
      /\ retry_head \in Reporter!Slots /\ queue_size \in 1 .. RETRY_QUEUE_MAX
  BY <1>1, <1>2, <1>3, SpotConstants DEF Full, RingInv, Types
<1>5. Used' = Used
  <2> DEFINE a == retry_head + 1
             h == Reporter!Wrap(a)
  <2>1. a \in 0 .. 2 * RETRY_QUEUE_MAX - 1 /\ a = retry_head + 1
    BY <1>4, SpotConstants DEF Reporter!Slots
  <2> HIDE DEF a
  <2>2. h \in Reporter!Slots /\ h = IF a < RETRY_QUEUE_MAX THEN a ELSE a - RETRY_QUEUE_MAX
    BY <2>1, WrapOnce
  <2>3. retry_head' = h
    BY <1>1 DEF a
  <2> HIDE DEF h
  <2>4. First = 1 /\ First' = 0 /\ Last = queue_size /\ Last' = queue_size - 1
    BY <1>1, <1>3, <1>4 DEF First, Last, Adds
  <2>5. \A i \in Reporter!Slots : Behind(i) \in 1 .. queue_size - 1
          <=> Behind(i)' \in 0 .. queue_size - 2
    BY <1>4, <2>1, <2>2, <2>3, SpotConstants DEF Reporter!Slots, Behind
  <2>6. \A i \in Reporter!Slots : Behind(i) \in Int /\ Behind(i)' \in Int
    BY <1>4, <2>2, <2>3, SpotConstants DEF Reporter!Slots, Behind
  <2>7. \A i \in Reporter!Slots : i \in Used <=> Behind(i) \in 1 .. queue_size - 1
    BY <1>4, <2>4, <2>6 DEF Used
  <2>8. \A i \in Reporter!Slots : i \in Used' <=> Behind(i)' \in 0 .. queue_size - 2
    BY <1>4, <2>4, <2>6 DEF Used
  <2>9. Used \subseteq Reporter!Slots /\ Used' \subseteq Reporter!Slots
    BY DEF Used
  <2> QED
    BY <2>5, <2>7, <2>8, <2>9
<1>6. Spotted'
  BY <1>1, <1>5 DEF Full, Spotted, Reporter!wire
<1>7. Hands'
  BY <1>1, <1>2, <1>4 DEF Hands, Adds
<1>8. ASSUME NEW s \in 1 .. submitted' PROVE Place(s)'
  <2>1. ~ Fresh(s)' /\ ~ Limbo(s)' /\ ~ Fresh(s) /\ ~ Limbo(s)
    BY <1>1, <1>4 DEF Fresh, Limbo
  <2>2. Place(s)
    BY <1>1 DEF Full, Reporter!wire
  <2> QED
    BY <1>1, <1>5, <2>1, <2>2 DEF Place, Held, Gone, Once, Reporter!wire
<1> QED
  BY <1>6, <1>7, <1>8

-----------------------------------------------------------------------------
LEMMA FullInductive == OneThread => (Reporter!Spec => []Full)
<1> SUFFICES ASSUME OneThread PROVE Reporter!Spec => []Full
  OBVIOUS
<1>1. Reporter!Init => Full
  <2> SUFFICES ASSUME Reporter!Init PROVE Full
    OBVIOUS
  <2>1. RingInv
    BY RingInvInit
  <2>2. Used = {}
    <3>1. queue_size = 0 /\ retry_head \in Reporter!Slots /\ Last = 0
      BY <2>1 DEF Reporter!Init, Last, Adds, RingInv, Types
    <3>2. \A i \in Reporter!Slots : Behind(i) \in Nat
      BY <3>1, BehindIs, SpotConstants
    <3> QED
      BY <3>1, <3>2 DEF Used
  <2>3. Spotted
    <3>1. 0 \in 0 .. MaxSpots /\ submitted = 0 /\ 0 \in 0 .. submitted
      BY SpotConstants DEF Reporter!Init
    <3>2. retry_queue \in [Reporter!Slots -> 0 .. submitted]
            /\ spot \in [Reporter!Threads -> 0 .. submitted]
      BY <3>1 DEF Reporter!Init
    <3>3. UNION {taken, again, failed, refused} \subseteq 1 .. submitted
      BY DEF Reporter!Init
    <3> QED
      BY <2>2, <3>1, <3>2, <3>3 DEF Reporter!Init, Spotted
  <2>4. Hands
    <3>1. \A t \in Reporter!Threads : where[t] = "idle"
      BY DEF Reporter!Init
    <3>2. where["loop"] = "idle"
      BY <3>1 DEF Reporter!Threads
    <3> QED
      BY <3>1, <3>2 DEF Hands, Adds
  <2>5. 1 .. submitted = {}
    BY DEF Reporter!Init
  <2> QED
    BY <2>1, <2>3, <2>4, <2>5 DEF Full
<1>2. Full /\ [Reporter!Next]_(Reporter!vars) => Full'
  <2> SUFFICES ASSUME Full, [Reporter!Next]_(Reporter!vars) PROVE Full'
    OBVIOUS
  <2>1. RingInv'
    BY RingInvStep DEF Full
  <2>2. Spotted' /\ Hands' /\ \A s \in 1 .. submitted' : Place(s)'
    <3>1. CASE Reporter!RetryStart \/ Reporter!RetryHead
      BY <3>1, HeadPlaces
    <3>2. CASE Reporter!RetryPop
      BY <3>2, PopPlaces
    <3>3. CASE Reporter!ConnectFails \/ Reporter!TimePasses \/ UNCHANGED Reporter!vars
      <4>1. /\ UNCHANGED <<retry_queue, retry_head, queue_size, where, spot, Reporter!wire>>
            /\ connected' = connected
        BY <3>3
          DEF Reporter!ConnectFails, Reporter!TimePasses, Reporter!vars, Reporter!ring,
              Reporter!thread
      <4>2. connected \in BOOLEAN /\ recent' \in BOOLEAN
        BY <3>3
          DEF Full, Spotted, Reporter!ConnectFails, Reporter!TimePasses, Reporter!vars
      <4> QED
        BY <4>1, <4>2, Resting
    <3>4. ASSUME NEW t \in Reporter!Threads, Reporter!Submission(t)
          PROVE  Spotted' /\ Hands' /\ \A s \in 1 .. submitted' : Place(s)'
      <4>1. CASE Reporter!Submit(t)
        BY <4>1, SubmitPlaces
      <4>2. CASE Reporter!SendOk(t) \/ Reporter!SendAgain(t)
        BY <4>2, FatePlaces, DrainPlaces
      <4>3. CASE Reporter!SendFail(t)
        BY <4>3, FailPlaces
      <4>4. CASE Reporter!QueueFull(t)
        <5>1. where[t] \in {"queue", "requeue"} /\ where["loop"] # "queue"
          BY <4>4 DEF Reporter!QueueFull, Full, Hands
        <5>2. CASE where[t] = "queue"
          BY <4>4, <5>1, <5>2, FatePlaces
        <5>3. CASE where[t] = "requeue"
          BY <4>4, <5>3, FailPlaces
        <5> QED
          BY <5>1, <5>2, <5>3
      <4>5. CASE Reporter!QueueStore(t)
        BY <4>5, StorePlaces
      <4>6. CASE Reporter!QueueAdvance(t) \/ Reporter!QueueCount(t)
        BY <4>6, AddPlaces
      <4> QED
        BY <3>4, <4>1, <4>2, <4>3, <4>4, <4>5, <4>6 DEF Reporter!Submission
    <3> QED
      BY <3>1, <3>2, <3>3, <3>4 DEF Reporter!Next, Reporter!Retries
  <2> QED
    BY <2>1, <2>2 DEF Full
<1> QED
  BY <1>1, <1>2, PTL DEF Reporter!Spec

\* Used from one thread, the reporter loses no spot: between two calls each one
\* submitted is in the ring, sent, swallowed by EAGAIN or refused, and one whose
\* send never failed is there once; and the ring's counters agree.
THEOREM NoSpotLost == OneThread => (Reporter!Spec => []SpotsAccounted)
<1> SUFFICES ASSUME OneThread PROVE Reporter!Spec => []SpotsAccounted
  OBVIOUS
<1>1. Full => SpotsAccounted
  <2> SUFFICES ASSUME Full PROVE SpotsAccounted
    OBVIOUS
  <2>1. Reporter!TypeOK
    <3>1. 0 .. submitted \subseteq 0 .. MaxSpots
      BY SpotConstants DEF Full, Spotted
    <3>2. retry_queue \in [Reporter!Slots -> 0 .. MaxSpots]
      BY <3>1 DEF Full, Spotted
    <3> QED
      BY <3>2 DEF Full, RingInv, Types, Spotted, Inside, Reporter!TypeOK
  <2>2. Reporter!RingConsistent
    BY RingInvConsistent DEF Full
  <2>3. Reporter!EverySpotAccounted
    <3> SUFFICES ASSUME Reporter!AllIdle, NEW s \in 1 .. submitted
                 PROVE  /\ Reporter!Copies(s) # {} \/ Gone(s)
                        /\ s \notin failed =>
                              /\ \A i, j \in Reporter!Copies(s) : i = j
                              /\ Reporter!Copies(s) # {} => ~ Gone(s)
                              /\ s \notin (taken \cap again) \cup (taken \cap refused)
                                          \cup (again \cap refused)
      BY DEF Reporter!EverySpotAccounted, Gone
    <3>1. Used = Reporter!Live
      <4>1. First = 0 /\ Last = queue_size
        BY SpotConstants
          DEF Reporter!AllIdle, First, Last, Adds, Reporter!Threads, Full, RingInv,
              Types
      <4>2. retry_head \in Reporter!Slots /\ queue_size \in 0 .. RETRY_QUEUE_MAX
        BY DEF Full, RingInv, Types
      <4>3. \A i \in Reporter!Slots : 0 <= Behind(i)
        BY <4>2, BehindIs, SpotConstants
      <4>4. Reporter!Live = {i \in Reporter!Slots : Behind(i) < queue_size}
        BY <4>2, LiveIs
      <4> QED
        BY <4>1, <4>3, <4>4 DEF Used
    <3>2. ~ Fresh(s) /\ ~ Limbo(s)
      BY DEF Reporter!AllIdle, Fresh, Limbo
    <3>3. Held(s) <=> Reporter!Copies(s) # {}
      BY <3>1 DEF Held, Reporter!Copies
    <3>4. Place(s)
      BY DEF Full
    <3>5. s \notin failed => \A i, j \in Reporter!Copies(s) : i = j
      BY <3>1, <3>4 DEF Place, Once, Reporter!Copies
    <3> QED
      BY <3>2, <3>3, <3>4, <3>5 DEF Place, Once
  <2> QED
    BY <2>1, <2>2, <2>3 DEF SpotsAccounted, Reporter!SpotsAccounted
<1> QED
  BY <1>1, FullInductive, PTL
===============================================================================
