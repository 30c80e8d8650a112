------------------------------ MODULE TciProofs -------------------------------
(***************************************************************************)
(* The TCI client for frames, buffers and rings of any length and any      *)
(* number of frames and switches: what is on its way is cut at frames, the *)
(* ring is a queue that drops its oldest sample, samples keep their order  *)
(* from the wire to the detection loop, a training file is handed on as a  *)
(* whole, and the radio sends the one stream that was chosen.              *)
(***************************************************************************)
EXTENDS TciClient, SequenceTheorems, TLAPS

Steps == {"start", "open", "subscribe", "service", "parse", "read", "frames",
          "push", "take", "taken", "end", "cleanup", "done"}

\* What the radio sends follows from how far the session and the switch are.
Session ==
    /\ dpc \in Steps
    /\ gpc \in {"idle", "stop", "head", "count", "subscribe", "fault"}
    /\ transport \in {"tcp", "ws", "training"}
    /\ radio \subseteq Modes /\ pref \in Modes
    /\ dpc \in {"start", "open", "subscribe"} => radio = {} /\ gpc = "idle"
    /\ dpc \in {"start", "open", "done"} => ~connected
    /\ connected \/ dpc \notin {"start", "done"} => client
    /\ gpc = "fault" => ~client
    /\ connected /\ transport # "training"
          => CASE dpc \in {"subscribe", "done"} \/ gpc = "stop" -> TRUE
               [] dpc # "subscribe" /\ gpc = "idle" -> radio = {pref}
               [] OTHER -> radio = {}
    /\ gpc # "idle" => switches > 0
    /\ switches \in 0 .. MaxSwitches

\* A value a sample may have, and a unit on its way.
Values == 0 .. MaxFrames * FrameLen
Unit   == {Hdr(m) : m \in Modes} \cup {Smp(n) : n \in Values}
          \cup {Txt(n) : n \in 0 .. 1} \cup {Semi}

Types ==
    /\ net \in Seq(Unit) /\ stream \in Seq(Unit) /\ staged \in Seq(Unit)
    /\ todo \in Seq(Values) /\ out \in Seq(Values)
    /\ ring \in [0 .. RingSize - 1 -> Values] /\ head \in 0 .. RingSize - 1
    /\ frames \in 0 .. MaxFrames /\ texts \in 0 .. 1 /\ chunks \in 0 .. MaxChunks
    /\ {peer, client, connected, socket, wctx, tctx, eof, audio_only, running}
           \subseteq BOOLEAN
    /\ transport = "ws" => Len(staged) <= StageMax /\ stream = << >>
    /\ got \in {0, 1}

\* A switch that clears the ring between the halves of tci_get_iq_samples may
\* leave a negative count, and a negative chunk is taken back.
Counts ==
    /\ count \in Int /\ -Need <= count /\ -RingSize <= count /\ count <= RingSize
    /\ need \in Int /\ -Need <= need /\ -RingSize <= need /\ need <= Need /\ need <= RingSize
    /\ avail \in Int /\ avail <= RingSize
    /\ dpc # "taken" => need = 0
    /\ dpc = "taken" => need <= count \/ count = 0
    /\ dpc = "taken" /\ need < 0 => count <= 0
    /\ switches = 0 => 0 <= count /\ 0 <= need /\ need <= count
    /\ dpc # "push" => todo = << >>
    /\ dpc = "taken" => chunks < MaxChunks

\* What has arrived and was not taken: every header is followed by its samples,
\* and by all of them unless a file was cut, a text by its end, and samples are
\* numbered upwards.
Arriving == staged \o stream \o net

Framed(w) ==
    /\ \A i \in 1 .. Len(w), j \in 1 .. FrameLen :
          w[i].k = "hdr" /\ i + j <= Len(w) => w[i + j].k = "smp"
    /\ \A i \in 1 .. Len(w) :
          w[i].k = "txt" => i + 1 <= Len(w) /\ w[i + 1].k = "end"
Whole(w) == \A i \in 1 .. Len(w) : w[i].k = "hdr" => i + FrameLen <= Len(w)
NoText(w) == \A i \in 1 .. Len(w) : w[i].k # "txt"
Upwards(w) ==
    \A i, j \in 1 .. Len(w) :
        i < j /\ w[i].k = "smp" /\ w[j].k = "smp" => w[i].v < w[j].v
AtMost(n, w) == \A i \in 1 .. Len(w) : w[i].k = "smp" => w[i].v <= n

Wire == /\ Framed(Arriving) /\ Upwards(Arriving)
        /\ transport # "training" => /\ Whole(Arriving)
                                     /\ AtMost(frames * FrameLen, Arriving)
        /\ transport = "training" => NoText(Arriving)
        /\ dpc \in {"start", "open"} => Arriving = << >> /\ frames = 0

\* What was taken, from the first sample handed on to the last one to be put
\* into the ring.
rest  == [i \in 1 .. count - need |-> ring[(tail + need + i - 1) % RingSize]]
Taken == out \o rest \o todo

Rising(s) == \A i, j \in 1 .. Len(s) : i < j /\ s[i] > 0 /\ s[j] > 0 => s[i] < s[j]
Below(s, w) == \A i \in 1 .. Len(s), j \in 1 .. Len(w) :
                   s[i] > 0 /\ w[j].k = "smp" => s[i] < w[j].v

UpTo(n, s) == \A i \in 1 .. Len(s) : s[i] <= n

Flow == switches = 0 =>
    /\ Rising(Taken) /\ Below(Taken, Arriving)
    /\ transport # "training" => UpTo(frames * FrameLen, Taken)
    /\ dpc \in {"start", "open"} => Taken = << >>

\* The c items last put before slot h, oldest first.
QueueOf(r, h, c) ==
    [i \in 1 .. c |-> r[(((h - c + RingSize) % RingSize) + i - 1) % RingSize]]

\* v has what holds of w.
Keeps(w, v) == /\ Framed(v) /\ Upwards(v)
               /\ Whole(w) => Whole(v)
               /\ NoText(w) => NoText(v)
               /\ \A n : AtMost(n, w) => AtMost(n, v)
               /\ \A s : Below(s, w) => Below(s, v)

\* Units of a file from its frame n + 1 on.
FromFrame(n, w) ==
    \A a \in Nat, j \in 0 .. FrameLen :
        a * (FrameLen + 1) + j + 1 <= Len(w) =>
            w[a * (FrameLen + 1) + j + 1] =
                IF j = 0 THEN Hdr("iq") ELSE Smp((n + a) * FrameLen + j)

\* A training file of which n frames were taken, while the stream is not
\* switched: where its units are, and what the ring has to hold of them.
Numbers(k) == [i \in 1 .. k |-> i]

InFile(n) ==
    /\ Taken = Numbers(n * FrameLen)
    /\ FromFrame(n, Arriving)
    /\ frames * (FrameLen + 1) <= n * (FrameLen + 1) + Len(Arriving)
    /\ n * (FrameLen + 1) + Len(Arriving) < (frames + 1) * (FrameLen + 1)

InFrames(l) == \E c \in Nat : l = c * (FrameLen + 1)

Places ==
    /\ InFrames(Len(staged))
    /\ dpc # "parse" => Len(stream) <= FrameLen
    /\ dpc \notin {"parse", "read", "frames", "push"} => staged = << >>
    /\ dpc = "frames" => staged # << >> \/ got = 1
    /\ dpc = "push" => todo # << >> \/ got = 1
    /\ dpc \notin {"frames", "push"} => got = 0
    /\ eof => net = << >> /\ stream = << >>

Fits == dpc \in {"parse", "read", "frames", "push"} =>
            \A a \in Nat : a * (FrameLen + 1) <= Len(staged) + Len(stream)
                              => count + Len(todo) + a * FrameLen <= RingSize

Fresh == dpc \in {"start", "open"} => got = 0 /\ ~eof

File ==
    transport = "training" /\ switches = 0 /\ dpc \notin {"start", "open", "done"}
       => \/ connected /\ Places /\ Fits /\ \E n \in Nat : InFile(n)
          \/ ~connected /\ dpc = "cleanup" /\ ~eof

-------------------------------------------------------------------------------
\* The session and the stream the radio sends.
LEMMA SessionStep == ASSUME Session, [Next]_vars PROVE Session'
<1> USE DEF Session, Steps, Det, wire, conn, buffers, rings, loop, loopRest, gui, Modes
<1>1. CASE Probe
  BY <1>1, TciAssumption DEF Probe
<1>2. CASE TcpConnect \/ WsConnect \/ OpenTraining
  BY <1>2 DEF TcpConnect, WsConnect, OpenTraining
<1>3. CASE StartStream
  BY <1>3 DEF StartStream, Subscribe
<1>4. CASE \/ TcpReceive \/ TrainingRead \/ TrainingEof \/ ServiceReturns \/ WsReceive
           \/ ParseText \/ ParseFrame \/ ParseStops
  <2>1. /\ UNCHANGED <<radio, connected, client, transport, pref, gpc, switches>>
        /\ dpc' = dpc \/ (dpc \in {"service", "parse"} /\ dpc' \in {"parse", "read"})
    BY <1>4 DEF TcpReceive, TrainingRead, TrainingEof, ServiceReturns, WsReceive, ParseText,
                ParseFrame, ParseStops
  <2> QED
    BY <2>1
<1>5. CASE TcpClosed \/ WsClosed
  BY <1>5 DEF TcpClosed, WsClosed
<1>6. CASE \/ Read \/ TakeFrame \/ TakeRaw \/ FramesDone \/ Push \/ PushDone
           \/ Get \/ GetRelease \/ TakeDone \/ LoopEnd
  BY <1>6 DEF Read, TakeFrame, TakeRaw, FramesDone, Push, PushDone, Get, GetRelease,
              TakeDone, LoopEnd
<1>7. CASE Destroy
  BY <1>7 DEF Destroy
<1>8. CASE Stop \/ Radio
  BY <1>8 DEF Stop, Radio, RadioFrame, RadioText, RadioClose
<1>9. CASE SwitchMode
  BY <1>9, TciAssumption DEF SwitchMode, LockFree
<1>10. CASE SwitchStop
  BY <1>10 DEF SwitchStop
<1>11. CASE SwitchHead \/ SwitchCount
  BY <1>11 DEF SwitchHead, SwitchCount
<1>12. CASE SwitchSubscribe
  BY <1>12 DEF SwitchSubscribe, Subscribe
<1>13. CASE SwitchFreed
  BY <1>13 DEF SwitchFreed
<1>14. CASE UNCHANGED vars
  BY <1>14 DEF vars
<1> QED
  BY <1>1, <1>2, <1>3, <1>4, <1>5, <1>6, <1>7, <1>8, <1>9, <1>10, <1>11, <1>12, <1>13, <1>14
     DEF Next, Detection, Gui

\* tci_subscribe_iq_stream, tci_resubscribe_stream: a connected session whose
\* switch is over receives the one stream that was chosen, although the choice
\* may fall into the start or a send may fail.
THEOREM ChosenStream == Spec => []OneStream
<1>1. Init => Session
  BY TciAssumption DEF Init, Session, Steps, Modes
<1>2. Session => OneStream
  BY DEF Session, OneStream, Live
<1> QED
  BY <1>1, <1>2, SessionStep, PTL DEF Spec
-------------------------------------------------------------------------------
\* Units and sequences of them.
LEMMA UnitFacts ==
  /\ \A m \in Modes : Hdr(m) \in Unit /\ Hdr(m).k = "hdr" /\ Hdr(m).v = m
  /\ \A n \in Values : Smp(n) \in Unit /\ Smp(n).k = "smp" /\ Smp(n).v = n
  /\ \A n \in 0 .. 1 : Txt(n) \in Unit /\ Txt(n).k = "txt" /\ Txt(n).v = n
  /\ Semi \in Unit /\ Semi.k = "end"
  /\ \A u \in Unit : u.k = "smp" => u.v \in Values
  /\ \A u \in Unit : u.k = "hdr" => u.v \in Modes
  /\ \A u \in Unit : u.k = "txt" => u.v \in 0 .. 1
<1>1. /\ \A m \in Modes : Hdr(m) \in Unit /\ Hdr(m).k = "hdr" /\ Hdr(m).v = m
      /\ \A n \in Values : Smp(n) \in Unit /\ Smp(n).k = "smp" /\ Smp(n).v = n
  BY DEF Unit, Hdr, Smp
<1>2. /\ \A n \in 0 .. 1 : Txt(n) \in Unit /\ Txt(n).k = "txt" /\ Txt(n).v = n
      /\ Semi \in Unit /\ Semi.k = "end"
  BY DEF Unit, Txt, Semi
<1>3. \A u \in Unit : \/ u.k = "hdr" /\ u.v \in Modes
                      \/ u.k = "smp" /\ u.v \in Values
                      \/ u.k = "txt" /\ u.v \in 0 .. 1
                      \/ u.k = "end"
  BY DEF Unit, Hdr, Smp, Txt, Semi
<1> QED
  BY <1>1, <1>2, <1>3

LEMMA ValuesNat == Values \subseteq Nat /\ MaxFrames * FrameLen \in Nat /\ 0 \in Values
  BY TciAssumption DEF Values

\* Two sequences joined.
LEMMA Joined ==
  ASSUME NEW S, NEW a \in Seq(S), NEW b \in Seq(S)
  PROVE  /\ Len(a) \in Nat /\ Len(b) \in Nat
         /\ a \o b \in Seq(S) /\ Len(a \o b) = Len(a) + Len(b)
         /\ \A i \in 1 .. Len(a) : i \in 1 .. Len(a \o b) /\ (a \o b)[i] = a[i]
         /\ \A i \in 1 .. Len(b) :
               Len(a) + i \in 1 .. Len(a \o b) /\ (a \o b)[Len(a) + i] = b[i]
         /\ \A i \in 1 .. Len(a \o b) :
               (a \o b)[i] = IF i <= Len(a) THEN a[i] ELSE b[i - Len(a)]
<1> DEFINE w == a \o b
<1>1. /\ Len(a) \in Nat /\ Len(b) \in Nat
      /\ w \in Seq(S) /\ Len(w) = Len(a) + Len(b)
      /\ \A i \in 1 .. Len(a) + Len(b) :
            w[i] = IF i <= Len(a) THEN a[i] ELSE b[i - Len(a)]
  BY ConcatProperties
<1> HIDE DEF w
<1>2. \A i \in 1 .. Len(a) : i \in 1 .. Len(w) /\ w[i] = a[i]
  BY <1>1
<1>3. ASSUME NEW i \in 1 .. Len(b)
      PROVE  Len(a) + i \in 1 .. Len(w) /\ w[Len(a) + i] = b[i]
  <2>1. /\ Len(a) + i \in 1 .. Len(a) + Len(b)
        /\ ~ (Len(a) + i <= Len(a)) /\ (Len(a) + i) - Len(a) = i
    BY <1>1
  <2> QED
    BY <1>1, <2>1
<1> QED
  BY <1>1, <1>2, <1>3 DEF w

\* Three sequences joined.
LEMMA JoinedThree ==
  ASSUME NEW S, NEW a \in Seq(S), NEW p \in Seq(S), NEW b \in Seq(S)
  PROVE  /\ Len(a) \in Nat /\ Len(p) \in Nat /\ Len(b) \in Nat
         /\ Len(a \o (p \o b)) = Len(a) + Len(p) + Len(b)
         /\ \A i \in 1 .. Len(a) : (a \o (p \o b))[i] = a[i]
         /\ \A i \in 1 .. Len(p) : (a \o (p \o b))[Len(a) + i] = p[i]
         /\ \A i \in 1 .. Len(b) : (a \o (p \o b))[Len(a) + Len(p) + i] = b[i]
<1> DEFINE q == p \o b
           w == a \o q
<1>1. /\ Len(p) \in Nat /\ Len(b) \in Nat /\ q \in Seq(S) /\ Len(q) = Len(p) + Len(b)
      /\ \A i \in 1 .. Len(p) : i \in 1 .. Len(q) /\ q[i] = p[i]
      /\ \A i \in 1 .. Len(b) : Len(p) + i \in 1 .. Len(q) /\ q[Len(p) + i] = b[i]
  BY Joined
<1> HIDE DEF q
<1>2. /\ Len(a) \in Nat /\ Len(w) = Len(a) + Len(q)
      /\ \A i \in 1 .. Len(a) : w[i] = a[i]
      /\ \A i \in 1 .. Len(q) : w[Len(a) + i] = q[i]
  BY <1>1, Joined
<1> HIDE DEF w
<1>3. \A i \in 1 .. Len(b) : Len(a) + Len(p) + i = Len(a) + (Len(p) + i)
  BY <1>1, <1>2
<1> QED
  BY <1>1, <1>2, <1>3 DEF w, q

\* A sequence and its two pieces.
LEMMA Cut ==
  ASSUME NEW S, NEW s \in Seq(S), NEW n \in 0 .. Len(s)
  PROVE  /\ SubSeq(s, 1, n) \in Seq(S) /\ Len(SubSeq(s, 1, n)) = n
         /\ SubSeq(s, n + 1, Len(s)) \in Seq(S)
         /\ Len(SubSeq(s, n + 1, Len(s))) = Len(s) - n
         /\ \A i \in 1 .. n : SubSeq(s, 1, n)[i] = s[i]
         /\ \A i \in 1 .. Len(s) - n : SubSeq(s, n + 1, Len(s))[i] = s[n + i]
         /\ SubSeq(s, 1, n) \o SubSeq(s, n + 1, Len(s)) = s
<1>1. Len(s) \in Nat /\ n \in Int /\ 1 \in Int /\ n + 1 \in Int /\ Len(s) \in Int
  OBVIOUS
<1>2. \A i \in 1 .. Len(s) : s[i] \in S
  OBVIOUS
<1>3. /\ SubSeq(s, 1, n) \in Seq(S)
      /\ Len(SubSeq(s, 1, n)) = IF 1 <= n THEN n - 1 + 1 ELSE 0
      /\ \A i \in 1 .. n - 1 + 1 : SubSeq(s, 1, n)[i] = s[1 + i - 1]
  <2>1. \A i \in 1 .. n : s[i] \in S
    BY <1>1, <1>2
  <2> QED
    BY <1>1, <2>1, SubSeqProperties
<1>4. /\ SubSeq(s, n + 1, Len(s)) \in Seq(S)
      /\ Len(SubSeq(s, n + 1, Len(s))) = IF n + 1 <= Len(s) THEN Len(s) - (n + 1) + 1 ELSE 0
      /\ \A i \in 1 .. Len(s) - (n + 1) + 1 : SubSeq(s, n + 1, Len(s))[i] = s[n + 1 + i - 1]
  <2> DEFINE m == n + 1
  <2>1. m \in Int /\ \A i \in m .. Len(s) : s[i] \in S
    BY <1>1, <1>2
  <2> HIDE DEF m
  <2>2. /\ SubSeq(s, m, Len(s)) \in Seq(S)
        /\ Len(SubSeq(s, m, Len(s))) = IF m <= Len(s) THEN Len(s) - m + 1 ELSE 0
        /\ \A i \in 1 .. Len(s) - m + 1 : SubSeq(s, m, Len(s))[i] = s[m + i - 1]
    BY <1>1, <2>1, SubSeqProperties
  <2> QED
    BY <2>2 DEF m
<1>5. SubSeq(s, 1, n) \o SubSeq(s, n + 1, Len(s)) = s
  <2>1. 1 \in 1 .. Len(s) + 1 /\ n \in 1 - 1 .. Len(s) /\ Len(s) \in n .. Len(s)
    BY <1>1
  <2>2. SubSeq(s, 1, n) \o SubSeq(s, n + 1, Len(s)) = SubSeq(s, 1, Len(s))
    BY <2>1, ConcatAdjacentSubSeq
  <2> QED
    BY <2>2, SubSeqFull
<1>6. \A i \in 1 .. n : SubSeq(s, 1, n)[i] = s[i]
  BY <1>1, <1>3
<1>7. \A i \in 1 .. Len(s) - n : SubSeq(s, n + 1, Len(s))[i] = s[n + i]
  BY <1>1, <1>4
<1>8. Len(SubSeq(s, 1, n)) = n
  BY <1>1, <1>3
<1>9. Len(SubSeq(s, n + 1, Len(s))) = Len(s) - n
  BY <1>1, <1>4
<1> QED
  BY <1>3, <1>4, <1>5, <1>6, <1>7, <1>8, <1>9

\* What is left when the first units are taken.
LEMMA LaterUnits ==
  ASSUME NEW a \in Seq(Unit), NEW b \in Seq(Unit)
  PROVE  /\ Framed(a \o b) => Framed(b)
         /\ Upwards(a \o b) => Upwards(b)
         /\ Whole(a \o b) => Whole(b)
         /\ \A n : AtMost(n, a \o b) => AtMost(n, b)
         /\ \A s : Below(s, a \o b) => Below(s, b)
<1> DEFINE w == a \o b
           n == Len(a)
<1>1. /\ n \in Nat /\ Len(b) \in Nat /\ Len(w) = n + Len(b)
      /\ \A i \in 1 .. Len(b) : n + i \in 1 .. Len(w) /\ w[n + i] = b[i]
  BY ConcatProperties
<1> HIDE DEF w, n
<1>2. Framed(w) => Framed(b)
  <2> SUFFICES ASSUME Framed(w) PROVE Framed(b)
    OBVIOUS
  <2>1. ASSUME NEW i \in 1 .. Len(b), NEW j \in 1 .. FrameLen, b[i].k = "hdr", i + j <= Len(b)
        PROVE  b[i + j].k = "smp"
    <3>1. i + j \in 1 .. Len(b) /\ n + (i + j) = (n + i) + j /\ (n + i) + j <= Len(w)
      BY <1>1, <2>1, TciAssumption
    <3>2. w[(n + i) + j].k = "smp"
      <4>1. n + i \in 1 .. Len(w) /\ w[n + i].k = "hdr"
        BY <1>1, <2>1
      <4> DEFINE p == n + i
      <4> HIDE DEF p
      <4>2. w[p + j].k = "smp"
        BY <3>1, <4>1 DEF Framed, p
      <4> QED
        BY <4>2 DEF p
    <3> QED
      BY <1>1, <3>1, <3>2
  <2>2. ASSUME NEW i \in 1 .. Len(b), b[i].k = "txt"
        PROVE  i + 1 <= Len(b) /\ b[i + 1].k = "end"
    <3>1. (n + i) + 1 <= Len(w) /\ w[(n + i) + 1].k = "end"
      BY <1>1, <2>2 DEF Framed
    <3>2. i + 1 \in 1 .. Len(b) /\ n + (i + 1) = (n + i) + 1
      BY <1>1, <3>1
    <3> QED
      BY <1>1, <3>1, <3>2
  <2> QED
    BY <2>1, <2>2 DEF Framed
<1>3. Upwards(w) => Upwards(b)
  <2> SUFFICES ASSUME Upwards(w), NEW i \in 1 .. Len(b), NEW j \in 1 .. Len(b), i < j,
                      b[i].k = "smp", b[j].k = "smp"
               PROVE  b[i].v < b[j].v
    BY DEF Upwards
  <2>1. n + i < n + j
    BY <1>1
  <2> QED
    BY <1>1, <2>1 DEF Upwards
<1>4. Whole(w) => Whole(b)
  <2> SUFFICES ASSUME Whole(w), NEW i \in 1 .. Len(b), b[i].k = "hdr"
               PROVE  i + FrameLen <= Len(b)
    BY DEF Whole
  <2>1. (n + i) + FrameLen <= n + Len(b)
    BY <1>1 DEF Whole
  <2> QED
    BY <1>1, <2>1, TciAssumption
<1>5. ASSUME NEW m, AtMost(m, w) PROVE AtMost(m, b)
  BY <1>1, <1>5 DEF AtMost
<1>6. ASSUME NEW s, Below(s, w) PROVE Below(s, b)
  <2> SUFFICES ASSUME NEW i \in 1 .. Len(s), NEW j \in 1 .. Len(b), s[i] > 0, b[j].k = "smp"
               PROVE  s[i] < b[j].v
    BY DEF Below
  <2> QED
    BY <1>1, <1>6 DEF Below
<1> QED
  BY <1>2, <1>3, <1>4, <1>5, <1>6 DEF w

\* What a file keeps when its end is dropped.
LEMMA EarlierUnits ==
  ASSUME NEW a \in Seq(Unit), NEW b \in Seq(Unit), Framed(a \o b), Upwards(a \o b),
         \A i \in 1 .. Len(a) : a[i].k # "txt"
  PROVE  /\ Framed(a) /\ Upwards(a)
         /\ \A s : Below(s, a \o b) => Below(s, a)
<1> DEFINE w == a \o b
<1>1. /\ Len(a) \in Nat /\ Len(b) \in Nat /\ Len(w) = Len(a) + Len(b)
      /\ \A i \in 1 .. Len(a) : i \in 1 .. Len(w) /\ w[i] = a[i]
  BY ConcatProperties
<1>2. Framed(w) /\ Upwards(w)
  OBVIOUS
<1> HIDE DEF w
<1>3. Framed(a)
  <2> SUFFICES ASSUME NEW i \in 1 .. Len(a), NEW j \in 1 .. FrameLen, a[i].k = "hdr",
                      i + j <= Len(a)
               PROVE  a[i + j].k = "smp"
    BY DEF Framed
  <2>1. i + j \in 1 .. Len(a) /\ i + j <= Len(w)
    BY <1>1, TciAssumption
  <2> QED
    BY <1>1, <1>2, <2>1 DEF Framed
<1>4. Upwards(a)
  BY <1>1, <1>2 DEF Upwards
<1>5. ASSUME NEW s, Below(s, w) PROVE Below(s, a)
  BY <1>1, <1>5 DEF Below
<1> QED
  BY <1>3, <1>4, <1>5 DEF w

\* What is left when a text is taken out.
LEMMA WithoutText ==
  ASSUME NEW a \in Seq(Unit), NEW b \in Seq(Unit), NEW p \in Seq(Unit),
         Len(p) \in {2}, p[1].k = "txt", Framed(a \o (p \o b)), Upwards(a \o (p \o b))
  PROVE  /\ Framed(a \o b) /\ Upwards(a \o b)
         /\ Whole(a \o (p \o b)) => Whole(a \o b)
         /\ \A n : AtMost(n, a \o (p \o b)) => AtMost(n, a \o b)
         /\ \A s : Below(s, a \o (p \o b)) => Below(s, a \o b)
<1> DEFINE w == a \o (p \o b)
           v == a \o b
           n == Len(a)
           f(i) == IF i <= n THEN i ELSE i + 2
<1>1. Framed(w) /\ Upwards(w)
  OBVIOUS
<1>2. /\ n \in Nat /\ Len(v) \in Nat /\ n <= Len(v) /\ Len(w) = Len(v) + 2
      /\ w[n + 1].k = "txt"
      /\ \A i \in 1 .. Len(v) : v[i] = w[f(i)]
  <2>1. /\ Len(a) \in Nat /\ Len(b) \in Nat /\ Len(w) = Len(a) + 2 + Len(b)
        /\ \A i \in 1 .. Len(a) : w[i] = a[i]
        /\ \A i \in 1 .. 2 : w[Len(a) + i] = p[i]
        /\ \A i \in 1 .. Len(b) : w[Len(a) + 2 + i] = b[i]
    <3>1. /\ Len(a) \in Nat /\ Len(p) \in Nat /\ Len(b) \in Nat
          /\ Len(a \o (p \o b)) = Len(a) + Len(p) + Len(b)
      BY JoinedThree
    <3>2. \A i \in 1 .. Len(a) : (a \o (p \o b))[i] = a[i]
      BY JoinedThree
    <3>3. \A i \in 1 .. Len(p) : (a \o (p \o b))[Len(a) + i] = p[i]
      BY JoinedThree
    <3>4. \A i \in 1 .. Len(b) : (a \o (p \o b))[Len(a) + Len(p) + i] = b[i]
      BY JoinedThree
    <3> QED
      BY <3>1, <3>2, <3>3, <3>4
  <2>2. /\ Len(v) = Len(a) + Len(b)
        /\ \A i \in 1 .. Len(v) : v[i] = IF i <= Len(a) THEN a[i] ELSE b[i - Len(a)]
    BY Joined
  <2> HIDE DEF v, w, n
  <2>3. w[n + 1].k = "txt"
    BY <2>1 DEF n
  <2>4. ASSUME NEW i \in 1 .. Len(v) PROVE v[i] = w[f(i)]
    <3>1. CASE i <= n
      BY <2>1, <2>2, <3>1 DEF n
    <3>2. CASE ~ (i <= n)
      <4>1. i - n \in 1 .. Len(b) /\ i + 2 = Len(a) + 2 + (i - n)
        BY <2>1, <2>2, <3>2 DEF n
      <4> QED
        BY <2>1, <2>2, <3>2, <4>1 DEF n
    <3> QED
      BY <3>1, <3>2
  <2> QED
    BY <2>1, <2>2, <2>3, <2>4 DEF n
<1> HIDE DEF w, v, n
<1>3. \A i \in 1 .. Len(v) : f(i) \in 1 .. Len(w)
  BY <1>2
<1>4. \A i, j \in 1 .. Len(v) : i < j => f(i) < f(j)
  BY <1>2
<1>5. ASSUME NEW i \in 1 .. Len(v), NEW j \in 1 .. FrameLen, v[i].k = "hdr",
             f(i) + j <= Len(w)
      PROVE  i + j <= Len(v) /\ f(i + j) = f(i) + j /\ w[f(i) + j].k = "smp"
  <2>1. j \in Nat /\ FrameLen \in Nat /\ 1 <= j
    BY TciAssumption
  <2>2. w[f(i)].k = "hdr" /\ f(i) \in 1 .. Len(w)
    BY <1>2, <1>3, <1>5
  <2>3. \A l \in 1 .. FrameLen : f(i) + l <= Len(w) => w[f(i) + l].k = "smp"
    <3> DEFINE m == f(i)
    <3> HIDE DEF m
    <3>1. \A l \in 1 .. FrameLen : m + l <= Len(w) => w[m + l].k = "smp"
      BY <1>1, <2>2 DEF Framed, m
    <3> QED
      BY <3>1 DEF m
  <2>4. CASE i > n
    <3>1. f(i) = i + 2 /\ i + j > n /\ f(i + j) = i + j + 2
      BY <1>2, <2>1, <2>4
    <3>2. i + j <= Len(v)
      BY <1>2, <1>5, <2>1, <3>1
    <3>3. w[f(i) + j].k = "smp"
      BY <1>5, <2>3
    <3> QED
      BY <1>2, <2>1, <3>1, <3>2, <3>3
  <2>5. CASE i <= n
    <3>1. ~ (i + j > n)
      <4> SUFFICES ASSUME i + j > n PROVE FALSE
        OBVIOUS
      <4>1. n + 1 - i \in 1 .. FrameLen /\ i + (n + 1 - i) = n + 1 /\ n + 1 <= Len(w)
        BY <1>2, <2>1, <2>5
      <4>2. f(i) = i
        BY <2>5
      <4>3. w[n + 1].k = "smp"
        BY <2>3, <4>1, <4>2
      <4> QED
        BY <1>2, <4>3
    <3>2. f(i) = i /\ f(i + j) = i + j /\ i + j <= Len(v)
      BY <1>2, <2>1, <2>5, <3>1
    <3> QED
      BY <1>5, <2>1, <2>3, <3>2
  <2> QED
    BY <1>2, <2>4, <2>5
<1>6. Framed(v)
  <2>1. ASSUME NEW i \in 1 .. Len(v), NEW j \in 1 .. FrameLen, v[i].k = "hdr", i + j <= Len(v)
        PROVE  v[i + j].k = "smp"
    <3>1. f(i) + j <= Len(w) /\ i + j \in 1 .. Len(v)
      BY <1>2, <2>1, TciAssumption
    <3>2. f(i + j) = f(i) + j /\ w[f(i) + j].k = "smp"
      BY <1>5, <2>1, <3>1
    <3> HIDE DEF f
    <3> QED
      BY <1>2, <3>1, <3>2
  <2>2. ASSUME NEW i \in 1 .. Len(v), v[i].k = "txt"
        PROVE  i + 1 <= Len(v) /\ v[i + 1].k = "end"
    <3>1. f(i) + 1 <= Len(w) /\ w[f(i) + 1].k = "end"
      <4> DEFINE m == f(i)
      <4> HIDE DEF m
      <4>1. m \in 1 .. Len(w) /\ w[m].k = "txt"
        BY <1>2, <1>3, <2>2 DEF m
      <4>2. m + 1 <= Len(w) /\ w[m + 1].k = "end"
        BY <1>1, <4>1 DEF Framed
      <4> QED
        BY <4>2 DEF m
    <3>2. i # n
      BY <1>2, <3>1
    <3>3. i + 1 \in 1 .. Len(v) /\ f(i + 1) = f(i) + 1
      BY <1>2, <3>1, <3>2
    <3> HIDE DEF f
    <3> QED
      BY <1>2, <3>1, <3>3
  <2> QED
    BY <2>1, <2>2 DEF Framed
<1>7. Upwards(v)
  <2> SUFFICES ASSUME NEW i \in 1 .. Len(v), NEW j \in 1 .. Len(v), i < j,
                      v[i].k = "smp", v[j].k = "smp"
               PROVE  v[i].v < v[j].v
    BY DEF Upwards
  <2>1. f(i) < f(j) /\ v[i] = w[f(i)] /\ v[j] = w[f(j)]
    BY <1>2, <1>4
  <2> HIDE DEF f
  <2> QED
    BY <1>1, <1>3, <2>1 DEF Upwards
<1>8. Whole(w) => Whole(v)
  <2> SUFFICES ASSUME Whole(w), NEW i \in 1 .. Len(v), v[i].k = "hdr"
               PROVE  i + FrameLen <= Len(v)
    BY DEF Whole
  <2>1. f(i) + FrameLen <= Len(w)
    <3> HIDE DEF f
    <3> QED
      BY <1>2, <1>3 DEF Whole
  <2>2. FrameLen \in 1 .. FrameLen
    BY TciAssumption
  <2> HIDE DEF f
  <2> QED
    BY <1>5, <2>1, <2>2
<1>9. ASSUME NEW m, AtMost(m, w) PROVE AtMost(m, v)
  <2> HIDE DEF f
  <2> QED
    BY <1>2, <1>3, <1>9 DEF AtMost
<1>10. ASSUME NEW s, Below(s, w) PROVE Below(s, v)
  <2> HIDE DEF f
  <2> SUFFICES ASSUME NEW i \in 1 .. Len(s), NEW j \in 1 .. Len(v), s[i] > 0, v[j].k = "smp"
               PROVE  s[i] < v[j].v
    BY DEF Below
  <2> QED
    BY <1>2, <1>3, <1>10 DEF Below
<1> QED
  BY <1>6, <1>7, <1>8, <1>9, <1>10 DEF w, v

LEMMA Product ==
  ASSUME NEW a \in Nat, NEW b \in Nat, NEW c \in Nat, a <= b
  PROVE  a * c \in Nat /\ b * c \in Nat /\ a * c <= b * c
<1>1. b * c = a * c + (b - a) * c /\ (b - a) * c >= 0
  OBVIOUS
<1> QED
  BY <1>1

\* The next frame of the radio: its units and its numbers.
LEMMA FrameIs ==
  ASSUME NEW n \in Nat, n < MaxFrames, NEW m \in Modes
  PROVE  /\ n * FrameLen \in Nat /\ (n + 1) * FrameLen = n * FrameLen + FrameLen
         /\ Frame(n + 1, m) \in Seq(Unit) /\ Len(Frame(n + 1, m)) = FrameLen + 1
         /\ Frame(n + 1, m)[1].k = "hdr"
         /\ \A j \in 1 .. FrameLen :
               /\ Frame(n + 1, m)[j + 1].k = "smp"
               /\ Frame(n + 1, m)[j + 1].v = n * FrameLen + j
<1> DEFINE base == n * FrameLen
           u(i) == IF i = 1 THEN Hdr(m) ELSE Smp(base + i - 1)
<1>1. FrameLen \in Nat \ {0} /\ MaxFrames \in Nat
  BY TciAssumption
<1>2. base \in Nat /\ (n + 1) * FrameLen = base + FrameLen
  BY <1>1
<1>3. base + FrameLen <= MaxFrames * FrameLen
  BY <1>1, <1>2, n + 1 \in Nat, n + 1 <= MaxFrames, Product
<1>4. Frame(n + 1, m) = [i \in 1 .. FrameLen + 1 |-> u(i)]
  BY DEF Frame
<1> HIDE DEF base
<1>5. \A i \in 2 .. FrameLen + 1 : base + i - 1 \in Values
  BY <1>1, <1>2, <1>3, ValuesNat DEF Values
<1>6. \A i \in 1 .. FrameLen + 1 : u(i) \in Unit
  BY <1>1, <1>5, UnitFacts
<1> HIDE DEF u
<1>7. Frame(n + 1, m) \in Seq(Unit) /\ Len(Frame(n + 1, m)) = FrameLen + 1
  BY <1>1, <1>4, <1>6
<1>8. u(1).k = "hdr"
  BY UnitFacts DEF u
<1>9. ASSUME NEW j \in 1 .. FrameLen PROVE u(j + 1).k = "smp" /\ u(j + 1).v = base + j
  <2>1. j + 1 \in 2 .. FrameLen + 1 /\ j + 1 # 1 /\ base + (j + 1) - 1 = base + j
    BY <1>1, <1>2
  <2>2. base + j \in Values /\ u(j + 1) = Smp(base + j)
    BY <1>5, <2>1 DEF u
  <2> QED
    BY <2>2, UnitFacts
<1>10. 1 \in 1 .. FrameLen + 1 /\ \A j \in 1 .. FrameLen : j + 1 \in 1 .. FrameLen + 1
  BY <1>1
<1> QED
  BY <1>2, <1>4, <1>7, <1>8, <1>9, <1>10 DEF base

\* A frame behind what is on its way.
LEMMA WithFrame ==
  ASSUME NEW w \in Seq(Unit), NEW n \in Nat, n < MaxFrames, NEW m \in Modes,
         Framed(w), Upwards(w), Whole(w), AtMost(n * FrameLen, w)
  PROVE  /\ Framed(w \o Frame(n + 1, m)) /\ Upwards(w \o Frame(n + 1, m))
         /\ Whole(w \o Frame(n + 1, m))
         /\ AtMost((n + 1) * FrameLen, w \o Frame(n + 1, m))
         /\ \A s \in Seq(Nat) : Below(s, w) /\ (\A i \in 1 .. Len(s) : s[i] <= n * FrameLen)
                           => Below(s, w \o Frame(n + 1, m))
<1> DEFINE f == Frame(n + 1, m)
           v == w \o f
           base == n * FrameLen
           k == Len(w)
<1>1. /\ base \in Nat /\ (n + 1) * FrameLen = base + FrameLen
      /\ f \in Seq(Unit) /\ Len(f) = FrameLen + 1 /\ f[1].k = "hdr"
      /\ \A j \in 1 .. FrameLen : f[j + 1].k = "smp" /\ f[j + 1].v = base + j
  BY FrameIs
<1> HIDE DEF f, base
<1>2. /\ k \in Nat /\ Len(v) = k + FrameLen + 1 /\ FrameLen \in Nat \ {0}
      /\ \A i \in 1 .. k : v[i] = w[i]
      /\ v[k + 1].k = "hdr"
      /\ \A j \in 1 .. FrameLen : v[k + 1 + j].k = "smp" /\ v[k + 1 + j].v = base + j
  <2>1. /\ Len(w) \in Nat /\ Len(v) = Len(w) + Len(f)
        /\ \A i \in 1 .. Len(w) : v[i] = w[i]
        /\ \A i \in 1 .. Len(f) : v[Len(w) + i] = f[i]
    <3>1. f \in Seq(Unit)
      BY <1>1
    <3>2. /\ Len(w) \in Nat /\ Len(w \o f) = Len(w) + Len(f)
          /\ \A i \in 1 .. Len(w) : (w \o f)[i] = w[i]
      BY <3>1, Joined
    <3>3. \A i \in 1 .. Len(f) : (w \o f)[Len(w) + i] = f[i]
      BY <3>1, Joined
    <3> QED
      BY <3>2, <3>3
  <2> HIDE DEF v
  <2>2. FrameLen \in Nat \ {0}
    BY TciAssumption
  <2>3. v[k + 1] = f[1]
    BY <1>1, <2>1, <2>2
  <2>4. ASSUME NEW j \in 1 .. FrameLen PROVE v[k + 1 + j] = f[j + 1]
    <3>1. j + 1 \in 1 .. Len(f) /\ Len(w) + (j + 1) = k + 1 + j
      BY <1>1, <2>1, <2>2
    <3> QED
      BY <2>1, <3>1
  <2>5. k \in Nat /\ Len(v) = k + FrameLen + 1 /\ \A i \in 1 .. k : v[i] = w[i]
    BY <1>1, <2>1, <2>2
  <2>6. \A j \in 1 .. FrameLen : v[k + 1 + j].k = "smp" /\ v[k + 1 + j].v = base + j
    BY <1>1, <2>4
  <2> QED
    BY <1>1, <2>2, <2>3, <2>5, <2>6
<1>3. \A i \in 1 .. k : w[i].k = "smp" => w[i].v \in Nat /\ w[i].v <= base
  <2>1. \A i \in 1 .. k : w[i] \in Unit
    OBVIOUS
  <2> QED
    BY <2>1, UnitFacts, ValuesNat DEF AtMost, base
<1> HIDE DEF v, k
<1>4. ASSUME NEW i \in 1 .. Len(v)
      PROVE  \/ i \in 1 .. k /\ v[i] = w[i]
             \/ i = k + 1 /\ v[i].k = "hdr"
             \/ /\ i \in k + 2 .. Len(v)
                /\ v[i].k = "smp" /\ v[i].v = base + (i - k - 1) /\ v[i].v > base
                /\ v[i].v <= base + FrameLen
  <2>1. CASE i <= k
    BY <1>2, <2>1
  <2>2. CASE i = k + 1
    BY <1>2, <2>2
  <2>3. CASE i > k + 1
    <3>1. i - k - 1 \in 1 .. FrameLen /\ k + 1 + (i - k - 1) = i
      <4>1. k \in Int /\ Len(v) = k + FrameLen + 1 /\ FrameLen \in Int /\ i \in Int /\ i <= Len(v)
        BY <1>2
      <4> QED
        BY <2>3, <4>1
    <3>2. v[i].k = "smp" /\ v[i].v = base + (i - k - 1)
      BY <1>2, <3>1
    <3> QED
      BY <1>1, <1>2, <2>3, <3>1, <3>2
  <2> QED
    BY <1>2, <2>1, <2>2, <2>3
<1>5. ASSUME NEW i \in 1 .. Len(v), v[i].k = "hdr"
      PROVE  /\ i + FrameLen <= Len(v)
             /\ \A j \in 1 .. FrameLen : v[i + j].k = "smp"
  <2>1. CASE i \in 1 .. k /\ v[i] = w[i]
    <3>1. i + FrameLen <= k
      BY <1>5, <2>1 DEF Whole, k
    <3>2. ASSUME NEW j \in 1 .. FrameLen PROVE v[i + j].k = "smp"
      <4>1. i + j \in 1 .. k /\ i + j <= Len(w)
        BY <1>2, <2>1, <3>1 DEF k
      <4>2. w[i + j].k = "smp"
        BY <1>5, <2>1, <4>1 DEF Framed, k
      <4> QED
        BY <1>2, <4>1, <4>2
    <3> QED
      BY <1>2, <3>1, <3>2
  <2>2. CASE i = k + 1
    <3>1. i + FrameLen <= Len(v)
      BY <1>2, <2>2
    <3>2. \A j \in 1 .. FrameLen : v[k + 1 + j].k = "smp"
      BY <1>2
    <3> QED
      BY <2>2, <3>1, <3>2
  <2> QED
    BY <1>4, <1>5, <2>1, <2>2
<1>6. Framed(v)
  <2>1. ASSUME NEW i \in 1 .. Len(v), v[i].k = "txt"
        PROVE  i + 1 <= Len(v) /\ v[i + 1].k = "end"
    <3>1. i \in 1 .. k /\ v[i] = w[i]
      BY <1>4, <2>1
    <3>2. i + 1 <= k /\ w[i + 1].k = "end"
      BY <2>1, <3>1 DEF Framed, k
    <3> QED
      BY <1>2, <3>1, <3>2
  <2> QED
    BY <1>5, <2>1 DEF Framed
<1>7. Upwards(v)
  <2> SUFFICES ASSUME NEW i \in 1 .. Len(v), NEW j \in 1 .. Len(v), i < j,
                      v[i].k = "smp", v[j].k = "smp"
               PROVE  v[i].v < v[j].v
    BY DEF Upwards
  <2>1. CASE j \in 1 .. k
    <3>1. i \in 1 .. k /\ v[i] = w[i] /\ v[j] = w[j]
      BY <1>2, <2>1
    <3> QED
      BY <2>1, <3>1 DEF Upwards, k
  <2>2. CASE j \notin 1 .. k
    <3>1. v[j].v = base + (j - k - 1) /\ v[j].v > base
      BY <1>4, <2>2
    <3>2. CASE i \in 1 .. k /\ v[i] = w[i]
      BY <1>1, <1>2, <1>3, <3>1, <3>2
    <3>3. CASE i \notin 1 .. k
      <4>1. v[i].v = base + (i - k - 1)
        BY <1>4, <3>3
      <4> QED
        BY <1>1, <1>2, <3>1, <4>1, SMTT(40)
    <3> QED
      BY <1>2, <1>4, <3>2, <3>3
  <2> QED
    BY <2>1, <2>2
<1>8. Whole(v)
  BY <1>5 DEF Whole
<1>9. AtMost(base + FrameLen, v)
  <2> SUFFICES ASSUME NEW i \in 1 .. Len(v), v[i].k = "smp" PROVE v[i].v <= base + FrameLen
    BY DEF AtMost
  <2>1. CASE i \in 1 .. k /\ v[i] = w[i]
    BY <1>1, <1>2, <1>3, <2>1
  <2> QED
    BY <1>4, <2>1
<1>10. ASSUME NEW s \in Seq(Nat), Below(s, w), \A i \in 1 .. Len(s) : s[i] <= base
       PROVE  Below(s, v)
  <2> SUFFICES ASSUME NEW i \in 1 .. Len(s), NEW j \in 1 .. Len(v), s[i] > 0, v[j].k = "smp"
               PROVE  s[i] < v[j].v
    BY DEF Below
  <2>1. CASE j \in 1 .. k /\ v[j] = w[j]
    BY <1>10, <2>1 DEF Below, k
  <2>2. CASE v[j].v > base /\ v[j].v = base + (j - k - 1)
    <3>1. s[i] \in Nat /\ s[i] <= base
      BY <1>10
    <3> QED
      BY <1>1, <1>2, <2>2, <3>1, SMTT(40)
  <2> QED
    BY <1>4, <2>1, <2>2
<1> QED
  BY <1>1, <1>6, <1>7, <1>8, <1>9, <1>10 DEF f, v, base

\* A text behind what is on its way.
LEMMA WithText ==
  ASSUME NEW w \in Seq(Unit), NEW n \in 0 .. 1, Framed(w), Upwards(w), Whole(w)
  PROVE  /\ w \o <<Txt(n), Semi>> \in Seq(Unit)
         /\ Framed(w \o <<Txt(n), Semi>>) /\ Upwards(w \o <<Txt(n), Semi>>)
         /\ Whole(w \o <<Txt(n), Semi>>)
         /\ \A m : AtMost(m, w) => AtMost(m, w \o <<Txt(n), Semi>>)
         /\ \A s : Below(s, w) => Below(s, w \o <<Txt(n), Semi>>)
<1> DEFINE t == <<Txt(n), Semi>>
           v == w \o t
           k == Len(w)
<1>1. t \in Seq(Unit) /\ Len(t) = 2 /\ t[1].k = "txt" /\ t[2].k = "end"
  <2>1. Txt(n) \in Unit /\ Semi \in Unit /\ Txt(n).k = "txt" /\ Semi.k = "end"
    BY UnitFacts
  <2> QED
    BY <2>1
<1> HIDE DEF t
<1>2. /\ k \in Nat /\ Len(v) = k + 2 /\ v \in Seq(Unit)
      /\ \A i \in 1 .. k : v[i] = w[i]
      /\ v[k + 1].k = "txt" /\ v[k + 2].k = "end"
  <2>1. t \in Seq(Unit)
    BY <1>1
  <2>2. /\ Len(w) \in Nat /\ w \o t \in Seq(Unit) /\ Len(w \o t) = Len(w) + Len(t)
        /\ \A i \in 1 .. Len(w) : (w \o t)[i] = w[i]
    BY <2>1, Joined
  <2>3. \A i \in 1 .. Len(t) : (w \o t)[Len(w) + i] = t[i]
    BY <2>1, Joined
  <2>4. 1 \in 1 .. Len(t) /\ 2 \in 1 .. Len(t)
    BY <1>1
  <2> QED
    BY <1>1, <2>2, <2>3, <2>4
<1> HIDE DEF v, k
<1>3. ASSUME NEW i \in 1 .. Len(v)
      PROVE  \/ i \in 1 .. k /\ v[i] = w[i]
             \/ i = k + 1 /\ v[i].k = "txt"
             \/ i = k + 2 /\ v[i].k = "end"
  BY <1>2
<1>4. Framed(v)
  <2>1. ASSUME NEW i \in 1 .. Len(v), NEW j \in 1 .. FrameLen, v[i].k = "hdr", i + j <= Len(v)
        PROVE  v[i + j].k = "smp"
    <3>1. i \in 1 .. k /\ v[i] = w[i]
      BY <1>3, <2>1
    <3>2. i + FrameLen <= k
      BY <2>1, <3>1 DEF Whole, k
    <3>3. i + j \in 1 .. k
      BY <1>2, <3>1, <3>2, TciAssumption
    <3>4. w[i + j].k = "smp"
      BY <2>1, <3>1, <3>3 DEF Framed, k
    <3> QED
      BY <1>2, <3>3, <3>4
  <2>2. ASSUME NEW i \in 1 .. Len(v), v[i].k = "txt"
        PROVE  i + 1 <= Len(v) /\ v[i + 1].k = "end"
    <3>1. CASE i \in 1 .. k /\ v[i] = w[i]
      <4>1. i + 1 <= k /\ w[i + 1].k = "end"
        BY <2>2, <3>1 DEF Framed, k
      <4> QED
        BY <1>2, <3>1, <4>1
    <3>2. CASE i = k + 1
      BY <1>2, <3>2
    <3> QED
      BY <1>3, <2>2, <3>1, <3>2
  <2> QED
    BY <2>1, <2>2 DEF Framed
<1>5. Upwards(v)
  <2> SUFFICES ASSUME NEW i \in 1 .. Len(v), NEW j \in 1 .. Len(v), i < j,
                      v[i].k = "smp", v[j].k = "smp"
               PROVE  v[i].v < v[j].v
    BY DEF Upwards
  <2>1. i \in 1 .. k /\ v[i] = w[i] /\ j \in 1 .. k /\ v[j] = w[j]
    BY <1>3
  <2> QED
    BY <2>1 DEF Upwards, k
<1>6. Whole(v)
  <2> SUFFICES ASSUME NEW i \in 1 .. Len(v), v[i].k = "hdr" PROVE i + FrameLen <= Len(v)
    BY DEF Whole
  <2>1. i \in 1 .. k /\ v[i] = w[i]
    BY <1>3
  <2>2. i + FrameLen <= k
    BY <2>1 DEF Whole, k
  <2> QED
    BY <1>2, <2>1, <2>2, TciAssumption
<1>7. ASSUME NEW m, AtMost(m, w) PROVE AtMost(m, v)
  <2> SUFFICES ASSUME NEW i \in 1 .. Len(v), v[i].k = "smp" PROVE v[i].v <= m
    BY DEF AtMost
  <2>1. i \in 1 .. k /\ v[i] = w[i]
    BY <1>3
  <2> QED
    BY <1>7, <2>1 DEF AtMost, k
<1>8. ASSUME NEW s, Below(s, w) PROVE Below(s, v)
  <2> SUFFICES ASSUME NEW i \in 1 .. Len(s), NEW j \in 1 .. Len(v), s[i] > 0, v[j].k = "smp"
               PROVE  s[i] < v[j].v
    BY DEF Below
  <2>1. j \in 1 .. k /\ v[j] = w[j]
    BY <1>3
  <2> QED
    BY <1>8, <2>1 DEF Below, k
<1> QED
  BY <1>2, <1>4, <1>5, <1>6, <1>7, <1>8 DEF v, t

\* Dividing by the length of a frame.
LEMMA Division ==
  ASSUME NEW p \in Nat
  PROVE  \E a \in Nat, r \in 0 .. FrameLen :
            /\ p = a * (FrameLen + 1) + r /\ a * (FrameLen + 1) \in Nat
            /\ p \div (FrameLen + 1) = a /\ p % (FrameLen + 1) = r
<1> DEFINE d == FrameLen + 1
<1>1. d \in Nat /\ d > 0
  BY TciAssumption
<1> HIDE DEF d
<1>2. p \div d \in Int /\ p % d \in 0 .. d - 1
  BY <1>1
<1>3. p = d * (p \div d) + (p % d)
  BY <1>1
<1> DEFINE a == p \div d
           r == p % d
<1> HIDE DEF a, r
<1>4. a \in Int /\ r \in 0 .. d - 1 /\ p = d * a + r
  BY <1>2, <1>3 DEF a, r
<1>5. a >= 0
  <2> SUFFICES ASSUME a <= -1 PROVE FALSE
    BY <1>4
  <2>1. (-1 - a) * d >= 0 /\ (-1 - a) * d = -d - d * a
    BY <1>1, <1>4
  <2> QED
    BY <1>1, <1>4, <2>1
<1>6. d * a = a * d /\ a * d \in Nat /\ a \in Nat
  BY <1>1, <1>4, <1>5
<1>7. r \in 0 .. FrameLen
  BY <1>4, TciAssumption DEF d
<1>8. p = a * d + r
  BY <1>4, <1>6
<1> QED
  BY <1>6, <1>7, <1>8 DEF a, r, d

LEMMA Unique ==
  ASSUME NEW a \in Nat, NEW b \in Nat, NEW r \in 0 .. FrameLen, NEW q \in 0 .. FrameLen,
         a * (FrameLen + 1) + r <= b * (FrameLen + 1) + q
  PROVE  a < b \/ (a = b /\ r <= q)
<1> DEFINE d == FrameLen + 1
<1>1. d \in Nat /\ r \in Nat /\ r < d /\ q \in Nat /\ q < d
  BY TciAssumption
<1>2. a * d \in Nat /\ b * d \in Nat /\ a * d + r <= b * d + q
  BY <1>1
<1> HIDE DEF d
<1>3. ~ (a > b)
  <2> SUFFICES ASSUME a > b PROVE FALSE
    OBVIOUS
  <2>1. (b + 1) * d <= a * d /\ (b + 1) * d = b * d + d
    <3>1. b + 1 \in Nat /\ b + 1 <= a
      OBVIOUS
    <3>2. (b + 1) * d <= a * d
      BY <1>1, <3>1, Product
    <3>3. (b + 1) * d = b * d + d
      BY <1>1
    <3> QED
      BY <3>2, <3>3
  <2> QED
    BY <1>1, <1>2, <2>1
<1>4. a = b => r <= q
  BY <1>1, <1>2
<1> QED
  BY <1>3, <1>4

\* The units of a training file, counted in frames.
LEMMA FileUnit ==
  ASSUME NEW a \in Nat, NEW r \in 0 .. FrameLen
  PROVE  /\ a * FrameLen \in Nat
         /\ UnitAt(a * (FrameLen + 1) + r, "iq") =
               IF r = 0 THEN Hdr("iq") ELSE Smp(a * FrameLen + r)
<1> DEFINE p == a * (FrameLen + 1) + r
<1>1. FrameLen \in Nat /\ a * (FrameLen + 1) \in Nat /\ p \in Nat /\ a * FrameLen \in Nat
      /\ a * (FrameLen + 1) = a * FrameLen + a
  BY TciAssumption
<1>2. PICK b \in Nat, q \in 0 .. FrameLen :
         /\ p = b * (FrameLen + 1) + q
         /\ p \div (FrameLen + 1) = b /\ p % (FrameLen + 1) = q
  <2> HIDE DEF p
  <2> QED
    BY <1>1, Division
<1>3. b * (FrameLen + 1) + q \in Nat
  BY <1>1, <1>2
<1>4. a = b /\ r = q
  <2>1. a * (FrameLen + 1) + r <= b * (FrameLen + 1) + q
    BY <1>1, <1>2, <1>3
  <2>2. b * (FrameLen + 1) + q <= a * (FrameLen + 1) + r
    BY <1>1, <1>2, <1>3
  <2>3. a < b \/ (a = b /\ r <= q)
    BY <2>1, Unique
  <2>4. b < a \/ (b = a /\ q <= r)
    BY <2>2, Unique
  <2>5. FrameLen \in Nat
    BY TciAssumption
  <2> QED
    BY <2>3, <2>4, <2>5
<1>5. p - a = a * FrameLen + r
  BY <1>1
<1> HIDE DEF p
<1>6. UnitAt(p, "iq") = IF r = 0 THEN Hdr("iq") ELSE Smp(a * FrameLen + r)
  BY <1>2, <1>4, <1>5 DEF UnitAt
<1> QED
  BY <1>1, <1>6 DEF p

\* A training file is made of frames, and has as many as Init counts.
LEMMA FileIs ==
  ASSUME NEW len \in 0 .. MaxFrames * (FrameLen + 1)
  PROVE  LET f == TrainingFile(len)
             n == len \div (FrameLen + 1)
         IN  /\ f \in Seq(Unit) /\ Len(f) = len /\ Framed(f) /\ Upwards(f)
             /\ \A i \in 1 .. Len(f) : f[i].k # "txt"
             /\ FromFrame(0, f)
             /\ n \in 0 .. MaxFrames
             /\ n * (FrameLen + 1) <= len /\ len < (n + 1) * (FrameLen + 1)
<1> DEFINE f == TrainingFile(len)
           n == len \div (FrameLen + 1)
           d == FrameLen + 1
<1>1. /\ FrameLen \in Nat \ {0} /\ MaxFrames \in Nat /\ d = FrameLen + 1 /\ d \in Nat
      /\ MaxFrames * d \in Nat /\ len \in Nat /\ len <= MaxFrames * d
  BY TciAssumption
<1> HIDE DEF d
<1>2. ASSUME NEW i \in 1 .. len
      PROVE  \E a \in Nat, r \in 0 .. FrameLen :
                /\ i = a * d + r + 1 /\ a < MaxFrames /\ a * FrameLen + r \in Values
                /\ UnitAt(i - 1, "iq") = IF r = 0 THEN Hdr("iq") ELSE Smp(a * FrameLen + r)
  <2>1. i - 1 \in Nat /\ i - 1 < MaxFrames * d
    BY <1>1
  <2>2. PICK a \in Nat, r \in 0 .. FrameLen : i - 1 = a * d + r /\ a * d \in Nat
    BY <2>1, Division DEF d
  <2>3. a < MaxFrames
    <3> SUFFICES ASSUME MaxFrames <= a PROVE FALSE
      BY <1>1
    <3>1. MaxFrames * d <= a * d
      BY <1>1, Product
    <3> QED
      BY <1>1, <2>1, <2>2, <3>1
  <2>4. a * FrameLen + r \in Values
    <3>1. (a + 1) * FrameLen <= MaxFrames * FrameLen /\ MaxFrames * FrameLen \in Nat
      BY <1>1, <2>3, a + 1 \in Nat, a + 1 <= MaxFrames, Product
    <3>2. (a + 1) * FrameLen = a * FrameLen + FrameLen /\ a * FrameLen \in Nat
      BY <1>1
    <3> QED
      BY <1>1, <3>1, <3>2 DEF Values
  <2>5. UnitAt(i - 1, "iq") = IF r = 0 THEN Hdr("iq") ELSE Smp(a * FrameLen + r)
    BY <2>2, FileUnit DEF d
  <2>6. i = a * d + r + 1
    BY <2>2
  <2> QED
    BY <2>3, <2>4, <2>5, <2>6
<1>3. f = [i \in 1 .. len |-> UnitAt(i - 1, "iq")]
  BY DEF TrainingFile
<1>4. \A i \in 1 .. len : UnitAt(i - 1, "iq") \in Unit /\ UnitAt(i - 1, "iq").k \in {"hdr", "smp"}
  <2> SUFFICES ASSUME NEW i \in 1 .. len
               PROVE  UnitAt(i - 1, "iq") \in Unit /\ UnitAt(i - 1, "iq").k \in {"hdr", "smp"}
    OBVIOUS
  <2>1. PICK a \in Nat, r \in 0 .. FrameLen :
           /\ a * FrameLen + r \in Values
           /\ UnitAt(i - 1, "iq") = IF r = 0 THEN Hdr("iq") ELSE Smp(a * FrameLen + r)
    BY <1>2
  <2>2. "iq" \in Modes
    BY DEF Modes
  <2> QED
    BY <2>1, <2>2, UnitFacts
<1>5. f \in Seq(Unit) /\ Len(f) = len /\ \A i \in 1 .. len : f[i] = UnitAt(i - 1, "iq")
  BY <1>1, <1>3, <1>4
<1> HIDE DEF f
<1>6. ASSUME NEW a \in Nat, NEW r \in 0 .. FrameLen, a * d + r + 1 <= len
      PROVE  /\ f[a * d + r + 1] = IF r = 0 THEN Hdr("iq") ELSE Smp(a * FrameLen + r)
             /\ f[a * d + r + 1].k = IF r = 0 THEN "hdr" ELSE "smp"
  <2>1. a * d \in Nat /\ a * d + r + 1 \in 1 .. len /\ a * d + r + 1 - 1 = a * d + r
    BY <1>1, <1>6
  <2>2. f[a * d + r + 1] = IF r = 0 THEN Hdr("iq") ELSE Smp(a * FrameLen + r)
    BY <1>5, <2>1, FileUnit DEF d
  <2> QED
    BY <2>2 DEF Hdr, Smp
<1>7. Framed(f)
  <2>1. ASSUME NEW i \in 1 .. Len(f), NEW j \in 1 .. FrameLen, f[i].k = "hdr", i + j <= Len(f)
        PROVE  f[i + j].k = "smp"
    <3>1. PICK a \in Nat, r \in 0 .. FrameLen : i = a * d + r + 1
      BY <1>2, <1>5
    <3>2. r = 0
      BY <1>5, <1>6, <2>1, <3>1
    <3>3. a * d \in Nat /\ j \in 0 .. FrameLen /\ j # 0 /\ i + j = a * d + j + 1
      BY <1>1, <3>1, <3>2
    <3>4. a * d + j + 1 <= len
      BY <1>5, <2>1, <3>3
    <3>5. f[a * d + j + 1].k = "smp"
      BY <1>6, <3>3, <3>4
    <3> QED
      BY <3>3, <3>5
  <2> QED
    BY <1>4, <1>5, <2>1 DEF Framed
<1>8. Upwards(f)
  <2> SUFFICES ASSUME NEW i \in 1 .. Len(f), NEW j \in 1 .. Len(f), i < j,
                      f[i].k = "smp", f[j].k = "smp"
               PROVE  f[i].v < f[j].v
    BY DEF Upwards
  <2>1. PICK a \in Nat, r \in 0 .. FrameLen : i = a * d + r + 1
    BY <1>2, <1>5
  <2>2. PICK b \in Nat, q \in 0 .. FrameLen : j = b * d + q + 1
    BY <1>2, <1>5
  <2>3. r # 0 /\ f[i] = Smp(a * FrameLen + r)
    BY <1>5, <1>6, <2>1
  <2>4. q # 0 /\ f[j] = Smp(b * FrameLen + q)
    BY <1>5, <1>6, <2>2
  <2>5. f[i].v = a * FrameLen + r /\ f[j].v = b * FrameLen + q
    BY <2>3, <2>4 DEF Smp
  <2>6. a * d \in Nat /\ b * d \in Nat /\ a * FrameLen \in Nat /\ b * FrameLen \in Nat
        /\ r \in Nat /\ q \in Nat /\ r <= FrameLen
    BY <1>1
  <2>7. a * d + r <= b * d + q /\ a * d + r # b * d + q
    BY <2>1, <2>2, <2>6, SMTT(40)
  <2>8. a < b \/ (a = b /\ r <= q)
    BY <2>7, Unique DEF d
  <2>9. CASE a < b
    <3>1. (a + 1) * FrameLen <= b * FrameLen
      BY <1>1, <2>9, a + 1 \in Nat, a + 1 <= b, Product
    <3>2. (a + 1) * FrameLen = a * FrameLen + FrameLen
      BY <1>1
    <3> QED
      BY <1>1, <2>4, <2>5, <2>6, <3>1, <3>2
  <2>10. CASE a = b /\ r <= q
    BY <2>5, <2>6, <2>7, <2>10
  <2> QED
    BY <2>8, <2>9, <2>10
<1>9. FromFrame(0, f)
  <2> SUFFICES ASSUME NEW a \in Nat, NEW j \in 0 .. FrameLen,
                      a * (FrameLen + 1) + j + 1 <= Len(f)
               PROVE  f[a * (FrameLen + 1) + j + 1] =
                         IF j = 0 THEN Hdr("iq") ELSE Smp((0 + a) * FrameLen + j)
    BY DEF FromFrame
  <2>1. (0 + a) * FrameLen = a * FrameLen
    OBVIOUS
  <2> QED
    BY <1>5, <1>6, <2>1 DEF d
<1>10. /\ n \in 0 .. MaxFrames
       /\ n * (FrameLen + 1) <= len /\ len < (n + 1) * (FrameLen + 1)
  <2>1. PICK a \in Nat, r \in 0 .. FrameLen :
           len = a * d + r /\ a * d \in Nat /\ len \div d = a
    BY <1>1, Division DEF d
  <2>2. a <= MaxFrames
    <3> SUFFICES ASSUME MaxFrames + 1 <= a PROVE FALSE
      BY <1>1
    <3>1. (MaxFrames + 1) * d <= a * d
      BY <1>1, MaxFrames + 1 \in Nat, Product
    <3>2. (MaxFrames + 1) * d = MaxFrames * d + d
      BY <1>1
    <3> QED
      BY <1>1, <2>1, <3>1, <3>2
  <2>3. (a + 1) * d = a * d + d
    BY <1>1
  <2>4. n = a
    BY <2>1 DEF d
  <2>5. n * d <= len /\ len < (n + 1) * d
    BY <1>1, <2>1, <2>3, <2>4
  <2> QED
    BY <1>1, <2>2, <2>4, <2>5 DEF d
<1>11. \A i \in 1 .. Len(f) : f[i].k # "txt"
  BY <1>4, <1>5
<1> QED
  BY <1>5, <1>7, <1>8, <1>9, <1>10, <1>11 DEF f
-------------------------------------------------------------------------------
\* A part of a sequence.
LEMMA Part ==
  ASSUME NEW S, NEW s \in Seq(S), NEW m \in Nat \ {0}, NEW n \in 0 .. Len(s)
  PROVE  SubSeq(s, m, n) \in Seq(S)
<1>1. \A i \in m .. n : s[i] \in S
  OBVIOUS
<1>2. m \in Int /\ n \in Int
  OBVIOUS
<1> QED
  BY <1>1, <1>2, SubSeqProperties

LEMMA PartAndRest ==
  ASSUME NEW S, NEW s \in Seq(S), NEW n \in Nat
  PROVE  /\ n <= Len(s) => SubSeq(s, 1, n) \in Seq(S)
         /\ SubSeq(s, n + 1, Len(s)) \in Seq(S)
<1>1. Len(s) \in 0 .. Len(s) /\ 1 \in Nat \ {0} /\ n + 1 \in Nat \ {0}
  OBVIOUS
<1>2. n <= Len(s) => n \in 0 .. Len(s)
  OBVIOUS
<1> QED
  BY <1>1, <1>2, Part

\* What is on its way consists of units.
LEMMA UnitsStep ==
  ASSUME Types, Session, [Next]_vars
  PROVE  net' \in Seq(Unit) /\ stream' \in Seq(Unit) /\ staged' \in Seq(Unit)
<1> DEFINE Units(s) == s \in Seq(Unit)
<1> SUFFICES Units(net') /\ Units(stream') /\ Units(staged')
  OBVIOUS
<1> USE DEF wire, conn, buffers, rings, loop, loopRest, gui
<1>1. Units(net) /\ Units(stream) /\ Units(staged)
  BY DEF Types
<1>2. /\ FrameLen \in Nat /\ RecvMax \in Nat /\ MaxFrames \in Nat
      /\ FrameLen + 1 \in Nat /\ FrameLen + 2 = (FrameLen + 1) + 1 /\ 3 = 2 + 1
  BY TciAssumption
<1>3. ASSUME NEW s, NEW t, Units(s), Units(t) PROVE Units(s \o t)
  BY <1>3, ConcatProperties
<1>4. ASSUME NEW s, Units(s), NEW n \in Nat, n <= Len(s) PROVE Units(SubSeq(s, 1, n))
  BY <1>4, PartAndRest
<1>5. ASSUME NEW s, Units(s), NEW n \in Nat PROVE Units(SubSeq(s, n + 1, Len(s)))
  BY <1>5, PartAndRest
<1>6. Units(<< >>)
  OBVIOUS
<1> HIDE DEF Units
<1>10. CASE UNCHANGED <<net, stream, staged>>
  BY <1>1, <1>10
<1>11. CASE OpenTraining
  <2>1. CASE UNCHANGED net
    BY <1>1, <1>11, <2>1 DEF OpenTraining
  <2>2. CASE \E len \in 0 .. MaxFrames * (FrameLen + 1) : net' = TrainingFile(len)
    BY <1>1, <1>11, <2>2, FileIs DEF OpenTraining, Units
  <2> QED
    BY <1>11, <2>1, <2>2 DEF OpenTraining
<1>12. CASE TcpReceive
  <2>1. PICK n \in 1 .. RecvMax : /\ n <= Len(net)
                                  /\ stream' = stream \o SubSeq(net, 1, n)
                                  /\ net' = SubSeq(net, n + 1, Len(net))
    BY <1>12 DEF TcpReceive
  <2>2. n \in Nat
    BY <1>2
  <2>3. staged' = staged
    BY <1>12 DEF TcpReceive
  <2> QED
    BY <1>1, <1>3, <1>4, <1>5, <2>1, <2>2, <2>3
<1>13. CASE TrainingRead
  <2> DEFINE n == IF Len(net) < RecvMax THEN Len(net) ELSE RecvMax
  <2>1. Len(net) \in Nat
    BY DEF Types
  <2>2. n \in Nat /\ n <= Len(net)
    BY <1>2, <2>1
  <2>3. /\ stream' = stream \o SubSeq(net, 1, n)
        /\ net' = SubSeq(net, n + 1, Len(net))
        /\ staged' = staged
    BY <1>13 DEF TrainingRead
  <2> HIDE DEF n
  <2> QED
    BY <1>1, <1>3, <1>4, <1>5, <2>2, <2>3
<1>14. CASE WsReceive
  <2>1. CASE net[1].k = "txt"
    <3>1. UNCHANGED <<stream, staged>> /\ net' = SubSeq(net, 2 + 1, Len(net))
      BY <1>2, <1>14, <2>1 DEF WsReceive
    <3> QED
      BY <1>1, <1>5, <3>1
  <2>2. CASE net[1].k # "txt"
    <3>1. PICK n \in 1 .. Len(net) : /\ staged' = StageWs(SubSeq(net, 1, n))
                                     /\ net' = SubSeq(net, n + 1, Len(net))
      BY <1>14, <2>2 DEF WsReceive
    <3>2. n \in Nat /\ n <= Len(net) /\ stream' = stream
      BY <1>14 DEF WsReceive, Types
    <3>3. Units(StageWs(SubSeq(net, 1, n)))
      BY <1>1, <1>3, <1>4, <1>6, <3>2 DEF StageWs
    <3> QED
      BY <1>1, <1>5, <3>1, <3>2, <3>3
  <2> QED
    BY <2>1, <2>2
<1>15. CASE TrainingEof
  BY <1>1, <1>6, <1>15 DEF TrainingEof
<1>16. CASE ParseText
  <2>1. UNCHANGED <<net, staged>> /\ stream' = SubSeq(stream, 2 + 1, Len(stream))
    BY <1>2, <1>16 DEF ParseText
  <2> QED
    BY <1>1, <1>5, <2>1
<1>17. CASE ParseFrame
  <2>1. /\ FrameLen + 1 <= Len(stream) /\ UNCHANGED net
        /\ staged' = staged \o SubSeq(stream, 1, FrameLen + 1)
        /\ stream' = SubSeq(stream, (FrameLen + 1) + 1, Len(stream))
    BY <1>2, <1>17 DEF ParseFrame, FrameFirst, Types
  <2> QED
    BY <1>1, <1>2, <1>3, <1>4, <1>5, <2>1
<1>18. CASE TakeFrame
  <2>1. /\ UNCHANGED <<net, stream>>
        /\ staged' = SubSeq(staged, (FrameLen + 1) + 1, Len(staged))
    BY <1>2, <1>18 DEF TakeFrame
  <2> QED
    BY <1>1, <1>2, <1>5, <2>1
<1>19. CASE TakeRaw
  BY <1>1, <1>6, <1>19 DEF TakeRaw
<1>20. CASE Destroy
  BY <1>6, <1>20 DEF Destroy
<1>21. CASE RadioFrame
  <2>1. PICK m \in radio : net' = net \o Frame(frames + 1, m)
    BY <1>21 DEF RadioFrame
  <2>2. frames \in Nat /\ frames < MaxFrames /\ m \in Modes /\ UNCHANGED <<stream, staged>>
    BY <1>2, <1>21 DEF RadioFrame, Types, Session
  <2>3. Units(Frame(frames + 1, m))
    BY <2>2, FrameIs DEF Units
  <2> QED
    BY <1>1, <1>3, <2>1, <2>2, <2>3
<1>22. CASE RadioText
  <2>1. PICK v \in {0, texts + 1} : net' = net \o <<Txt(v), Semi>>
    BY <1>22 DEF RadioText
  <2>2. v \in 0 .. 1 /\ UNCHANGED <<stream, staged>>
    BY <1>22 DEF RadioText, Types
  <2>3. Txt(v) \in Unit /\ Semi \in Unit
    BY <2>2, UnitFacts
  <2>4. Units(<<Txt(v), Semi>>)
    BY <2>3 DEF Units
  <2> QED
    BY <1>1, <1>3, <2>1, <2>2, <2>4
<1>23. CASE \/ Probe \/ TcpConnect \/ WsConnect \/ StartStream \/ TcpClosed \/ WsClosed
            \/ ServiceReturns \/ ParseStops \/ Read \/ FramesDone \/ Push \/ PushDone
            \/ Get \/ GetRelease \/ TakeDone \/ LoopEnd
  <2>1. UNCHANGED <<net, stream, staged>>
    BY <1>23 DEF Probe, TcpConnect, WsConnect, StartStream, TcpClosed, WsClosed,
                 ServiceReturns, ParseStops, Read, FramesDone, Push, PushDone, Get,
                 GetRelease, TakeDone, LoopEnd
  <2> QED
    BY <1>10, <2>1
<1>24. CASE Gui \/ RadioClose \/ UNCHANGED vars
  <2>1. UNCHANGED <<net, stream, staged>>
    BY <1>24 DEF Gui, RadioClose, vars, Stop, SwitchMode, SwitchStop, SwitchHead,
                 SwitchCount, SwitchSubscribe, SwitchFreed
  <2> QED
    BY <1>10, <2>1
<1> QED
  BY <1>11, <1>12, <1>13, <1>14, <1>15, <1>16, <1>17, <1>18, <1>19, <1>20, <1>21, <1>22,
     <1>23, <1>24 DEF Next, Detection, Radio

LEMMA ArrivingIs ==
  ASSUME Types
  PROVE  /\ Arriving \in Seq(Unit) /\ Arriving = staged \o (stream \o net)
         /\ Len(Arriving) = Len(staged) + Len(stream) + Len(net)
         /\ \A i \in 1 .. Len(staged) : i \in 1 .. Len(Arriving) /\ Arriving[i] = staged[i]
         /\ \A i \in 1 .. Len(stream) : Arriving[Len(staged) + i] = stream[i]
         /\ \A i \in 1 .. Len(net) : Arriving[Len(staged) + Len(stream) + i] = net[i]
<1>1. staged \in Seq(Unit) /\ stream \in Seq(Unit) /\ net \in Seq(Unit)
  BY DEF Types
<1>2. Arriving = staged \o (stream \o net)
  BY <1>1, ConcatAssociative DEF Arriving
<1>3. stream \o net \in Seq(Unit)
  BY <1>1, ConcatProperties
<1>4. Arriving \in Seq(Unit)
  BY <1>1, <1>2, <1>3, ConcatProperties
<1>5. /\ Len(staged) \in Nat /\ Len(stream) \in Nat /\ Len(net) \in Nat
      /\ Len(staged \o (stream \o net)) = Len(staged) + Len(stream) + Len(net)
  BY <1>1, JoinedThree
<1>6. /\ \A i \in 1 .. Len(staged) : (staged \o (stream \o net))[i] = staged[i]
      /\ \A i \in 1 .. Len(stream) : (staged \o (stream \o net))[Len(staged) + i] = stream[i]
      /\ \A i \in 1 .. Len(net) :
            (staged \o (stream \o net))[Len(staged) + Len(stream) + i] = net[i]
  BY <1>1, JoinedThree
<1>7. \A i \in 1 .. Len(staged) : i \in 1 .. Len(Arriving)
  BY <1>2, <1>5
<1> QED
  BY <1>2, <1>4, <1>5, <1>6, <1>7

\* A whole frame at the front of the staged units holds samples.
LEMMA StagedFrame ==
  ASSUME Types, Framed(Arriving), FrameFirst(staged)
  PROVE  /\ FrameLen + 1 \in 1 .. Len(staged)
         /\ \A i \in 1 .. FrameLen : /\ i + 1 \in 1 .. Len(staged)
                                     /\ staged[i + 1].k = "smp"
                                     /\ staged[i + 1].v \in Values
<1> DEFINE w == Arriving
<1>1. /\ \A i \in 1 .. Len(staged) : i \in 1 .. Len(w) /\ w[i] = staged[i]
      /\ Len(staged) \in Nat /\ \A i \in 1 .. Len(staged) : staged[i] \in Unit
  BY ArrivingIs DEF Types
<1> HIDE DEF w
<1>2. FrameLen \in Nat \ {0} /\ Len(staged) >= FrameLen + 1 /\ staged[1].k = "hdr"
  BY TciAssumption DEF FrameFirst
<1>3. ASSUME NEW i \in 1 .. FrameLen
      PROVE  i + 1 \in 1 .. Len(staged) /\ staged[i + 1].k = "smp"
  <2>1. i + 1 \in 1 .. Len(staged) /\ 1 \in 1 .. Len(staged)
    BY <1>1, <1>2
  <2>2. w[1].k = "hdr" /\ 1 \in 1 .. Len(w) /\ i + 1 = 1 + i /\ 1 + i <= Len(w)
    BY <1>1, <1>2, <2>1
  <2>3. w[1 + i].k = "smp"
    BY <2>2 DEF Framed, w
  <2> QED
    BY <1>1, <2>1, <2>2, <2>3
<1>4. ASSUME NEW i \in 1 .. FrameLen PROVE staged[i + 1].v \in Values
  BY <1>1, <1>3, UnitFacts
<1> QED
  BY <1>1, <1>2, <1>3, <1>4

\* Values taken, put and handed on.
LEMMA ValuesStep ==
  ASSUME Types, Counts, Framed(Arriving), [Next]_vars
  PROVE  /\ todo' \in Seq(Values) /\ out' \in Seq(Values)
         /\ ring' \in [0 .. RingSize - 1 -> Values] /\ head' \in 0 .. RingSize - 1
<1> USE DEF wire, conn, buffers, rings, loop, loopRest, gui
<1>1. /\ todo \in Seq(Values) /\ out \in Seq(Values)
      /\ ring \in [0 .. RingSize - 1 -> Values] /\ head \in 0 .. RingSize - 1
  BY DEF Types
<1>2. RingSize \in Nat \ {0}
  BY TciAssumption
<1>3. \A i \in Int : i % RingSize \in 0 .. RingSize - 1
  BY <1>2
<1>4. CASE TakeFrame
  <2>1. /\ todo' = [i \in 1 .. FrameLen |-> staged[i + 1].v]
        /\ UNCHANGED <<out, ring, head>> /\ FrameFirst(staged)
    BY <1>4 DEF TakeFrame
  <2>2. FrameLen \in Nat
    BY TciAssumption
  <2>3. \A i \in 1 .. FrameLen : staged[i + 1].v \in Values
    BY <2>1, StagedFrame
  <2>4. todo' \in Seq(Values)
    BY <2>1, <2>2, <2>3
  <2> QED
    BY <1>1, <2>1, <2>4
<1>5. CASE TakeRaw
  <2>1. /\ todo' = [i \in DOMAIN staged |-> IF staged[i].k = "smp" THEN staged[i].v ELSE 0]
        /\ UNCHANGED <<out, ring, head>>
    BY <1>5 DEF TakeRaw
  <2>2. /\ DOMAIN staged = 1 .. Len(staged) /\ Len(staged) \in Nat
        /\ \A i \in 1 .. Len(staged) : staged[i] \in Unit
    BY DEF Types
  <2>3. \A i \in 1 .. Len(staged) :
           (IF staged[i].k = "smp" THEN staged[i].v ELSE 0) \in Values
    BY <2>2, UnitFacts, ValuesNat
  <2>4. todo' \in Seq(Values)
    BY <2>1, <2>2, <2>3
  <2> QED
    BY <1>1, <2>1, <2>4
<1>6. CASE Push
  <2>1. /\ todo # << >> /\ todo' = Tail(todo) /\ out' = out
        /\ ring' = [ring EXCEPT ![head] = todo[1]]
        /\ head' = (head + 1) % RingSize
    BY <1>6 DEF Push
  <2>2. todo[1] \in Values /\ todo' \in Seq(Values)
    BY <1>1, <2>1
  <2>3. head' \in 0 .. RingSize - 1
    BY <1>1, <1>3, <2>1
  <2> QED
    BY <1>1, <2>1, <2>2, <2>3
<1>7. CASE Get
  <2> DEFINE n == IF Wanted > count THEN count ELSE Wanted
             g(i) == ring[(tail + i - 1) % RingSize]
  <2>1. out' = out \o [i \in 1 .. n |-> g(i)] /\ UNCHANGED <<todo, ring, head>>
    BY <1>7 DEF Get
  <2>2. n \in Int
    BY TciAssumption DEF Counts, Wanted
  <2>3. tail \in Int
    BY <1>1, <1>2, <1>3 DEF tail, Counts
  <2>4. ASSUME NEW i \in 1 .. n PROVE g(i) \in Values
    <3>1. tail + i - 1 \in Int
      BY <2>2, <2>3
    <3>2. (tail + i - 1) % RingSize \in 0 .. RingSize - 1
      BY <1>3, <3>1
    <3> QED
      BY <1>1, <3>2
  <2> HIDE DEF n, g
  <2>5. [i \in 1 .. n |-> g(i)] \in Seq(Values)
    <3>1. CASE n >= 0
      BY <2>2, <2>4, <3>1
    <3>2. CASE n < 0
      <4>1. 1 .. n = {}
        BY <2>2, <3>2
      <4>2. [i \in 1 .. n |-> g(i)] = [i \in 1 .. 0 |-> g(i)]
        BY <4>1
      <4>3. [i \in 1 .. 0 |-> g(i)] \in Seq(Values)
        OBVIOUS
      <4> QED
        BY <4>2, <4>3
    <3> QED
      BY <2>2, <3>1, <3>2
  <2> QED
    BY <1>1, <2>1, <2>5, ConcatProperties
<1>8. CASE SwitchHead
  <2>1. UNCHANGED <<todo, out, ring>> /\ head' \in {0, head}
    BY <1>8 DEF SwitchHead
  <2> QED
    BY <1>1, <1>2, <2>1
<1>9. CASE UNCHANGED <<todo, out, ring, head>>
  BY <1>1, <1>9
<1>10. CASE \/ Probe \/ TcpConnect \/ WsConnect \/ OpenTraining \/ StartStream \/ TcpReceive
            \/ TcpClosed \/ WsReceive \/ WsClosed \/ TrainingRead \/ TrainingEof
            \/ ServiceReturns \/ ParseText \/ ParseFrame \/ ParseStops \/ Read \/ FramesDone
            \/ PushDone \/ GetRelease \/ TakeDone \/ LoopEnd \/ Destroy
  BY <1>9, <1>10 DEF Probe, TcpConnect, WsConnect, OpenTraining, StartStream, TcpReceive,
         TcpClosed, WsReceive, WsClosed, TrainingRead, TrainingEof, ServiceReturns, ParseText,
         ParseFrame, ParseStops, Read, FramesDone, PushDone, GetRelease, TakeDone, LoopEnd,
         Destroy
<1>11. CASE \/ Stop \/ SwitchMode \/ SwitchStop \/ SwitchCount \/ SwitchSubscribe \/ SwitchFreed
            \/ Radio \/ UNCHANGED vars
  BY <1>9, <1>11 DEF Stop, SwitchMode, SwitchStop, SwitchCount, SwitchSubscribe, SwitchFreed,
         Radio, RadioFrame, RadioText, RadioClose, vars
<1> QED
  BY <1>4, <1>5, <1>6, <1>7, <1>8, <1>10, <1>11 DEF Next, Detection, Gui

\* The scalars, and the bound on what a WebSocket stages.
LEMMA ScalarsStep ==
  ASSUME Types, Session, Counts, [Next]_vars
  PROVE  /\ frames' \in 0 .. MaxFrames /\ texts' \in 0 .. 1 /\ chunks' \in 0 .. MaxChunks
         /\ {peer', client', connected', socket', wctx', tctx', eof', audio_only', running'}
                \subseteq BOOLEAN
         /\ got' \in {0, 1}
<1> USE DEF wire, conn, buffers, rings, loop, loopRest, gui
<1>1. /\ MaxFrames \in Nat /\ MaxChunks \in Nat \ {0}
      /\ frames \in 0 .. MaxFrames /\ texts \in 0 .. 1 /\ chunks \in 0 .. MaxChunks
      /\ got \in {0, 1}
  BY TciAssumption DEF Types
<1>2. /\ peer \in BOOLEAN /\ client \in BOOLEAN /\ connected \in BOOLEAN
      /\ socket \in BOOLEAN /\ wctx \in BOOLEAN /\ tctx \in BOOLEAN /\ eof \in BOOLEAN
      /\ audio_only \in BOOLEAN /\ running \in BOOLEAN
  BY DEF Types
<1>3. /\ frames' \in 0 .. MaxFrames /\ texts' \in 0 .. 1 /\ chunks' \in 0 .. MaxChunks
      /\ got' \in {0, 1}
  <2>1. CASE OpenTraining
    <3>1. ASSUME NEW len \in 0 .. MaxFrames * (FrameLen + 1)
          PROVE  len \div (FrameLen + 1) \in 0 .. MaxFrames
      BY FileIs
    <3>2. frames' \in 0 .. MaxFrames
      BY <1>1, <2>1, <3>1 DEF OpenTraining
    <3> QED
      BY <1>1, <2>1, <3>2 DEF OpenTraining
  <2>2. CASE RadioFrame \/ RadioText \/ GetRelease \/ LoopEnd
    BY <1>1, <2>2, SMTT(40) DEF RadioFrame, RadioText, GetRelease, LoopEnd, Counts
  <2>3. CASE \/ Probe \/ TcpConnect \/ WsConnect \/ StartStream \/ TcpReceive
             \/ TcpClosed \/ WsReceive \/ WsClosed \/ TrainingRead \/ TrainingEof
             \/ ServiceReturns \/ ParseText \/ ParseFrame \/ ParseStops \/ Read \/ FramesDone
             \/ TakeFrame \/ TakeRaw \/ Push \/ PushDone \/ Get \/ TakeDone \/ Destroy
    <3>1. UNCHANGED <<frames, texts, chunks>> /\ (UNCHANGED got \/ got' \in {0, 1})
      BY <2>3 DEF Probe, TcpConnect, WsConnect, StartStream, TcpReceive,
         TcpClosed, WsReceive, WsClosed, TrainingRead, TrainingEof, ServiceReturns, ParseText,
         ParseFrame, ParseStops, Read, FramesDone, TakeFrame, TakeRaw, Push, PushDone, Get,
         TakeDone, Destroy
    <3> QED
      BY <1>1, <3>1
  <2>4. CASE Gui \/ RadioClose \/ UNCHANGED vars
    <3>1. UNCHANGED <<frames, texts, chunks, got>>
      BY <2>4 DEF Gui, Stop, SwitchMode, SwitchStop, SwitchHead, SwitchCount,
         SwitchSubscribe, SwitchFreed, RadioClose, vars
    <3> QED
      BY <1>1, <3>1
  <2> QED
    BY <2>1, <2>2, <2>3, <2>4 DEF Next, Detection, Radio
<1>4. /\ peer' \in BOOLEAN /\ client' \in BOOLEAN /\ connected' \in BOOLEAN
      /\ socket' \in BOOLEAN /\ wctx' \in BOOLEAN /\ tctx' \in BOOLEAN /\ eof' \in BOOLEAN
      /\ audio_only' \in BOOLEAN /\ running' \in BOOLEAN
  <2>1. CASE Probe \/ TcpClosed \/ WsClosed \/ TrainingEof
    BY <1>2, <2>1, ZenonT(60) DEF Probe, TcpClosed, WsClosed, TrainingEof
  <2>10. CASE Destroy
    BY <1>2, <2>10 DEF Destroy
  <2>11. CASE Stop \/ RadioClose
    BY <1>2, <2>11 DEF Stop, RadioClose
  <2>12. CASE SwitchStop
    <3>1. connected' = connected \/ connected' = FALSE
      BY <2>12 DEF SwitchStop
    <3> QED
      BY <1>2, <2>12, <3>1 DEF SwitchStop
  <2>7. CASE OpenTraining
    BY <1>2, <2>7 DEF OpenTraining
  <2>8. CASE TcpConnect
    <3>1. PICK ok \in BOOLEAN : tctx' = ok /\ socket' = ok /\ connected' = ok
      BY <2>8 DEF TcpConnect
    <3> QED
      BY <1>2, <2>8, <3>1 DEF TcpConnect
  <2>9. CASE WsConnect
    <3>1. PICK ok \in BOOLEAN : wctx' = ok /\ connected' = ok
      BY <2>9 DEF WsConnect
    <3> QED
      BY <1>2, <2>9, <3>1 DEF WsConnect
  <2>4. CASE StartStream
    <3>1. (pref = "audio") \in BOOLEAN
      OBVIOUS
    <3>2. audio_only' \in BOOLEAN
      BY <2>4, <3>1 DEF StartStream, Subscribe
    <3>3. connected' \in BOOLEAN
      BY <1>2, <2>4 DEF StartStream, Subscribe
    <3> QED
      BY <1>2, <2>4, <3>2, <3>3 DEF StartStream
  <2>5. CASE SwitchSubscribe
    <3>1. (pref = "audio") \in BOOLEAN
      OBVIOUS
    <3>2. audio_only' \in BOOLEAN
      BY <1>2, <2>5, <3>1 DEF SwitchSubscribe, Subscribe
    <3>3. connected' \in BOOLEAN
      BY <1>2, <2>5 DEF SwitchSubscribe, Subscribe
    <3> QED
      BY <1>2, <2>5, <3>2, <3>3 DEF SwitchSubscribe
  <2>6. CASE TakeFrame
    <3>1. audio_only' \in BOOLEAN
      BY <2>6 DEF TakeFrame
    <3> QED
      BY <1>2, <2>6, <3>1 DEF TakeFrame
  <2>2. CASE \/ TcpReceive \/ WsReceive \/ TrainingRead \/ ServiceReturns \/ ParseText
             \/ ParseFrame \/ ParseStops \/ Read \/ FramesDone \/ TakeRaw \/ Push \/ PushDone
             \/ Get \/ GetRelease \/ TakeDone \/ LoopEnd
    BY <1>2, <2>2 DEF TcpReceive, WsReceive, TrainingRead, ServiceReturns, ParseText,
       ParseFrame, ParseStops, Read, FramesDone, TakeRaw, Push, PushDone, Get, GetRelease,
       TakeDone, LoopEnd
  <2>3. CASE \/ SwitchMode \/ SwitchHead \/ SwitchCount \/ SwitchFreed \/ RadioFrame
             \/ RadioText \/ UNCHANGED vars
    BY <1>2, <2>3 DEF SwitchMode, SwitchHead, SwitchCount, SwitchFreed, RadioFrame,
       RadioText, vars
  <2> QED
    BY <2>1, <2>2, <2>3, <2>4, <2>5, <2>6, <2>7, <2>8, <2>9, <2>10, <2>11, <2>12
       DEF Next, Detection, Gui, Radio
<1> QED
  BY <1>3, <1>4

LEMMA StagedBound ==
  ASSUME Types, Session, Wire, [Next]_vars, transport' = "ws"
  PROVE  Len(staged') <= StageMax /\ stream' = << >>
<1> USE DEF wire, conn, buffers, rings, loop, loopRest, gui
<1>1. staged \in Seq(Unit) /\ stream \in Seq(Unit) /\ net \in Seq(Unit) /\ StageMax \in Nat
  BY TciAssumption DEF Types
<1>2. Len(<< >>) <= StageMax
  BY <1>1
<1>3. CASE Probe
  <2>1. UNCHANGED <<staged, stream>> /\ dpc \in {"start", "open"}
    BY <1>3 DEF Probe
  <2>2. Len(staged) + Len(stream) + Len(net) = 0
    BY <2>1, ArrivingIs DEF Wire
  <2>3. staged = << >> /\ stream = << >>
    BY <1>1, <2>2
  <2> QED
    BY <1>2, <2>1, <2>3
<1>4. CASE ~Probe
  <2>1. transport = "ws"
    <3>1. transport' = transport
      BY <1>4 DEF Next, Detection, Gui, Radio, vars,
         TcpConnect, WsConnect, OpenTraining, StartStream, TcpReceive, TcpClosed, WsReceive,
         WsClosed, TrainingRead, TrainingEof, ServiceReturns, ParseText, ParseFrame,
         ParseStops, Read, TakeFrame, TakeRaw, FramesDone, Push, PushDone, Get, GetRelease,
         TakeDone, LoopEnd, Destroy, Stop, SwitchMode, SwitchStop, SwitchHead, SwitchCount,
         SwitchSubscribe, SwitchFreed, RadioFrame, RadioText, RadioClose
    <3> QED
      BY <3>1
  <2>2. Len(staged) <= StageMax /\ stream = << >>
    BY <2>1 DEF Types
  <2>3. CASE WsReceive
    <3>1. stream' = stream
      BY <2>3 DEF WsReceive
    <3>2. CASE staged' = staged
      BY <2>2, <3>1, <3>2
    <3>3. CASE \E n \in 1 .. Len(net) : staged' = StageWs(SubSeq(net, 1, n))
      <4>1. PICK n \in 1 .. Len(net) : staged' = StageWs(SubSeq(net, 1, n))
        BY <3>3
      <4>2. n \in Nat /\ n <= Len(net)
        BY <1>1
      <4>3. SubSeq(net, 1, n) \in Seq(Unit)
        BY <1>1, <4>2, PartAndRest
      <4> DEFINE piece == SubSeq(net, 1, n)
      <4> HIDE DEF piece
      <4>4. Len(StageWs(piece)) <= StageMax
        BY <1>1, <1>2, <4>3, Joined DEF StageWs, piece
      <4> QED
        BY <2>2, <3>1, <4>1, <4>4 DEF piece
    <3> QED
      BY <2>3, <3>2, <3>3 DEF WsReceive
  <2>4. CASE TakeFrame
    <3>1. staged' = SubSeq(staged, FrameLen + 2, Len(staged)) /\ stream' = stream
      BY <2>4 DEF TakeFrame
    <3>2. FrameLen + 1 \in 0 .. Len(staged) /\ FrameLen + 2 = (FrameLen + 1) + 1
      BY <1>1, <2>4, TciAssumption DEF TakeFrame, FrameFirst
    <3>3. Len(staged') = Len(staged) - (FrameLen + 1)
      BY <1>1, <3>1, <3>2, Cut
    <3> QED
      BY <1>1, <2>2, <3>1, <3>2, <3>3
  <2>5. CASE TakeRaw \/ Destroy
    BY <1>2, <2>2, <2>5 DEF TakeRaw, Destroy
  <2>6. CASE ParseText \/ ParseFrame
    BY <1>1, <2>2, <2>6, TciAssumption DEF ParseText, ParseFrame, FrameFirst
  <2>7. CASE UNCHANGED <<staged, stream>>
    BY <2>2, <2>7
  <2>8. CASE \/ TcpConnect \/ WsConnect \/ OpenTraining \/ StartStream
             \/ TcpReceive \/ TcpClosed \/ WsClosed \/ TrainingRead \/ TrainingEof
             \/ ServiceReturns \/ ParseStops \/ Read \/ FramesDone
             \/ Push \/ PushDone \/ Get \/ GetRelease \/ TakeDone \/ LoopEnd
    BY <2>1, <2>7, <2>8 DEF TcpConnect, WsConnect, OpenTraining, StartStream, TcpReceive,
         TcpClosed, WsClosed, TrainingRead, TrainingEof, ServiceReturns, ParseStops, Read,
         FramesDone, Push, PushDone, Get, GetRelease, TakeDone, LoopEnd
  <2>9. CASE Gui \/ Radio \/ UNCHANGED vars
    BY <2>7, <2>9 DEF Gui, Radio, vars, Stop, SwitchMode, SwitchStop, SwitchHead, SwitchCount,
         SwitchSubscribe, SwitchFreed, RadioFrame, RadioText, RadioClose
  <2> QED
    BY <1>4, <2>3, <2>4, <2>5, <2>6, <2>8, <2>9 DEF Next, Detection
<1> QED
  BY <1>3, <1>4

LEMMA TypesStep ==
  ASSUME Types, Session, Counts, Wire, [Next]_vars PROVE Types'
<1>1. Framed(Arriving)
  BY DEF Wire
<1>2. /\ net' \in Seq(Unit) /\ stream' \in Seq(Unit) /\ staged' \in Seq(Unit)
      /\ todo' \in Seq(Values) /\ out' \in Seq(Values)
      /\ ring' \in [0 .. RingSize - 1 -> Values] /\ head' \in 0 .. RingSize - 1
  BY <1>1, UnitsStep, ValuesStep
<1>3. transport' = "ws" => Len(staged') <= StageMax /\ stream' = << >>
  BY StagedBound
<1> QED
  BY <1>2, <1>3, ScalarsStep DEF Types

\* The ring counts, and what the loop has taken of it.
LEMMA CountsStep ==
  ASSUME Types, Session, Counts, [Next]_vars PROVE Counts'
<1> USE DEF Counts, wire, conn, buffers, rings, loop, loopRest, gui, Det
<1>1. Need \in Nat \ {0} /\ RingSize \in Nat \ {0} /\ MaxChunks \in Nat \ {0}
  BY TciAssumption
<1>2. switches \in Nat /\ (gpc # "idle" => switches > 0)
  BY TciAssumption DEF Session
<1>3. CASE Push
  BY <1>1, <1>3 DEF Push
<1>4. CASE Get
  BY <1>1, <1>4 DEF Get, Wanted
<1>5. CASE GetRelease
  BY <1>1, <1>5 DEF GetRelease
<1>6. CASE FramesDone \/ Read \/ LoopEnd
  BY <1>1, <1>6 DEF FramesDone, Read, LoopEnd
<1>7. CASE TakeFrame \/ TakeRaw \/ PushDone
  BY <1>1, <1>7 DEF TakeFrame, TakeRaw, PushDone
<1>8. CASE \/ UNCHANGED <<count, need, avail, dpc, todo, switches, chunks>>
           \/ /\ UNCHANGED <<count, need, avail, todo, switches, chunks>>
              /\ dpc \notin {"taken", "push"} /\ dpc' \notin {"taken", "push"}
  BY <1>8
<1>9. CASE \/ Probe \/ TcpConnect \/ WsConnect \/ OpenTraining \/ StartStream \/ TcpReceive
           \/ TcpClosed \/ WsReceive \/ WsClosed \/ TrainingRead \/ TrainingEof
           \/ ServiceReturns \/ ParseText \/ ParseFrame \/ ParseStops \/ TakeDone \/ Destroy
  BY <1>8, <1>9 DEF Probe, TcpConnect, WsConnect, OpenTraining, StartStream, TcpReceive,
         TcpClosed, WsReceive, WsClosed, TrainingRead, TrainingEof, ServiceReturns, ParseText,
         ParseFrame, ParseStops, TakeDone, Destroy
<1>10. CASE \/ Stop \/ SwitchStop \/ SwitchHead \/ SwitchSubscribe \/ SwitchFreed \/ Radio
            \/ UNCHANGED vars
  BY <1>8, <1>10 DEF Stop, SwitchStop, SwitchHead, SwitchSubscribe, SwitchFreed, Radio,
         RadioFrame, RadioText, RadioClose, vars
<1>11. CASE SwitchMode
  BY <1>2, <1>11 DEF SwitchMode
<1>12. CASE SwitchCount
  BY <1>1, <1>2, <1>12 DEF SwitchCount
<1> QED
  BY <1>3, <1>4, <1>5, <1>6, <1>7, <1>9, <1>10, <1>11, <1>12 DEF Next, Detection, Gui

LEMMA Regroup ==
  ASSUME NEW a \in Seq(Unit), NEW b \in Seq(Unit), NEW c \in Seq(Unit)
  PROVE  (a \o b) \o c = a \o (b \o c)
BY ConcatAssociative

\* Three sequences, the second of them cut.
LEMMA MoveOn ==
  ASSUME NEW a \in Seq(Unit), NEW b \in Seq(Unit), NEW n \in 0 .. Len(b)
  PROVE  a \o b = (a \o SubSeq(b, 1, n)) \o SubSeq(b, n + 1, Len(b))
<1> DEFINE p == SubSeq(b, 1, n)
           q == SubSeq(b, n + 1, Len(b))
<1>1. p \in Seq(Unit) /\ q \in Seq(Unit)
  BY Cut
<1>2. p \o q = b
  BY Cut
<1> HIDE DEF p, q
<1>3. (a \o p) \o q = a \o (p \o q)
  BY <1>1, ConcatAssociative, SMTT(40)
<1> QED
  BY <1>2, <1>3 DEF p, q

\* Three sequences, the front of the first one taken off.
LEMMA FrontOff ==
  ASSUME NEW a \in Seq(Unit), NEW b \in Seq(Unit), NEW c \in Seq(Unit), NEW n \in 0 .. Len(a)
  PROVE  /\ SubSeq(a, 1, n) \in Seq(Unit)
         /\ (SubSeq(a, n + 1, Len(a)) \o b) \o c \in Seq(Unit)
         /\ (a \o b) \o c = SubSeq(a, 1, n) \o ((SubSeq(a, n + 1, Len(a)) \o b) \o c)
<1> DEFINE p == SubSeq(a, 1, n)
           q == SubSeq(a, n + 1, Len(a))
<1>1. p \in Seq(Unit) /\ q \in Seq(Unit)
  BY Cut
<1>2. p \o q = a
  BY Cut
<1> HIDE DEF p, q
<1>3. q \o b \in Seq(Unit) /\ (q \o b) \o c \in Seq(Unit)
  BY <1>1, ConcatProperties
<1>4. (p \o q) \o b = p \o (q \o b)
  BY <1>1, Regroup, SMTT(40)
<1> DEFINE u == q \o b
<1>5. u \in Seq(Unit)
  BY <1>3
<1> HIDE DEF u
<1>6. (p \o u) \o c = p \o (u \o c)
  BY <1>1, <1>5, Regroup, SMTT(40)
<1> QED
  BY <1>1, <1>2, <1>3, <1>4, <1>6 DEF p, q, u

\* What a step does to the units that have arrived.
LEMMA SuffixKept ==
  ASSUME NEW a \in Seq(Unit), NEW b \in Seq(Unit), NEW w, w = a \o b, Framed(w), Upwards(w)
  PROVE  Keeps(w, b)
<1>1. /\ \A i \in 1 .. Len(b) : Len(a) + i \in 1 .. Len(w) /\ w[Len(a) + i] = b[i]
  BY Joined
<1>2. NoText(w) => NoText(b)
  BY <1>1 DEF NoText
<1> QED
  BY <1>2, LaterUnits DEF Keeps

LEMMA OneOfTwo == 1 \in 1 .. 2
  OBVIOUS

LEMMA TextTaken ==
  ASSUME NEW a \in Seq(Unit), NEW p \in Seq(Unit), NEW b \in Seq(Unit), NEW w,
         w = a \o (p \o b), Len(p) \in {2}, p[1].k = "txt", Framed(w), Upwards(w)
  PROVE  Keeps(w, a \o b)
<1>1. ~NoText(w)
  <2>1. /\ Len(a) \in Nat /\ Len(w) = Len(a) + Len(p) + Len(b) /\ Len(b) \in Nat
        /\ \A i \in 1 .. Len(p) : w[Len(a) + i] = p[i]
    BY JoinedThree
  <2>3. w[Len(a) + 1] = p[1]
    <3>1. Len(p) = 2
      BY Zenon
    <3>2. 1 \in 1 .. Len(p)
      BY <3>1, OneOfTwo, Zenon
    <3> QED
      BY <2>1, <3>2, Zenon
  <2>2. w[Len(a) + 1].k = "txt" /\ Len(a) + 1 \in 1 .. Len(w)
    BY <2>1, <2>3
  <2> QED
    BY <2>2 DEF NoText
<1> QED
  BY <1>1, WithoutText DEF Keeps

LEMMA SameKept ==
  ASSUME NEW w, Framed(w), Upwards(w)
  PROVE  Keeps(w, w)
BY DEF Keeps

\* A text on its way is followed by its end.
LEMMA TextIsPair ==
  ASSUME Types, Wire, NEW a \in Seq(Unit), NEW b \in Seq(Unit), Arriving = a \o b,
         b # << >>, b[1].k = "txt"
  PROVE  2 <= Len(b)
<1> DEFINE w == Arriving
           n == Len(a) + 1
<1>1. /\ Len(a) \in Nat /\ Len(b) \in Nat \ {0} /\ Len(w) = Len(a) + Len(b)
      /\ \A i \in 1 .. Len(b) : Len(a) + i \in 1 .. Len(w) /\ w[Len(a) + i] = b[i]
  BY Joined
<1>2. Framed(w)
  BY DEF Wire
<1> HIDE DEF w
<1>3. n \in 1 .. Len(w) /\ w[n].k = "txt"
  BY <1>1
<1> HIDE DEF n
<1>4. n + 1 <= Len(w)
  BY <1>2, <1>3 DEF Framed
<1> QED
  BY <1>1, <1>4 DEF n

LEMMA Moved ==
  ASSUME Types, Wire, TcpReceive \/ TrainingRead \/ ParseFrame
  PROVE  Arriving' = Arriving
<1> USE DEF wire, conn, buffers, rings, loop, loopRest, gui
<1>1. /\ staged \in Seq(Unit) /\ stream \in Seq(Unit) /\ net \in Seq(Unit)
      /\ staged \o stream \in Seq(Unit)
  BY ConcatProperties DEF Types
<1>2. FrameLen \in Nat \ {0} /\ RecvMax \in Nat \ {0} /\ Len(net) \in Nat /\ Len(stream) \in Nat
  BY <1>1, TciAssumption
<1>3. CASE TcpReceive \/ TrainingRead
  <2>1. \E n \in 0 .. Len(net) : /\ stream' = stream \o SubSeq(net, 1, n)
                                 /\ net' = SubSeq(net, n + 1, Len(net))
    <3>1. CASE TcpReceive
      <4>1. PICK n \in 1 .. RecvMax : /\ n <= Len(net)
                                      /\ stream' = stream \o SubSeq(net, 1, n)
                                      /\ net' = SubSeq(net, n + 1, Len(net))
        BY <3>1 DEF TcpReceive
      <4>2. n \in 0 .. Len(net)
        BY <1>2, <4>1
      <4> QED
        BY <4>1, <4>2
    <3>2. CASE TrainingRead
      <4> DEFINE n == IF Len(net) < RecvMax THEN Len(net) ELSE RecvMax
      <4>1. n \in 0 .. Len(net)
        BY <1>2
      <4>2. /\ stream' = stream \o SubSeq(net, 1, n)
            /\ net' = SubSeq(net, n + 1, Len(net))
        BY <3>2 DEF TrainingRead
      <4> HIDE DEF n
      <4> QED
        BY <4>1, <4>2
    <3> QED
      BY <1>3, <3>1, <3>2
  <2>2. PICK n \in 0 .. Len(net) : /\ stream' = stream \o SubSeq(net, 1, n)
                                   /\ net' = SubSeq(net, n + 1, Len(net))
    BY <2>1
  <2>3. staged' = staged
    BY <1>3 DEF TcpReceive, TrainingRead
  <2> DEFINE p == SubSeq(net, 1, n)
             q == SubSeq(net, n + 1, Len(net))
  <2>4. p \in Seq(Unit) /\ q \in Seq(Unit)
    BY <1>1, Cut
  <2>5. (staged \o stream) \o net = ((staged \o stream) \o p) \o q
    BY <1>1, MoveOn
  <2> HIDE DEF p, q
  <2>6. (staged \o stream) \o p = staged \o (stream \o p)
    BY <1>1, <2>4, ConcatAssociative, SMTT(40)
  <2>7. stream' = stream \o p /\ net' = q
    BY <2>2 DEF p, q
  <2> QED
    BY <2>3, <2>5, <2>6, <2>7 DEF Arriving
<1>4. CASE ParseFrame
  <2> DEFINE n == FrameLen + 1
             p == SubSeq(stream, 1, n)
             q == SubSeq(stream, n + 1, Len(stream))
  <2>1. n \in 0 .. Len(stream) /\ n + 1 = FrameLen + 2
    BY <1>2, <1>4, SMTT(40) DEF ParseFrame, FrameFirst
  <2>2. staged' = staged \o p /\ stream' = q /\ net' = net
    BY <1>4, <2>1 DEF ParseFrame
  <2> HIDE DEF n
  <2>3. staged \o stream = (staged \o p) \o q
    BY <1>1, <2>1, MoveOn
  <2> QED
    BY <2>2, <2>3 DEF Arriving
<1> QED
  BY <1>3, <1>4

\* A frame, or what was staged, is taken from the front.
LEMMA TakenOff ==
  ASSUME Types, TakeFrame \/ TakeRaw
  PROVE  \E n \in 0 .. Len(staged) :
            /\ n = IF TakeFrame THEN FrameLen + 1 ELSE Len(staged)
            /\ SubSeq(staged, 1, n) \in Seq(Unit) /\ Arriving' \in Seq(Unit)
            /\ Arriving = SubSeq(staged, 1, n) \o Arriving'
<1> USE DEF wire, conn, buffers, rings, loop, loopRest, gui
<1>1. staged \in Seq(Unit) /\ stream \in Seq(Unit) /\ net \in Seq(Unit)
  BY DEF Types
<1>2. FrameLen \in Nat \ {0} /\ Len(staged) \in Nat
  BY <1>1, TciAssumption
<1> DEFINE n == IF TakeFrame THEN FrameLen + 1 ELSE Len(staged)
           p == SubSeq(staged, 1, n)
           q == SubSeq(staged, n + 1, Len(staged))
<1>3. n \in 0 .. Len(staged)
  BY <1>2 DEF TakeFrame, FrameFirst
<1>4. staged' = q /\ stream' = stream /\ net' = net
  <2>1. CASE TakeFrame
    <3>1. n = FrameLen + 1 /\ n + 1 = FrameLen + 2
      BY <1>2, <2>1
    <3> QED
      BY <2>1, <3>1 DEF TakeFrame
  <2>2. CASE TakeRaw /\ ~TakeFrame
    <3>1. n = Len(staged)
      BY <2>2
    <3>2. q = << >>
      <4>1. n + 1 \in Int /\ Len(staged) \in Int /\ Len(staged) < n + 1
        BY <1>2, <3>1
      <4> HIDE DEF n
      <4> QED
        BY <4>1, SubSeqEmpty
    <3> QED
      BY <2>2, <3>2 DEF TakeRaw
  <2> QED
    BY <2>1, <2>2
<1> HIDE DEF n
<1>5. p \in Seq(Unit) /\ (q \o stream) \o net \in Seq(Unit)
  BY <1>1, <1>3, FrontOff
<1>6. (staged \o stream) \o net = p \o ((q \o stream) \o net)
  BY <1>1, <1>3, FrontOff, ZenonT(60)
<1> HIDE DEF p, q
<1>7. Arriving' = (q \o stream) \o net /\ Arriving = (staged \o stream) \o net
  BY <1>4 DEF Arriving
<1> QED
  BY <1>3, <1>5, <1>6, <1>7 DEF n, p

\* Three sequences, the front of the second one taken out.
LEMMA MiddleOff ==
  ASSUME NEW a \in Seq(Unit), NEW b \in Seq(Unit), NEW c \in Seq(Unit), NEW n \in 0 .. Len(b)
  PROVE  /\ SubSeq(b, 1, n) \in Seq(Unit) /\ Len(SubSeq(b, 1, n)) = n
         /\ n > 0 => SubSeq(b, 1, n)[1] = b[1]
         /\ SubSeq(b, n + 1, Len(b)) \o c \in Seq(Unit)
         /\ (a \o b) \o c = a \o (SubSeq(b, 1, n) \o (SubSeq(b, n + 1, Len(b)) \o c))
         /\ (a \o SubSeq(b, n + 1, Len(b))) \o c = a \o (SubSeq(b, n + 1, Len(b)) \o c)
<1> DEFINE p == SubSeq(b, 1, n)
           q == SubSeq(b, n + 1, Len(b))
<1>1. p \in Seq(Unit) /\ q \in Seq(Unit)
  BY Cut
<1>2. p \o q = b
  BY Cut
<1>3. Len(p) = n /\ (n > 0 => p[1] = b[1])
  BY Cut
<1> HIDE DEF p, q
<1>4. q \o c \in Seq(Unit)
  BY <1>1, ConcatProperties
<1>5. (a \o b) \o c = a \o (b \o c)
  BY Regroup
<1>6. (p \o q) \o c = p \o (q \o c)
  BY <1>1, Regroup, SMTT(40)
<1>7. (a \o q) \o c = a \o (q \o c)
  BY <1>1, Regroup, SMTT(40)
<1> QED
  BY <1>1, <1>2, <1>3, <1>4, <1>5, <1>6, <1>7 DEF p, q

\* A step of the client that reads no file loses or takes units and adds none.
LEMMA KeptStep ==
  ASSUME Types, Wire, [Next]_vars, ~OpenTraining, ~TrainingEof, ~RadioFrame, ~RadioText
  PROVE  Keeps(Arriving, Arriving') /\ frames' = frames
<1> USE DEF wire, conn, buffers, rings, loop, loopRest, gui
<1>1. /\ staged \in Seq(Unit) /\ stream \in Seq(Unit) /\ net \in Seq(Unit)
      /\ Len(staged) \in Nat /\ Len(stream) \in Nat /\ Len(net) \in Nat
      /\ Arriving \in Seq(Unit)
  BY ArrivingIs DEF Types
<1>2. Framed(Arriving) /\ Upwards(Arriving)
  BY DEF Wire
<1>3. Keeps(Arriving, Arriving)
  BY <1>2, SameKept
<1>4. CASE TcpReceive \/ TrainingRead \/ ParseFrame
  <2>1. Arriving' = Arriving
    BY <1>4, Moved
  <2>2. frames' = frames
    BY <1>4 DEF TcpReceive, TrainingRead, ParseFrame
  <2> QED
    BY <1>3, <2>1, <2>2
<1>5. CASE TakeFrame \/ TakeRaw
  <2>1. PICK p \in Seq(Unit) : Arriving' \in Seq(Unit) /\ Arriving = p \o Arriving'
    BY <1>5, TakenOff
  <2> DEFINE v == Arriving'
             w == Arriving
  <2>2. v \in Seq(Unit) /\ w = p \o v /\ Framed(w) /\ Upwards(w)
    BY <1>2, <2>1
  <2> HIDE DEF v, w
  <2>3. Keeps(w, v)
    BY <2>2, SuffixKept
  <2>4. frames' = frames
    BY <1>5 DEF TakeFrame, TakeRaw
  <2> QED
    BY <2>3, <2>4 DEF v, w
<1>6. CASE ParseText
  <2> DEFINE p == SubSeq(stream, 1, 2)
             q == SubSeq(stream, 2 + 1, Len(stream))
             u == q \o net
             w == Arriving
  <2>1. /\ stream' = q /\ UNCHANGED <<staged, net, frames>> /\ 2 \in 0 .. Len(stream)
        /\ stream[1].k = "txt"
    BY <1>1, <1>6 DEF ParseText
  <2>2. p \in Seq(Unit) /\ Len(p) = 2 /\ p[1] = stream[1]
    BY <1>1, <2>1, MiddleOff
  <2>3. u \in Seq(Unit) /\ w = staged \o (p \o u)
    BY <1>1, <2>1, MiddleOff, ZenonT(60) DEF Arriving
  <2>4. (staged \o q) \o net = staged \o u
    <3>1. q \in Seq(Unit)
      BY <1>1, <2>1, Cut
    <3> HIDE DEF q
    <3> QED
      BY <1>1, <3>1, Regroup, ZenonT(60)
  <2>5. Arriving' = staged \o u
    BY <2>1, <2>4 DEF Arriving
  <2> HIDE DEF p, q, u, w
  <2>6. Len(p) \in {2} /\ p[1].k = "txt"
    BY <2>1, <2>2
  <2>7. Framed(w) /\ Upwards(w)
    BY <1>2 DEF w
  <2>8. Keeps(w, staged \o u)
    BY <1>1, <2>2, <2>3, <2>6, <2>7, TextTaken
  <2> QED
    BY <2>1, <2>5, <2>8 DEF w
<1>7. CASE WsReceive
  <2>1. /\ stream = << >> /\ UNCHANGED <<stream, frames>> /\ net # << >>
        /\ staged \o stream = staged
    BY <1>1, <1>7, ConcatEmptySeq DEF WsReceive, Types
  <2>2. Arriving = staged \o net
    BY <2>1 DEF Arriving
  <2> DEFINE w == Arriving
  <2>3. CASE net[1].k = "txt"
    <3> DEFINE p == SubSeq(net, 1, 2)
               q == SubSeq(net, 2 + 1, Len(net))
    <3>1. net' = q /\ staged' = staged
      BY <1>7, <2>3 DEF WsReceive
    <3>2. 2 \in 0 .. Len(net)
      BY <1>1, <2>1, <2>2, <2>3, TextIsPair
    <3>3. p \in Seq(Unit) /\ q \in Seq(Unit) /\ Len(p) = 2 /\ p[1] = net[1]
      BY <1>1, <3>2, Cut
    <3>4. p \o q = net
      BY <1>1, <3>2, Cut
    <3>5. Arriving' = staged \o q
      BY <2>1, <3>1 DEF Arriving
    <3> HIDE DEF p, q, w
    <3>6. Len(p) \in {2} /\ p[1].k = "txt"
      BY <2>3, <3>3
    <3>7. Framed(w) /\ Upwards(w) /\ w = staged \o (p \o q)
      BY <1>2, <2>2, <3>4 DEF w
    <3>8. Keeps(w, staged \o q)
      BY <1>1, <3>3, <3>6, <3>7, TextTaken
    <3> QED
      BY <2>1, <3>5, <3>8 DEF w
  <2>4. CASE net[1].k # "txt"
    <3>1. PICK n \in 1 .. Len(net) : /\ staged' = StageWs(SubSeq(net, 1, n))
                                     /\ net' = SubSeq(net, n + 1, Len(net))
      BY <1>7, <2>4 DEF WsReceive
    <3> DEFINE p == SubSeq(net, 1, n)
               q == SubSeq(net, n + 1, Len(net))
    <3>2. n \in 0 .. Len(net)
      BY <1>1
    <3>3. p \in Seq(Unit) /\ q \in Seq(Unit)
      BY <1>1, <3>2, Cut
    <3>4. staged \o net = (staged \o p) \o q
      BY <1>1, <3>2, MoveOn
    <3>5. staged' = StageWs(p) /\ net' = q
      BY <3>1
    <3> HIDE DEF p, q, w
    <3>6. staged \o p \in Seq(Unit)
      BY <1>1, <3>3, ConcatProperties
    <3>7. w = (staged \o p) \o q /\ Framed(w) /\ Upwards(w)
      BY <1>2, <2>2, <3>4 DEF w
    <3>8. CASE staged' = << >>
      <4>1. Arriving' = q
        BY <2>1, <3>3, <3>5, <3>8, ConcatEmptySeq DEF Arriving
      <4>2. Keeps(w, q)
        BY <3>3, <3>6, <3>7, SuffixKept
      <4> QED
        BY <2>1, <4>1, <4>2 DEF w
    <3>9. CASE staged' = staged \o p
      <4>1. (staged \o p) \o << >> = staged \o p
        BY <3>6, ConcatEmptySeq
      <4>2. Arriving' = w
        BY <2>1, <3>5, <3>7, <3>9, <4>1 DEF Arriving
      <4> QED
        BY <1>3, <2>1, <4>2 DEF w
    <3> QED
      BY <3>5, <3>8, <3>9 DEF StageWs
  <2> QED
    BY <2>3, <2>4
<1>8. CASE Destroy
  <2>1. staged' = << >> /\ stream' = << >> /\ net' = << >> /\ frames' = frames
    BY <1>8 DEF Destroy
  <2>2. Arriving' = << >>
    BY <2>1 DEF Arriving
  <2> DEFINE w == Arriving
             v == << >>
  <2>3. v \in Seq(Unit) /\ w = w \o v
    BY <1>1, ConcatEmptySeq
  <2>4. w \in Seq(Unit) /\ Framed(w) /\ Upwards(w)
    BY <1>1, <1>2
  <2> HIDE DEF w, v
  <2>5. Keeps(w, v)
    BY <2>3, <2>4, SuffixKept
  <2> QED
    BY <2>1, <2>2, <2>5 DEF w, v
<1>9. CASE UNCHANGED <<net, stream, staged, frames>>
  <2>1. Arriving' = Arriving
    BY <1>9 DEF Arriving
  <2> QED
    BY <1>3, <1>9, <2>1
<1>10. CASE \/ Probe \/ TcpConnect \/ WsConnect \/ StartStream \/ TcpClosed \/ WsClosed
            \/ ServiceReturns \/ ParseStops \/ Read \/ FramesDone \/ Push \/ PushDone
            \/ Get \/ GetRelease \/ TakeDone \/ LoopEnd
  BY <1>9, <1>10 DEF Probe, TcpConnect, WsConnect, StartStream, TcpClosed, WsClosed,
     ServiceReturns, ParseStops, Read, FramesDone, Push, PushDone, Get, GetRelease, TakeDone,
     LoopEnd
<1>11. CASE Gui \/ RadioClose \/ UNCHANGED vars
  BY <1>9, <1>11 DEF Gui, RadioClose, vars, Stop, SwitchMode, SwitchStop, SwitchHead,
     SwitchCount, SwitchSubscribe, SwitchFreed
<1> QED
  BY <1>4, <1>5, <1>6, <1>7, <1>8, <1>10, <1>11 DEF Next, Detection, Radio

\* The radio adds a frame, or a text.
LEMMA FrameArrives ==
  ASSUME Types, Session, RadioFrame
  PROVE  \E m \in Modes : /\ Frame(frames + 1, m) \in Seq(Unit)
                          /\ Arriving' = Arriving \o Frame(frames + 1, m)
                          /\ frames \in Nat /\ frames < MaxFrames /\ frames' = frames + 1
<1> USE DEF wire, conn, buffers, rings, loop, loopRest, gui
<1>1. PICK m \in radio : net' = net \o Frame(frames + 1, m)
  BY DEF RadioFrame
<1>2. /\ m \in Modes /\ frames \in Nat /\ frames < MaxFrames /\ frames' = frames + 1
      /\ UNCHANGED <<staged, stream>>
  BY DEF RadioFrame, Session, Types
<1> DEFINE f == Frame(frames + 1, m)
<1>3. f \in Seq(Unit)
  BY <1>2, FrameIs
<1> HIDE DEF f
<1>4. staged \o stream \in Seq(Unit) /\ net \in Seq(Unit)
  BY ConcatProperties DEF Types
<1>5. ((staged \o stream) \o net) \o f = (staged \o stream) \o (net \o f)
  BY <1>3, <1>4, Regroup
<1> QED
  BY <1>1, <1>2, <1>3, <1>5 DEF Arriving, f

LEMMA TextArrives ==
  ASSUME Types, RadioText
  PROVE  /\ \E n \in 0 .. 1 : Arriving' = Arriving \o <<Txt(n), Semi>>
         /\ frames' = frames
<1> USE DEF wire, conn, buffers, rings, loop, loopRest, gui
<1>1. PICK n \in {0, texts + 1} : net' = net \o <<Txt(n), Semi>>
  BY DEF RadioText
<1>2. n \in 0 .. 1 /\ UNCHANGED <<staged, stream, frames>>
  BY DEF RadioText, Types
<1> DEFINE f == <<Txt(n), Semi>>
<1>3. f \in Seq(Unit)
  BY <1>2, UnitFacts
<1> HIDE DEF f
<1>4. staged \o stream \in Seq(Unit) /\ net \in Seq(Unit)
  BY ConcatProperties DEF Types
<1>5. ((staged \o stream) \o net) \o f = (staged \o stream) \o (net \o f)
  BY <1>3, <1>4, Regroup
<1> QED
  BY <1>1, <1>2, <1>5 DEF Arriving, f

\* A file is opened when nothing has arrived, and dropped at its end.
LEMMA FileArrives ==
  ASSUME Types, Wire, OpenTraining
  PROVE  \/ Arriving' = Arriving /\ frames' = frames /\ connected' = connected
         \/ \E len \in 0 .. MaxFrames * (FrameLen + 1) :
               /\ Arriving' = TrainingFile(len) /\ frames' = len \div (FrameLen + 1)
               /\ connected' = TRUE /\ dpc' = "subscribe" /\ eof' = FALSE
               /\ UNCHANGED <<staged, stream>> /\ staged = << >> /\ stream = << >>
<1> USE DEF wire, conn, buffers, rings, loop, loopRest, gui, Det
<1>1. UNCHANGED <<staged, stream>> /\ dpc = "open"
  BY DEF OpenTraining
<1>2. CASE UNCHANGED <<net, frames, connected>>
  BY <1>1, <1>2 DEF Arriving
<1>3. CASE \E len \in 0 .. MaxFrames * (FrameLen + 1) :
               /\ net' = TrainingFile(len) /\ frames' = len \div (FrameLen + 1)
               /\ connected' = TRUE /\ dpc' = "subscribe" /\ eof' = FALSE
  <2>1. PICK len \in 0 .. MaxFrames * (FrameLen + 1) :
               /\ net' = TrainingFile(len) /\ frames' = len \div (FrameLen + 1)
               /\ connected' = TRUE /\ dpc' = "subscribe" /\ eof' = FALSE
    BY <1>3
  <2>2. Len(Arriving) = 0
    BY <1>1 DEF Wire
  <2>3. staged \in Seq(Unit) /\ stream \in Seq(Unit)
    BY DEF Types
  <2>4. Len(staged) + Len(stream) + Len(net) = 0 /\ Len(net) \in Nat
    BY <2>2, ArrivingIs DEF Types
  <2>5. staged = << >> /\ stream = << >>
    BY <2>3, <2>4
  <2> DEFINE f == TrainingFile(len)
  <2>6. f \in Seq(Unit)
    BY FileIs
  <2> HIDE DEF f
  <2>7. (<< >> \o << >>) \o f = f
    BY <2>6, ConcatEmptySeq
  <2>8. Arriving' = f
    BY <1>1, <2>1, <2>5, <2>7 DEF Arriving, f
  <2> QED
    BY <1>1, <2>1, <2>5, <2>8 DEF f
<1> QED
  BY <1>2, <1>3 DEF OpenTraining

LEMMA EndDropped ==
  ASSUME Types, TrainingEof
  PROVE  /\ Arriving = Arriving' \o stream /\ Arriving' = staged /\ staged' = staged
         /\ stream' = << >> /\ net = << >> /\ net' = net /\ frames' = frames
         /\ staged \in Seq(Unit) /\ stream \in Seq(Unit)
<1> USE DEF wire, conn, buffers, rings, loop, loopRest, gui
<1>1. /\ stream' = << >> /\ net = << >> /\ net' = net /\ frames' = frames /\ staged' = staged
      /\ staged \in Seq(Unit) /\ stream \in Seq(Unit)
  BY DEF TrainingEof, Types
<1>2. (staged \o << >>) \o << >> = staged /\ (staged \o stream) \o << >> = staged \o stream
  BY <1>1, ConcatEmptySeq, ConcatProperties
<1> QED
  BY <1>1, <1>2 DEF Arriving

LEMMA WireStep ==
  ASSUME Types, Session, Wire, [Next]_vars PROVE Wire'
<1> USE DEF wire, conn, buffers, rings, loop, loopRest, gui, Det
<1>1. /\ Arriving \in Seq(Unit) /\ Framed(Arriving) /\ Upwards(Arriving)
      /\ transport # "training" => Whole(Arriving) /\ AtMost(frames * FrameLen, Arriving)
      /\ transport = "training" => NoText(Arriving)
      /\ dpc \in {"start", "open"} => Arriving = << >> /\ frames = 0
  BY ArrivingIs DEF Wire
<1>2. CASE OpenTraining
  <2>1. transport = "training" /\ transport' = "training"
    BY <1>2 DEF OpenTraining
  <2>2. dpc' \notin {"start", "open"}
    BY <1>2 DEF OpenTraining
  <2>3. CASE Arriving' = Arriving
    BY <1>1, <2>1, <2>2, <2>3 DEF Wire
  <2>4. CASE \E len \in 0 .. MaxFrames * (FrameLen + 1) : Arriving' = TrainingFile(len)
    <3>1. PICK len \in 0 .. MaxFrames * (FrameLen + 1) : Arriving' = TrainingFile(len)
      BY <2>4
    <3> DEFINE f == TrainingFile(len)
    <3>2. Framed(f) /\ Upwards(f) /\ NoText(f)
      BY FileIs DEF NoText
    <3> HIDE DEF f
    <3>3. Arriving' = f
      BY <3>1 DEF f
    <3> QED
      BY <2>1, <2>2, <3>2, <3>3 DEF Wire
  <2> QED
    BY <1>2, <2>3, <2>4, FileArrives
<1>3. CASE TrainingEof
  <2>1. /\ Arriving = staged \o stream /\ Arriving' = staged
        /\ staged \in Seq(Unit) /\ stream \in Seq(Unit)
    BY <1>3, EndDropped
  <2>2. transport = "training" /\ transport' = "training" /\ dpc' = "read"
    BY <1>3 DEF TrainingEof
  <2>3. NoText(staged)
    <3>1. NoText(staged \o stream)
      BY <1>1, <2>1, <2>2
    <3> QED
      BY <2>1, <3>1, Joined DEF NoText
  <2>4. Framed(staged \o stream) /\ Upwards(staged \o stream)
    BY <1>1, <2>1
  <2>5. Framed(staged) /\ Upwards(staged)
    BY <2>1, <2>3, <2>4, EarlierUnits DEF NoText
  <2> QED
    BY <2>1, <2>2, <2>3, <2>5 DEF Wire
<1>4. CASE RadioFrame
  <2>1. PICK m \in Modes : /\ Arriving' = Arriving \o Frame(frames + 1, m)
                           /\ frames \in Nat /\ frames < MaxFrames /\ frames' = frames + 1
    BY <1>4, FrameArrives
  <2>2. transport # "training" /\ transport' = transport /\ dpc' = dpc /\ connected
    BY <1>4 DEF RadioFrame, Live
  <2>3. dpc \notin {"start", "open"}
    BY <2>2 DEF Session
  <2> DEFINE w == Arriving
             v == w \o Frame(frames + 1, m)
  <2>4. w \in Seq(Unit) /\ Framed(w) /\ Upwards(w) /\ Whole(w) /\ AtMost(frames * FrameLen, w)
    BY <1>1, <2>2
  <2>5. Arriving' = v
    BY <2>1
  <2> HIDE DEF w
  <2>6. Framed(v) /\ Upwards(v) /\ Whole(v) /\ AtMost((frames + 1) * FrameLen, v)
    BY <2>1, <2>4, WithFrame
  <2> HIDE DEF v
  <2> QED
    BY <2>1, <2>2, <2>3, <2>5, <2>6 DEF Wire
<1>5. CASE RadioText
  <2>1. frames' = frames /\ \E n \in 0 .. 1 : Arriving' = Arriving \o <<Txt(n), Semi>>
    BY <1>5, TextArrives
  <2>2. PICK n \in 0 .. 1 : Arriving' = Arriving \o <<Txt(n), Semi>>
    BY <2>1
  <2>3. transport # "training" /\ transport' = transport /\ dpc' = dpc /\ connected
    BY <1>5 DEF RadioText, Live
  <2>4. dpc \notin {"start", "open"}
    BY <2>3 DEF Session
  <2> DEFINE w == Arriving
             v == w \o <<Txt(n), Semi>>
             top == frames * FrameLen
  <2>5. w \in Seq(Unit) /\ Framed(w) /\ Upwards(w) /\ Whole(w) /\ AtMost(top, w)
    BY <1>1, <2>3
  <2>6. Arriving' = v /\ frames' * FrameLen = top
    BY <2>1, <2>2
  <2> HIDE DEF w, top
  <2>7. Framed(v) /\ Upwards(v) /\ Whole(v) /\ AtMost(top, v)
    BY <2>5, WithText
  <2> HIDE DEF v
  <2> QED
    BY <2>3, <2>4, <2>6, <2>7 DEF Wire
<1>6. CASE ~OpenTraining /\ ~TrainingEof /\ ~RadioFrame /\ ~RadioText
  <2> DEFINE w == Arriving
             v == Arriving'
  <2>1. Keeps(w, v) /\ frames' = frames
    BY <1>6, KeptStep
  <2>2. CASE Probe
    <3>1. dpc = "start" /\ UNCHANGED <<net, stream, staged>>
      BY <2>2 DEF Probe
    <3>2. w = << >> /\ frames = 0 /\ v = w
      BY <1>1, <3>1 DEF Arriving
    <3>3. Whole(v) /\ NoText(v) /\ \A n : AtMost(n, v)
      BY <3>2 DEF Whole, NoText, AtMost
    <3> HIDE DEF v, w
    <3> QED
      BY <2>1, <3>2, <3>3 DEF Wire, Keeps, v
  <2>3. CASE ~Probe
    <3>1. transport' = transport
      BY <2>3 DEF Next, Detection, Gui, Radio, vars,
         TcpConnect, WsConnect, OpenTraining, StartStream, TcpReceive, TcpClosed, WsReceive,
         WsClosed, TrainingRead, TrainingEof, ServiceReturns, ParseText, ParseFrame,
         ParseStops, Read, TakeFrame, TakeRaw, FramesDone, Push, PushDone, Get, GetRelease,
         TakeDone, LoopEnd, Destroy, Stop, SwitchMode, SwitchStop, SwitchHead, SwitchCount,
         SwitchSubscribe, SwitchFreed, RadioFrame, RadioText, RadioClose
    <3>2. dpc' \in {"start", "open"} => dpc' = dpc /\ UNCHANGED <<net, stream, staged>>
      BY <1>6, <2>3 DEF Session, Next, Detection, Gui, Radio, vars,
         TcpConnect, WsConnect, OpenTraining, StartStream, TcpReceive, TcpClosed, WsReceive,
         WsClosed, TrainingRead, TrainingEof, ServiceReturns, ParseText, ParseFrame,
         ParseStops, Read, TakeFrame, TakeRaw, FramesDone, Push, PushDone, Get, GetRelease,
         TakeDone, LoopEnd, Destroy, Stop, SwitchMode, SwitchStop, SwitchHead, SwitchCount,
         SwitchSubscribe, SwitchFreed, RadioClose
    <3>3. dpc' \in {"start", "open"} => v = << >> /\ frames' = 0
      <4>1. UNCHANGED <<net, stream, staged>> => v = w
        BY DEF Arriving
      <4> QED
        BY <1>1, <2>1, <3>2, <4>1
    <3>4. /\ Framed(v) /\ Upwards(v)
          /\ transport # "training" => Whole(v) /\ AtMost(frames' * FrameLen, v)
          /\ transport = "training" => NoText(v)
      <4>1. /\ transport # "training" => Whole(w) /\ AtMost(frames' * FrameLen, w)
            /\ transport = "training" => NoText(w)
        BY <1>1, <2>1
      <4> HIDE DEF v, w
      <4> QED
        BY <2>1, <4>1 DEF Keeps
    <3> HIDE DEF v, w
    <3> QED
      BY <3>1, <3>3, <3>4 DEF Wire, v
  <2> QED
    BY <2>2, <2>3
<1> QED
  BY <1>2, <1>3, <1>4, <1>5, <1>6

-------------------------------------------------------------------------------
\* The ring.  Item i of the c last put before slot h is in this slot.
Slot(h, c, i) == LET x == h - c + i - 1 IN IF x < 0 THEN x + RingSize ELSE x

LEMMA Wrapped ==
  ASSUME NEW x \in 0 .. 2 * RingSize - 1
  PROVE  x % RingSize = IF x < RingSize THEN x ELSE x - RingSize
<1>1. RingSize \in Nat \ {0}
  BY TciAssumption
<1>2. CASE x < RingSize
  BY <1>1, <1>2
<1>3. CASE x >= RingSize
  <2> DEFINE m == x % RingSize
             d == x \div RingSize
  <2>1. x \in Nat /\ x < 2 * RingSize
    BY <1>1
  <2>2. m \in 0 .. RingSize - 1
    BY <1>1, <2>1
  <2>3. d \in Int
    BY <1>1, <2>1
  <2>4. x = RingSize * d + m
    BY <1>1, <2>1
  <2> HIDE DEF m, d
  <2>5. d = 1
    <3> DEFINE y == RingSize * d
    <3>1. /\ d <= 0 => y <= 0
          /\ d >= 2 => y >= 2 * RingSize
          /\ y \in Int
      BY <1>1, <2>3
    <3>2. x = y + m
      BY <2>4
    <3> HIDE DEF y
    <3>3. ~(d <= 0) /\ ~(d >= 2)
      BY <1>1, <1>3, <2>1, <2>2, <3>1, <3>2
    <3> QED
      BY <2>3, <3>3
  <2>6. m = x - RingSize
    BY <1>1, <2>1, <2>2, <2>4, <2>5
  <2> QED
    BY <1>1, <1>3, <2>6 DEF m
<1> QED
  BY <1>1, <1>2, <1>3

LEMMA SlotIs ==
  ASSUME NEW h \in 0 .. RingSize - 1, NEW c \in 0 .. RingSize, NEW i \in 1 .. c
  PROVE  /\ (((h - c + RingSize) % RingSize) + i - 1) % RingSize = Slot(h, c, i)
         /\ Slot(h, c, i) \in 0 .. RingSize - 1
<1>1. RingSize \in Nat \ {0}
  BY TciAssumption
<1> DEFINE b == h - c + RingSize
           t == b % RingSize
           x == t + i - 1
<1>2. b \in 0 .. 2 * RingSize - 1
  BY <1>1
<1>3. t = IF b < RingSize THEN b ELSE b - RingSize
  BY <1>2, Wrapped
<1>4. x \in 0 .. 2 * RingSize - 1
  BY <1>1, <1>2, <1>3
<1> HIDE DEF t
<1>5. x % RingSize = IF x < RingSize THEN x ELSE x - RingSize
  BY <1>4, Wrapped
<1>6. x % RingSize = Slot(h, c, i)
  BY <1>1, <1>3, <1>5 DEF Slot
<1>7. Slot(h, c, i) \in 0 .. RingSize - 1
  BY <1>1 DEF Slot
<1> QED
  BY <1>6, <1>7 DEF t

\* Putting one more moves the items by one slot, or by none.
LEMMA SlotMoves ==
  ASSUME NEW h \in 0 .. RingSize - 1, NEW c \in 0 .. RingSize
  PROVE  /\ (h + 1) % RingSize \in 0 .. RingSize - 1
         /\ c < RingSize => /\ \A i \in 1 .. c : /\ Slot((h + 1) % RingSize, c + 1, i) = Slot(h, c, i)
                                                 /\ Slot(h, c, i) # h
                            /\ Slot((h + 1) % RingSize, c + 1, c + 1) = h
         /\ /\ \A i \in 1 .. RingSize - 1 :
                  /\ Slot((h + 1) % RingSize, RingSize, i) = Slot(h, RingSize, i + 1)
                  /\ Slot(h, RingSize, i + 1) # h
            /\ Slot((h + 1) % RingSize, RingSize, RingSize) = h
<1>1. RingSize \in Nat \ {0}
  BY TciAssumption
<1> DEFINE k == (h + 1) % RingSize
<1>2. k = IF h + 1 < RingSize THEN h + 1 ELSE 0
  <2>1. h + 1 \in 0 .. 2 * RingSize - 1
    BY <1>1
  <2> DEFINE x == h + 1
  <2> HIDE DEF x
  <2>2. x % RingSize = IF x < RingSize THEN x ELSE x - RingSize
    BY <2>1, Wrapped DEF x
  <2> QED
    BY <1>1, <2>2 DEF x
<1> HIDE DEF k
<1>3. k \in 0 .. RingSize - 1
  BY <1>1, <1>2
<1>4. ASSUME c < RingSize, NEW i \in 1 .. c
      PROVE  Slot(k, c + 1, i) = Slot(h, c, i) /\ Slot(h, c, i) # h
  BY <1>1, <1>2, <1>4 DEF Slot
<1>5. c < RingSize => Slot(k, c + 1, c + 1) = h
  BY <1>1, <1>2 DEF Slot
<1>6. ASSUME NEW i \in 1 .. RingSize - 1
      PROVE  Slot(k, RingSize, i) = Slot(h, RingSize, i + 1) /\ Slot(h, RingSize, i + 1) # h
  BY <1>1, <1>2, <1>6 DEF Slot
<1>7. Slot(k, RingSize, RingSize) = h
  BY <1>1, <1>2 DEF Slot
<1> QED
  BY <1>3, <1>4, <1>5, <1>6, <1>7 DEF k

\* The queue a ring holds.
LEMMA QueueOfIs ==
  ASSUME NEW r \in [0 .. RingSize - 1 -> Values], NEW h \in 0 .. RingSize - 1,
         NEW c \in 0 .. RingSize
  PROVE  /\ QueueOf(r, h, c) \in Seq(Values) /\ Len(QueueOf(r, h, c)) = c
         /\ \A i \in 1 .. c : QueueOf(r, h, c)[i] = r[Slot(h, c, i)]
         /\ \A i \in 1 .. c : Slot(h, c, i) \in 0 .. RingSize - 1
<1>1. RingSize \in Nat \ {0}
  BY TciAssumption
<1> DEFINE g(i) == r[(((h - c + RingSize) % RingSize) + i - 1) % RingSize]
<1>2. ASSUME NEW i \in 1 .. c
      PROVE  g(i) = r[Slot(h, c, i)] /\ Slot(h, c, i) \in 0 .. RingSize - 1
  BY SlotIs
<1>3. \A i \in 1 .. c : r[Slot(h, c, i)] \in Values
  BY <1>2
<1>4. QueueOf(r, h, c) = [i \in 1 .. c |-> g(i)]
  BY DEF QueueOf
<1> HIDE DEF g
<1>5. \A i \in 1 .. c : g(i) \in Values
  BY <1>2, <1>3
<1> QED
  BY <1>1, <1>2, <1>4, <1>5

LEMMA PutIn ==
  ASSUME NEW r \in [0 .. RingSize - 1 -> Values], NEW h \in 0 .. RingSize - 1,
         NEW c \in 0 .. RingSize, NEW x \in Values
  PROVE  QueueOf([r EXCEPT ![h] = x], (h + 1) % RingSize, IF c < RingSize THEN c + 1 ELSE c)
           = IF c < RingSize THEN Append(QueueOf(r, h, c), x)
                             ELSE Append(Tail(QueueOf(r, h, c)), x)
<1> DEFINE s == [r EXCEPT ![h] = x]
           k == (h + 1) % RingSize
           q == QueueOf(r, h, c)
<1>1. RingSize \in Nat \ {0} /\ c \in Nat /\ k \in 0 .. RingSize - 1
  BY SlotMoves, TciAssumption
<1>2. /\ s \in [0 .. RingSize - 1 -> Values] /\ s[h] = x
      /\ \A i \in 0 .. RingSize - 1 : i # h => s[i] = r[i]
  OBVIOUS
<1>3. /\ q \in Seq(Values) /\ Len(q) = c
      /\ \A i \in 1 .. c : q[i] = r[Slot(h, c, i)]
      /\ \A i \in 1 .. c : Slot(h, c, i) \in 0 .. RingSize - 1
  BY QueueOfIs
<1>4. CASE c < RingSize
  <2> DEFINE u == QueueOf(s, k, c + 1)
  <2>1. /\ \A i \in 1 .. c : Slot(k, c + 1, i) = Slot(h, c, i) /\ Slot(h, c, i) # h
        /\ Slot(k, c + 1, c + 1) = h
    BY <1>4, SlotMoves
  <2> HIDE DEF s, k, q
  <2>2. c + 1 \in 0 .. RingSize
    BY <1>1, <1>4
  <2>3. /\ u \in Seq(Values) /\ Len(u) = c + 1
        /\ \A i \in 1 .. c + 1 : u[i] = s[Slot(k, c + 1, i)]
    BY <1>1, <1>2, <2>2, QueueOfIs
  <2> HIDE DEF u
  <2>4. /\ Append(q, x) \in Seq(Values) /\ Len(Append(q, x)) = c + 1
        /\ \A i \in 1 .. c : Append(q, x)[i] = q[i]
        /\ Append(q, x)[c + 1] = x
    BY <1>3, AppendProperties
  <2>5. \A i \in 1 .. c + 1 : u[i] = Append(q, x)[i]
    <3>1. u[c + 1] = x
      BY <1>1, <1>2, <2>1, <2>3
    <3>2. ASSUME NEW i \in 1 .. c PROVE u[i] = q[i]
      <4>1. u[i] = s[Slot(h, c, i)]
        BY <1>1, <2>1, <2>3
      <4> QED
        BY <1>2, <1>3, <2>1, <4>1
    <3> QED
      BY <1>1, <2>4, <3>1, <3>2
  <2>6. u = Append(q, x)
    BY <2>3, <2>4, <2>5, SeqEqual
  <2> QED
    BY <1>4, <2>6 DEF s, k, q, u
<1>5. CASE ~(c < RingSize)
  <2> DEFINE u == QueueOf(s, k, RingSize)
             t == Tail(q)
  <2>1. /\ \A i \in 1 .. RingSize - 1 : /\ Slot(k, RingSize, i) = Slot(h, RingSize, i + 1)
                                        /\ Slot(h, RingSize, i + 1) # h
        /\ Slot(k, RingSize, RingSize) = h
    BY SlotMoves
  <2>2. c = RingSize /\ RingSize \in 0 .. RingSize
    BY <1>1, <1>5
  <2> HIDE DEF s, k, q
  <2>3. /\ u \in Seq(Values) /\ Len(u) = RingSize
        /\ \A i \in 1 .. RingSize : u[i] = s[Slot(k, RingSize, i)]
    BY <1>1, <1>2, <2>2, QueueOfIs
  <2> HIDE DEF u
  <2>4. /\ t \in Seq(Values) /\ Len(t) = RingSize - 1
        /\ \A i \in 1 .. RingSize - 1 : t[i] = q[i + 1]
    <3>1. q # << >>
      BY <1>1, <1>3, <2>2
    <3> QED
      BY <1>3, <2>2, <3>1, HeadTailProperties
  <2> HIDE DEF t
  <2>5. /\ Append(t, x) \in Seq(Values) /\ Len(Append(t, x)) = RingSize
        /\ \A i \in 1 .. RingSize - 1 : Append(t, x)[i] = t[i]
        /\ Append(t, x)[RingSize] = x
    BY <1>1, <2>4, AppendProperties
  <2>6. \A i \in 1 .. RingSize : u[i] = Append(t, x)[i]
    <3>1. u[RingSize] = x
      BY <1>1, <1>2, <2>1, <2>3
    <3>2. ASSUME NEW i \in 1 .. RingSize - 1 PROVE u[i] = t[i]
      <4>1. i \in 1 .. RingSize /\ i + 1 \in 1 .. RingSize
        BY <1>1
      <4>2. u[i] = s[Slot(h, RingSize, i + 1)]
        BY <2>1, <2>3, <4>1
      <4>3. Slot(h, RingSize, i + 1) \in 0 .. RingSize - 1 /\ Slot(h, RingSize, i + 1) # h
        BY <1>3, <2>1, <2>2, <4>1
      <4>4. q[i + 1] = r[Slot(h, RingSize, i + 1)]
        BY <1>3, <2>2, <4>1
      <4> QED
        BY <1>2, <2>4, <4>2, <4>3, <4>4
    <3> QED
      BY <1>1, <2>5, <3>1, <3>2
  <2>7. u = Append(t, x)
    BY <2>3, <2>5, <2>6, SeqEqual
  <2> QED
    BY <1>5, <2>2, <2>7 DEF s, k, q, u, t
<1> QED
  BY <1>4, <1>5

LEMMA TakeOut ==
  ASSUME NEW r \in [0 .. RingSize - 1 -> Values], NEW h \in 0 .. RingSize - 1,
         NEW c \in 0 .. RingSize, NEW n \in 0 .. c
  PROVE  QueueOf(r, h, c - n) = SubSeq(QueueOf(r, h, c), n + 1, c)
<1> DEFINE q == QueueOf(r, h, c)
           u == QueueOf(r, h, c - n)
           t == SubSeq(q, n + 1, c)
<1>1. RingSize \in Nat \ {0} /\ c \in Nat /\ n \in Nat /\ c - n \in 0 .. RingSize
  BY TciAssumption
<1>2. /\ q \in Seq(Values) /\ Len(q) = c
      /\ \A i \in 1 .. c : q[i] = r[Slot(h, c, i)]
  BY QueueOfIs
<1>3. /\ u \in Seq(Values) /\ Len(u) = c - n
      /\ \A i \in 1 .. c - n : u[i] = r[Slot(h, c - n, i)]
  BY <1>1, QueueOfIs
<1> HIDE DEF q, u
<1>4. /\ t \in Seq(Values) /\ Len(t) = c - n
      /\ \A i \in 1 .. c - n : t[i] = q[n + i]
  BY <1>1, <1>2, Cut
<1>5. ASSUME NEW i \in 1 .. c - n PROVE u[i] = t[i]
  <2>1. n + i \in 1 .. c
    BY <1>1
  <2>2. Slot(h, c - n, i) = Slot(h, c, n + i)
    <3>1. h - (c - n) + i - 1 = h - c + (n + i) - 1
      BY <1>1
    <3> QED
      BY <3>1 DEF Slot
  <2> QED
    BY <1>2, <1>3, <1>4, <2>1, <2>2
<1> HIDE DEF t
<1>6. u = t
  BY <1>3, <1>4, <1>5, SeqEqual
<1> QED
  BY <1>6 DEF q, u, t

-------------------------------------------------------------------------------
\* The ring as the queue of LossyFifo.
LEMMA QueueIs ==
  ASSUME Types, Counts, switches = 0
  PROVE  /\ count \in 0 .. RingSize /\ need \in 0 .. count
         /\ queue = QueueOf(ring, head, count)
         /\ queue \in Seq(Values) /\ Len(queue) = count
<1>1. /\ count \in 0 .. RingSize /\ need \in 0 .. count
      /\ head \in 0 .. RingSize - 1 /\ ring \in [0 .. RingSize - 1 -> Values]
  BY TciAssumption DEF Counts, Types
<1>2. queue = QueueOf(ring, head, count)
  BY DEF queue, tail, QueueOf
<1> QED
  BY <1>1, <1>2, QueueOfIs

LEMMA QueueAfter == queue' = QueueOf(ring', head', count')
  BY DEF queue, tail, QueueOf

LEMMA PushedQueue ==
  ASSUME Types, Counts, switches = 0, Push
  PROVE  /\ todo # << >> /\ todo[1] \in Values
         /\ queue' = IF count < RingSize THEN Append(queue, todo[1])
                                         ELSE Append(Tail(queue), todo[1])
<1>1. /\ todo # << >> /\ todo[1] \in Values
      /\ head \in 0 .. RingSize - 1 /\ ring \in [0 .. RingSize - 1 -> Values]
  BY DEF Push, Types
<1>2. /\ ring' = [ring EXCEPT ![head] = todo[1]] /\ head' = (head + 1) % RingSize
      /\ count' = IF count < RingSize THEN count + 1 ELSE count
  BY DEF Push
<1>3. count \in 0 .. RingSize /\ queue = QueueOf(ring, head, count)
  BY QueueIs
<1>4. QueueOf([ring EXCEPT ![head] = todo[1]], (head + 1) % RingSize,
              IF count < RingSize THEN count + 1 ELSE count)
        = IF count < RingSize THEN Append(QueueOf(ring, head, count), todo[1])
                              ELSE Append(Tail(QueueOf(ring, head, count)), todo[1])
  BY <1>1, <1>3, PutIn
<1> QED
  BY <1>1, <1>2, <1>3, <1>4, QueueAfter

LEMMA ReleasedQueue ==
  ASSUME Types, Counts, switches = 0, GetRelease
  PROVE  queue' = SubSeq(queue, need + 1, count)
<1>1. /\ head \in 0 .. RingSize - 1 /\ ring \in [0 .. RingSize - 1 -> Values]
  BY DEF Types
<1>2. ring' = ring /\ head' = head /\ count' = count - need
  BY DEF GetRelease
<1>3. count \in 0 .. RingSize /\ need \in 0 .. count /\ queue = QueueOf(ring, head, count)
  BY QueueIs
<1>4. QueueOf(ring, head, count - need) = SubSeq(QueueOf(ring, head, count), need + 1, count)
  BY <1>1, <1>3, TakeOut
<1> QED
  BY <1>2, <1>3, <1>4, QueueAfter

LEMMA RingStep ==
  ASSUME Session, switches = 0, [Next]_vars, ~Push, ~GetRelease
  PROVE  ring' = ring /\ head' = head /\ count' = count
<1> USE DEF wire, conn, buffers, rings, loop, loopRest, gui
<1>1. gpc = "idle"
  BY DEF Session
<1> QED
  BY <1>1 DEF Next, Detection, Gui, Radio, vars, Probe,
     TcpConnect, WsConnect, OpenTraining, StartStream, TcpReceive, TcpClosed, WsReceive,
     WsClosed, TrainingRead, TrainingEof, ServiceReturns, ParseText, ParseFrame,
     ParseStops, Read, TakeFrame, TakeRaw, FramesDone, PushDone, Get,
     TakeDone, LoopEnd, Destroy, Stop, SwitchMode, SwitchStop, SwitchHead, SwitchCount,
     SwitchSubscribe, SwitchFreed, RadioFrame, RadioText, RadioClose

Base == Session /\ Types /\ Counts /\ Wire

LEMMA BaseInit == Init => Base
<1> SUFFICES ASSUME Init PROVE Base
  OBVIOUS
<1>1. /\ RingSize \in Nat \ {0} /\ Need \in Nat \ {0} /\ MaxChunks \in Nat \ {0}
      /\ MaxFrames \in Nat /\ StageMax \in Nat /\ MaxSwitches \in Nat
  BY TciAssumption
<1>2. Session
  BY TciAssumption DEF Init, Session, Steps, Modes
<1>3. Types
  <2>1. ring \in [0 .. RingSize - 1 -> Values] /\ head \in 0 .. RingSize - 1
    BY <1>1, ValuesNat DEF Init
  <2>2. /\ net \in Seq(Unit) /\ stream \in Seq(Unit) /\ staged \in Seq(Unit)
        /\ todo \in Seq(Values) /\ out \in Seq(Values)
    BY DEF Init
  <2>3. /\ peer \in BOOLEAN /\ client \in BOOLEAN /\ connected \in BOOLEAN
        /\ socket \in BOOLEAN /\ wctx \in BOOLEAN /\ tctx \in BOOLEAN /\ eof \in BOOLEAN
        /\ audio_only \in BOOLEAN /\ running \in BOOLEAN
    BY DEF Init
  <2>4. /\ frames \in 0 .. MaxFrames /\ texts \in 0 .. 1 /\ chunks \in 0 .. MaxChunks
        /\ got \in {0, 1}
    BY <1>1 DEF Init
  <2>5. transport # "ws"
    BY DEF Init
  <2> QED
    BY <2>1, <2>2, <2>3, <2>4, <2>5 DEF Types
<1>4. Counts
  BY <1>1 DEF Init, Counts
<1>5. Wire
  <2>1. Arriving = << >>
    BY DEF Init, Arriving
  <2>2. /\ Framed(<< >>) /\ Upwards(<< >>) /\ Whole(<< >>) /\ NoText(<< >>)
        /\ \A n : AtMost(n, << >>)
    BY DEF Framed, Upwards, Whole, NoText, AtMost
  <2> QED
    BY <2>1, <2>2 DEF Wire, Init
<1> QED
  BY <1>2, <1>3, <1>4, <1>5 DEF Base

LEMMA BaseStep == Base /\ [Next]_vars => Base'
  BY SessionStep, TypesStep, CountsStep, WireStep DEF Base

\* tci_process_audio_payload, tci_get_iq_samples: head, count and slots are a
\* queue that drops its oldest sample when it is full, for a ring of any size.
THEOREM RingRefinesQueue == Spec => RingIsFifo
<1>1. Base /\ [Next]_vars => [switches = 0 => [Fifo!Next]_queue]_vars
  <2> SUFFICES ASSUME Base, [Next]_vars, switches = 0 PROVE [Fifo!Next]_queue
    OBVIOUS
  <2> USE DEF Base
  <2>1. CASE Push
    <3>1. /\ Len(queue) = count /\ todo[1] \in 0 .. MaxFrames * FrameLen
          /\ queue' = IF count < RingSize THEN Append(queue, todo[1])
                                          ELSE Append(Tail(queue), todo[1])
      BY <2>1, PushedQueue, QueueIs DEF Values
    <3> QED
      BY <3>1 DEF Fifo!Next, Fifo!Put
  <2>2. CASE GetRelease
    <3>1. /\ queue \in Seq(Values) /\ Len(queue) = count /\ need \in 0 .. count
          /\ queue' = SubSeq(queue, need + 1, count) /\ count \in Nat
      BY <2>2, ReleasedQueue, QueueIs
    <3>2. CASE need = 0
      <4>1. SubSeq(queue, 1, Len(queue)) = queue
        BY <3>1, SubSeqFull
      <4>2. need + 1 = 1
        BY <3>2
      <4> QED
        BY <3>1, <4>1, <4>2
    <3>3. CASE need # 0
      <4>1. need \in 1 .. Len(queue)
        BY <3>1, <3>3
      <4> QED
        BY <3>1, <4>1 DEF Fifo!Next, Fifo!Take
    <3> QED
      BY <3>2, <3>3
  <2>3. CASE ~Push /\ ~GetRelease
    BY <2>3, RingStep, QueueAfter, QueueIs
  <2> QED
    BY <2>1, <2>2, <2>3
<1> QED
  BY <1>1, BaseInit, BaseStep, PTL DEF Spec, RingIsFifo

-------------------------------------------------------------------------------
\* What was taken.
LEMMA Together ==
  ASSUME NEW a \in Seq(Values), NEW b \in Seq(Values), NEW c \in Seq(Values)
  PROVE  (a \o b) \o c = a \o (b \o c) /\ (a \o b) \o c \in Seq(Values)
BY ConcatAssociative, ConcatProperties

\* An item moves from one sequence to the next.  Chain(a, b) stands for a \o b
\* where the provers are not to look into it.
Chain(a, b) == a \o b

LEMMA Chained ==
  ASSUME NEW a \in Seq(Values), NEW b \in Seq(Values), NEW c \in Seq(Values)
  PROVE  Chain(Chain(a, b), c) = Chain(a, Chain(b, c))
BY ConcatAssociative DEF Chain

LEMMA HandedOver ==
  ASSUME NEW a \in Seq(Values), NEW b \in Seq(Values), NEW x \in Seq(Values),
         NEW t \in Seq(Values)
  PROVE  Chain(Chain(a, Chain(b, x)), t) = Chain(Chain(a, b), Chain(x, t))
<1>1. \A c, d \in Seq(Values) : Chain(c, d) \in Seq(Values)
  BY ConcatProperties DEF Chain
<1> QED
  BY <1>1, Chained

LEMMA FirstAndRest ==
  ASSUME NEW c \in Seq(Values), c # << >>
  PROVE  /\ c[1] \in Values /\ <<c[1]>> \in Seq(Values) /\ Tail(c) \in Seq(Values)
         /\ <<c[1]>> \o Tail(c) = c
<1> DEFINE x == <<c[1]>>
           t == Tail(c)
<1>1. x \in Seq(Values) /\ t \in Seq(Values) /\ c[1] \in Values
  BY HeadTailProperties
<1>2. Len(c) \in Nat \ {0} /\ Len(t) = Len(c) - 1 /\ \A i \in 1 .. Len(t) : t[i] = c[i + 1]
  BY HeadTailProperties, EmptySeq
<1>3. Len(x) = 1 /\ x[1] = c[1]
  OBVIOUS
<1> HIDE DEF x, t
<1>4. /\ x \o t \in Seq(Values) /\ Len(x \o t) = 1 + Len(t)
      /\ \A i \in 1 .. 1 + Len(t) : (x \o t)[i] = IF i <= 1 THEN x[i] ELSE t[i - 1]
  <2>1. /\ x \o t \in Seq(Values) /\ Len(x \o t) = Len(x) + Len(t)
        /\ \A i \in 1 .. Len(x) + Len(t) :
              (x \o t)[i] = IF i <= Len(x) THEN x[i] ELSE t[i - Len(x)]
    BY <1>1, ConcatProperties
  <2> QED
    BY <1>3, <2>1
<1>5. \A i \in 1 .. Len(c) : (x \o t)[i] = c[i]
  BY <1>2, <1>3, <1>4
<1>6. x \o t = c
  BY <1>2, <1>4, <1>5, SeqEqual
<1> QED
  BY <1>1, <1>6 DEF x, t

\* What is left of the ring when the items being taken are left out.
LEMMA RestOfIs ==
  ASSUME NEW r \in [0 .. RingSize - 1 -> Values], NEW h \in 0 .. RingSize - 1,
         NEW c \in 0 .. RingSize, NEW n \in 0 .. c
  PROVE  [i \in 1 .. c - n |-> r[(((h - c + RingSize) % RingSize) + n + i - 1) % RingSize]]
           = QueueOf(r, h, c - n)
<1> DEFINE g(i) == r[(((h - c + RingSize) % RingSize) + n + i - 1) % RingSize]
           f(i) == r[(((h - (c - n) + RingSize) % RingSize) + i - 1) % RingSize]
<1>1. RingSize \in Nat \ {0} /\ c \in Nat /\ n \in Nat /\ c - n \in 0 .. RingSize
  BY TciAssumption
<1>2. ASSUME NEW i \in 1 .. c - n PROVE g(i) = f(i)
  <2> DEFINE j == n + i
             t == (h - c + RingSize) % RingSize
  <2>1. j \in 1 .. c
    BY <1>1
  <2>2. t \in Int
    BY <1>1
  <2> HIDE DEF j, t
  <2>3. (t + j - 1) % RingSize = Slot(h, c, j)
    BY <2>1, SlotIs DEF t
  <2>4. t + n + i - 1 = t + j - 1
    BY <1>1, <2>2 DEF j
  <2>5. g(i) = r[Slot(h, c, j)]
    BY <2>3, <2>4 DEF t
  <2>6. f(i) = r[Slot(h, c - n, i)]
    BY <1>1, SlotIs
  <2>7. h - (c - n) + i - 1 = h - c + j - 1
    BY <1>1 DEF j
  <2>8. Slot(h, c - n, i) = Slot(h, c, j)
    BY <2>7 DEF Slot
  <2> QED
    BY <2>5, <2>6, <2>8
<1> HIDE DEF g, f
<1>3. [i \in 1 .. c - n |-> g(i)] = [i \in 1 .. c - n |-> f(i)]
  BY <1>2
<1> QED
  BY <1>3 DEF g, f, QueueOf

LEMMA RestIs ==
  ASSUME Types, Counts, switches = 0
  PROVE  /\ rest = QueueOf(ring, head, count - need)
         /\ rest \in Seq(Values) /\ Len(rest) = count - need
         /\ Taken = (out \o rest) \o todo /\ Taken \in Seq(Values)
<1>1. /\ count \in 0 .. RingSize /\ need \in 0 .. count /\ RingSize \in Nat
      /\ head \in 0 .. RingSize - 1 /\ ring \in [0 .. RingSize - 1 -> Values]
  BY QueueIs, TciAssumption DEF Types
<1>2. rest = QueueOf(ring, head, count - need)
  BY <1>1, RestOfIs DEF rest, tail
<1>3. count - need \in 0 .. RingSize
  BY <1>1
<1>4. rest \in Seq(Values) /\ Len(rest) = count - need
  BY <1>1, <1>2, <1>3, QueueOfIs
<1>5. Taken \in Seq(Values)
  BY <1>4, Together DEF Taken, Types
<1> QED
  BY <1>2, <1>4, <1>5 DEF Taken

LEMMA RestAfter ==
  ASSUME Types', count' \in 0 .. RingSize, need' \in 0 .. count'
  PROVE  rest' = QueueOf(ring', head', count' - need')
<1>1. head' \in 0 .. RingSize - 1 /\ ring' \in [0 .. RingSize - 1 -> Values]
  BY DEF Types
<1> QED
  BY <1>1, RestOfIs DEF rest, tail

\* Every step but three kinds leaves what was taken as it is.
LEMMA TakenSame ==
  ASSUME Base, Types', Counts', switches = 0, switches' = 0, [Next]_vars,
         ~TakeFrame, ~TakeRaw, ~(Push /\ count = RingSize)
  PROVE  Taken' = Taken
<1> USE DEF Base, wire, conn, buffers, rings, loop, loopRest, gui
<1>1. /\ count \in 0 .. RingSize /\ need \in 0 .. count /\ queue \in Seq(Values)
      /\ queue = QueueOf(ring, head, count) /\ Len(queue) = count
      /\ RingSize \in Nat
  BY QueueIs, TciAssumption
<1>2. /\ rest = QueueOf(ring, head, count - need) /\ rest \in Seq(Values)
      /\ Taken = (out \o rest) \o todo
  BY RestIs
<1>3. rest' = QueueOf(ring', head', count' - need')
  <2>1. count' \in 0 .. RingSize /\ need' \in 0 .. count'
    BY <1>1 DEF Counts
  <2> QED
    BY <2>1, RestAfter
<1>4. Taken' = (out' \o rest') \o todo'
  BY DEF Taken
<1>5. out \in Seq(Values) /\ todo \in Seq(Values)
  BY DEF Types
<1>6. CASE Push
  <2>1. /\ count < RingSize /\ todo # << >> /\ todo' = Tail(todo) /\ out' = out /\ need' = need
        /\ dpc = "push" /\ count' = count + 1
    BY <1>1, <1>6 DEF Push
  <2>2. need = 0 /\ count - need = count /\ count' - need' = count'
    BY <1>1, <2>1 DEF Counts
  <2>3. rest = queue /\ rest' = queue'
    BY <1>1, <1>2, <1>3, <2>2, QueueAfter
  <2>4. rest' = Append(rest, todo[1])
    BY <1>6, <2>1, <2>3, PushedQueue
  <2> DEFINE x == <<todo[1]>>
  <2>5. todo[1] \in Values /\ x \in Seq(Values)
    BY <1>5, <2>1, FirstAndRest
  <2>6. x \o todo' = todo
    BY <1>5, <2>1, FirstAndRest
  <2>7. rest' = rest \o x
    BY <1>2, <2>4, <2>5, AppendIsConcat
  <2>8. todo' \in Seq(Values) /\ rest \in Seq(Values)
    BY <1>2 DEF Types
  <2> HIDE DEF x
  <2>9. (out \o (rest \o x)) \o todo' = (out \o rest) \o (x \o todo')
    <3>1. Chain(Chain(out, Chain(rest, x)), todo') = Chain(Chain(out, rest), Chain(x, todo'))
      BY <1>5, <2>5, <2>8, HandedOver
    <3> QED
      BY <3>1 DEF Chain
  <2>10. (out \o rest') \o todo' = (out \o rest) \o todo
    BY <2>6, <2>7, <2>9
  <2> QED
    BY <1>2, <1>4, <2>1, <2>10
<1>7. CASE Get
  <2> DEFINE n == IF Wanted > count THEN count ELSE Wanted
  <2>1. /\ need' = n /\ out' = out \o [i \in 1 .. n |-> ring[(tail + i - 1) % RingSize]]
        /\ UNCHANGED <<ring, head, count, todo>> /\ dpc = "take"
    BY <1>7 DEF Get
  <2>2. need = 0 /\ n \in Int /\ n <= count
    BY <1>1, <2>1, TciAssumption DEF Counts, Wanted
  <2>3. n >= 0
    BY <2>1 DEF Counts
  <2> HIDE DEF n
  <2>4. n \in 0 .. Len(queue)
    BY <1>1, <2>2, <2>3
  <2> DEFINE p == SubSeq(queue, 1, n)
             q == SubSeq(queue, n + 1, Len(queue))
  <2>12. queue \in Seq(Values)
    BY <1>1
  <2>5. /\ p \in Seq(Values) /\ Len(p) = n /\ \A i \in 1 .. n : p[i] = queue[i]
        /\ q \in Seq(Values)
    BY <2>4, <2>12, Cut
  <2>6. p \o q = queue
    BY <2>4, <2>12, Cut
  <2>7. rest' = q
    <3>1. QueueOf(ring, head, count - n) = SubSeq(QueueOf(ring, head, count), n + 1, count)
      <4>1. count \in 0 .. RingSize /\ n \in 0 .. count
        BY <1>1, <2>4
      <4>2. head \in 0 .. RingSize - 1 /\ ring \in [0 .. RingSize - 1 -> Values]
        BY DEF Types
      <4> QED
        BY <4>1, <4>2, TakeOut
    <3> QED
      BY <1>1, <1>3, <2>1, <3>1
  <2>8. [i \in 1 .. n |-> ring[(tail + i - 1) % RingSize]] = p
    <3> DEFINE f(i) == ring[(tail + i - 1) % RingSize]
    <3>1. queue = [i \in 1 .. count |-> f(i)]
      BY DEF queue
    <3> HIDE DEF f
    <3>2. \A i \in 1 .. n : i \in 1 .. count /\ queue[i] = f(i)
      BY <1>1, <2>2, <3>1
    <3>3. \A i \in 1 .. n : p[i] = f(i)
      BY <2>5, <3>2
    <3>4. p = [i \in 1 .. n |-> p[i]]
      BY <2>5
    <3>5. [i \in 1 .. n |-> p[i]] = [i \in 1 .. n |-> f(i)]
      BY <3>3
    <3> QED
      BY <3>4, <3>5 DEF f
  <2>9. rest = queue
    <3>1. count - need = count
      BY <1>1, <2>2
    <3> QED
      BY <1>1, <1>2, <3>1
  <2> HIDE DEF p, q
  <2>10. (out \o p) \o q = out \o (p \o q)
    BY <1>5, <2>5, Together
  <2>11. out' = out \o p
    BY <2>1, <2>8
  <2> QED
    BY <1>2, <1>4, <2>1, <2>6, <2>7, <2>9, <2>10, <2>11
<1>8. CASE GetRelease
  <2>1. need' = 0 /\ count' = count - need /\ UNCHANGED <<ring, head, out, todo>>
    BY <1>8 DEF GetRelease
  <2>2. count' - need' = count - need
    BY <1>1, <2>1
  <2>3. rest' = rest
    BY <1>2, <1>3, <2>1, <2>2
  <2> QED
    BY <1>2, <1>4, <2>1, <2>3
<1>9. CASE ~Push /\ ~Get /\ ~GetRelease
  <2>1. UNCHANGED <<ring, head, count>>
    BY <1>9, RingStep
  <2>2. UNCHANGED <<need, out, todo>>
    BY <1>9 DEF Next, Detection, Gui, Radio, vars, Probe,
     TcpConnect, WsConnect, OpenTraining, StartStream, TcpReceive, TcpClosed, WsReceive,
     WsClosed, TrainingRead, TrainingEof, ServiceReturns, ParseText, ParseFrame,
     ParseStops, Read, FramesDone, PushDone,
     TakeDone, LoopEnd, Destroy, Stop, SwitchMode, SwitchStop, SwitchHead, SwitchCount,
     SwitchSubscribe, SwitchFreed, RadioFrame, RadioText, RadioClose
  <2>3. rest' = rest
    BY <1>2, <1>3, <2>1, <2>2
  <2> QED
    BY <1>2, <1>4, <2>2, <2>3
<1> QED
  BY <1>6, <1>7, <1>8, <1>9

\* What holds of a sequence holds of it without one item.
LEMMA Without ==
  ASSUME NEW s \in Seq(Values), NEW t \in Seq(Values), NEW k \in Nat, Len(s) = Len(t) + 1,
         \A i \in 1 .. Len(t) : t[i] = IF i < k THEN s[i] ELSE s[i + 1]
  PROVE  /\ Rising(s) => Rising(t)
         /\ \A w : Below(s, w) => Below(t, w)
         /\ \A n : UpTo(n, s) => UpTo(n, t)
<1> DEFINE f(i) == IF i < k THEN i ELSE i + 1
<1>1. Len(t) \in Nat /\ Len(s) \in Nat
  OBVIOUS
<1>2. ASSUME NEW i \in 1 .. Len(t) PROVE f(i) \in 1 .. Len(s) /\ t[i] = s[f(i)]
  BY <1>1
<1>3. ASSUME NEW i \in 1 .. Len(t), NEW j \in 1 .. Len(t), i < j PROVE f(i) < f(j)
  BY <1>1, <1>3
<1> HIDE DEF f
<1>4. ASSUME Rising(s) PROVE Rising(t)
  <2> SUFFICES ASSUME NEW i \in 1 .. Len(t), NEW j \in 1 .. Len(t), i < j, t[i] > 0, t[j] > 0
               PROVE  t[i] < t[j]
    BY DEF Rising
  <2> DEFINE a == f(i)
             b == f(j)
  <2>1. a \in 1 .. Len(s) /\ t[i] = s[a]
    BY <1>2
  <2>2. b \in 1 .. Len(s) /\ t[j] = s[b]
    BY <1>2
  <2>3. a < b
    BY <1>3
  <2> HIDE DEF a, b
  <2> QED
    BY <1>4, <2>1, <2>2, <2>3 DEF Rising
<1>5. ASSUME NEW w, Below(s, w) PROVE Below(t, w)
  <2> SUFFICES ASSUME NEW i \in 1 .. Len(t), NEW j \in 1 .. Len(w), t[i] > 0, w[j].k = "smp"
               PROVE  t[i] < w[j].v
    BY DEF Below
  <2> DEFINE a == f(i)
  <2>1. a \in 1 .. Len(s) /\ t[i] = s[a]
    BY <1>2
  <2> HIDE DEF a
  <2> QED
    BY <1>5, <2>1 DEF Below
<1>6. ASSUME NEW n, UpTo(n, s) PROVE UpTo(n, t)
  <2> SUFFICES ASSUME NEW i \in 1 .. Len(t) PROVE t[i] <= n
    BY DEF UpTo
  <2> DEFINE a == f(i)
  <2>1. a \in 1 .. Len(s) /\ t[i] = s[a]
    BY <1>2
  <2> HIDE DEF a
  <2> QED
    BY <1>6, <2>1 DEF UpTo
<1> QED
  BY <1>4, <1>5, <1>6

LEMMA JoinedValues ==
  ASSUME NEW a \in Seq(Values), NEW b \in Seq(Values)
  PROVE  /\ a \o b \in Seq(Values) /\ Len(a \o b) = Len(a) + Len(b)
         /\ \A i \in 1 .. Len(a \o b) : (a \o b)[i] = IF i <= Len(a) THEN a[i] ELSE b[i - Len(a)]
BY Joined

LEMMA OldestGone ==
  ASSUME NEW a \in Seq(Values), NEW b \in Seq(Values), NEW c \in Seq(Values), b # << >>
  PROVE  LET s == (a \o b) \o c
             t == (a \o Tail(b)) \o c
         IN  /\ Rising(s) => Rising(t)
             /\ \A w : Below(s, w) => Below(t, w)
             /\ \A n : UpTo(n, s) => UpTo(n, t)
<1> DEFINE d == Tail(b)
           u == a \o b
           v == a \o d
           s == u \o c
           t == v \o c
           k == Len(a) + 1
<1>1. /\ d \in Seq(Values) /\ Len(d) = Len(b) - 1 /\ \A i \in 1 .. Len(d) : d[i] = b[i + 1]
      /\ Len(b) \in Nat \ {0} /\ Len(a) \in Nat /\ Len(c) \in Nat
  BY HeadTailProperties, EmptySeq
<1> HIDE DEF d
<1>2. /\ u \in Seq(Values) /\ Len(u) = Len(a) + Len(b)
      /\ \A i \in 1 .. Len(u) : u[i] = IF i <= Len(a) THEN a[i] ELSE b[i - Len(a)]
  BY JoinedValues
<1>3. /\ v \in Seq(Values) /\ Len(v) = Len(a) + Len(d)
      /\ \A i \in 1 .. Len(v) : v[i] = IF i <= Len(a) THEN a[i] ELSE d[i - Len(a)]
  BY <1>1, JoinedValues
<1> HIDE DEF u, v
<1>4. /\ s \in Seq(Values) /\ Len(s) = Len(u) + Len(c)
      /\ \A i \in 1 .. Len(s) : s[i] = IF i <= Len(u) THEN u[i] ELSE c[i - Len(u)]
  BY <1>2, JoinedValues
<1>5. /\ t \in Seq(Values) /\ Len(t) = Len(v) + Len(c)
      /\ \A i \in 1 .. Len(t) : t[i] = IF i <= Len(v) THEN v[i] ELSE c[i - Len(v)]
  BY <1>3, JoinedValues
<1> HIDE DEF s, t
<1>6. /\ Len(u) = Len(v) + 1 /\ Len(s) = Len(t) + 1 /\ k \in Nat
      /\ Len(u) \in Nat /\ Len(v) \in Nat /\ Len(t) \in Nat /\ Len(v) >= Len(a)
  BY <1>1, <1>2, <1>3, <1>4, <1>5
<1>7. ASSUME NEW i \in 1 .. Len(t) PROVE t[i] = IF i < k THEN s[i] ELSE s[i + 1]
  <2>1. i \in 1 .. Len(s) /\ i + 1 \in 1 .. Len(s)
    BY <1>6
  <2>2. CASE i < k
    <3>1. i <= Len(a) /\ i <= Len(v) /\ i <= Len(u) /\ i \in 1 .. Len(v) /\ i \in 1 .. Len(u)
      BY <1>1, <1>6, <2>2
    <3>2. t[i] = v[i] /\ s[i] = u[i]
      BY <1>4, <1>5, <2>1, <3>1
    <3>3. v[i] = a[i] /\ u[i] = a[i]
      BY <1>2, <1>3, <3>1
    <3> QED
      BY <2>2, <3>2, <3>3
  <2>3. CASE ~(i < k) /\ i <= Len(v)
    <3>1. /\ i \in 1 .. Len(v) /\ i + 1 \in 1 .. Len(u) /\ i + 1 <= Len(u)
          /\ ~(i <= Len(a)) /\ ~(i + 1 <= Len(a))
      BY <1>1, <1>6, <2>3
    <3>2. t[i] = v[i] /\ s[i + 1] = u[i + 1]
      BY <1>4, <1>5, <2>1, <2>3, <3>1
    <3>3. v[i] = d[i - Len(a)] /\ u[i + 1] = b[(i + 1) - Len(a)]
      BY <1>2, <1>3, <3>1
    <3>4. i - Len(a) \in 1 .. Len(d) /\ (i - Len(a)) + 1 = (i + 1) - Len(a)
      BY <1>1, <1>3, <3>1
    <3>5. d[i - Len(a)] = b[(i + 1) - Len(a)]
      BY <1>1, <3>4
    <3> QED
      BY <2>3, <3>2, <3>3, <3>5
  <2>4. CASE ~(i < k) /\ ~(i <= Len(v))
    <3>1. ~(i + 1 <= Len(u)) /\ (i + 1) - Len(u) = i - Len(v)
      BY <1>1, <1>6, <2>4
    <3>2. t[i] = c[i - Len(v)] /\ s[i + 1] = c[(i + 1) - Len(u)]
      BY <1>4, <1>5, <2>1, <2>4, <3>1
    <3> QED
      BY <2>4, <3>1, <3>2
  <2> QED
    BY <2>2, <2>3, <2>4
<1> HIDE DEF k
<1>8. /\ Rising(s) => Rising(t)
      /\ \A w : Below(s, w) => Below(t, w)
      /\ \A n : UpTo(n, s) => UpTo(n, t)
  BY <1>4, <1>5, <1>6, <1>7, Without
<1> QED
  BY <1>8 DEF s, t, u, v, d

\* Units are taken from the front of what has arrived, as samples.
LEMMA TakenOn ==
  ASSUME NEW w \in Seq(Unit), NEW p \in Seq(Unit), NEW v \in Seq(Unit), w = p \o v, Upwards(w),
         NEW s \in Seq(Values), NEW f \in Seq(Values), NEW at \in 0 .. 1,
         Len(f) + at = Len(p),
         \A i \in 1 .. Len(f) : f[i] = IF w[i + at].k = "smp" THEN w[i + at].v ELSE 0,
         Rising(s), Below(s, w)
  PROVE  /\ Rising(s \o f) /\ Below(s \o f, v)
         /\ \A n \in Nat : UpTo(n, s) /\ AtMost(n, w) => UpTo(n, s \o f)
<1> DEFINE t == s \o f
<1>1. /\ Len(p) \in Nat /\ Len(v) \in Nat /\ Len(w) = Len(p) + Len(v)
      /\ \A i \in 1 .. Len(v) : Len(p) + i \in 1 .. Len(w) /\ w[Len(p) + i] = v[i]
  BY Joined
<1>2. /\ Len(s) \in Nat /\ Len(f) \in Nat
      /\ Len(t) = Len(s) + Len(f)
      /\ \A i \in 1 .. Len(t) : t[i] = IF i <= Len(s) THEN s[i] ELSE f[i - Len(s)]
  BY Joined
<1> HIDE DEF t
<1>3. ASSUME NEW i \in 1 .. Len(t)
      PROVE  \/ i \in 1 .. Len(s) /\ t[i] = s[i]
             \/ /\ ~(i <= Len(s)) /\ i - Len(s) \in 1 .. Len(f)
                /\ i - Len(s) + at \in 1 .. Len(p) /\ i - Len(s) + at \in 1 .. Len(w)
                /\ t[i] > 0 => /\ w[i - Len(s) + at].k = "smp"
                               /\ t[i] = w[i - Len(s) + at].v
                /\ t[i] = 0 \/ (/\ w[i - Len(s) + at].k = "smp"
                                /\ t[i] = w[i - Len(s) + at].v)
  <2>1. CASE i <= Len(s)
    BY <1>2, <2>1
  <2>2. CASE ~(i <= Len(s))
    <3> DEFINE j == i - Len(s)
    <3>1. j \in 1 .. Len(f) /\ j + at \in 1 .. Len(p) /\ j + at \in 1 .. Len(w) /\ t[i] = f[j]
      BY <1>1, <1>2, <2>2
    <3> HIDE DEF j
    <3>2. f[j] = IF w[j + at].k = "smp" THEN w[j + at].v ELSE 0
      BY <3>1
    <3> QED
      BY <2>2, <3>1, <3>2 DEF j
  <2> QED
    BY <2>1, <2>2
<1>4. Rising(t)
  <2> SUFFICES ASSUME NEW i \in 1 .. Len(t), NEW j \in 1 .. Len(t), i < j, t[i] > 0, t[j] > 0
               PROVE  t[i] < t[j]
    BY DEF Rising
  <2> DEFINE a == i - Len(s) + at
             b == j - Len(s) + at
  <2>1. a < b
    BY <1>2
  <2>2. \/ i \in 1 .. Len(s) /\ t[i] = s[i]
        \/ ~(i <= Len(s)) /\ a \in 1 .. Len(w) /\ w[a].k = "smp" /\ t[i] = w[a].v
    BY <1>3
  <2>3. \/ j \in 1 .. Len(s) /\ t[j] = s[j]
        \/ ~(j <= Len(s)) /\ b \in 1 .. Len(w) /\ w[b].k = "smp" /\ t[j] = w[b].v
    BY <1>3
  <2> HIDE DEF a, b
  <2>4. CASE i \in 1 .. Len(s) /\ t[i] = s[i] /\ j \in 1 .. Len(s) /\ t[j] = s[j]
    BY <2>4 DEF Rising
  <2>5. CASE /\ i \in 1 .. Len(s) /\ t[i] = s[i]
             /\ b \in 1 .. Len(w) /\ w[b].k = "smp" /\ t[j] = w[b].v
    BY <2>5 DEF Below
  <2>6. CASE /\ a \in 1 .. Len(w) /\ w[a].k = "smp" /\ t[i] = w[a].v
             /\ b \in 1 .. Len(w) /\ w[b].k = "smp" /\ t[j] = w[b].v
    BY <2>1, <2>6 DEF Upwards
  <2>7. ~(~(i <= Len(s)) /\ j \in 1 .. Len(s))
    BY <1>2
  <2> QED
    BY <2>2, <2>3, <2>4, <2>5, <2>6, <2>7
<1>5. Below(t, v)
  <2> SUFFICES ASSUME NEW i \in 1 .. Len(t), NEW j \in 1 .. Len(v), t[i] > 0, v[j].k = "smp"
               PROVE  t[i] < v[j].v
    BY DEF Below
  <2> DEFINE a == i - Len(s) + at
             b == Len(p) + j
  <2>1. b \in 1 .. Len(w) /\ w[b] = v[j] /\ w[b].k = "smp"
    BY <1>1
  <2>2. \/ i \in 1 .. Len(s) /\ t[i] = s[i]
        \/ /\ a \in 1 .. Len(p) /\ a \in 1 .. Len(w) /\ w[a].k = "smp" /\ t[i] = w[a].v
    BY <1>3
  <2>3. a \in 1 .. Len(p) => a < b
    BY <1>1
  <2> HIDE DEF a, b
  <2>4. CASE i \in 1 .. Len(s) /\ t[i] = s[i]
    BY <2>1, <2>4 DEF Below
  <2>5. CASE a < b /\ a \in 1 .. Len(w) /\ w[a].k = "smp" /\ t[i] = w[a].v
    BY <2>1, <2>5 DEF Upwards
  <2> QED
    BY <2>2, <2>3, <2>4, <2>5
<1>6. ASSUME NEW n \in Nat, UpTo(n, s), AtMost(n, w) PROVE UpTo(n, t)
  <2> SUFFICES ASSUME NEW i \in 1 .. Len(t) PROVE t[i] <= n
    BY DEF UpTo
  <2> DEFINE a == i - Len(s) + at
  <2>1. \/ i \in 1 .. Len(s) /\ t[i] = s[i]
        \/ t[i] = 0
        \/ a \in 1 .. Len(w) /\ w[a].k = "smp" /\ t[i] = w[a].v
    BY <1>3
  <2> HIDE DEF a
  <2> QED
    BY <1>6, <2>1, SMTT(40) DEF UpTo, AtMost
<1> QED
  BY <1>4, <1>5, <1>6 DEF t

\* How what was taken changes: a full ring loses its oldest sample, and units
\* are taken off what has arrived.
LEMMA TakenFull ==
  ASSUME Base, Types', Counts', switches = 0, switches' = 0, Push, count = RingSize
  PROVE  /\ Rising(Taken) => Rising(Taken')
         /\ \A w : Below(Taken, w) => Below(Taken', w)
         /\ \A n : UpTo(n, Taken) => UpTo(n, Taken')
<1> USE DEF Base
<1>1. /\ count \in 0 .. RingSize /\ need \in 0 .. count /\ queue \in Seq(Values)
      /\ queue = QueueOf(ring, head, count) /\ Len(queue) = count
      /\ RingSize \in Nat \ {0}
  BY QueueIs, TciAssumption
<1>2. /\ rest = QueueOf(ring, head, count - need) /\ rest \in Seq(Values)
      /\ Taken = (out \o rest) \o todo
  BY RestIs
<1>3. rest' = QueueOf(ring', head', count' - need')
  <2>1. count' \in 0 .. RingSize /\ need' \in 0 .. count'
    BY <1>1 DEF Counts
  <2> QED
    BY <2>1, RestAfter
<1>4. /\ todo # << >> /\ todo' = Tail(todo) /\ out' = out /\ need' = need /\ count' = count
      /\ dpc = "push"
  BY <1>1 DEF Push, loop
<1>5. need = 0 /\ count - need = count /\ count' - need' = count'
  BY <1>1, <1>4 DEF Counts
<1>6. rest = queue /\ rest' = queue' /\ rest # << >>
  BY <1>1, <1>2, <1>3, <1>5, QueueAfter
<1> DEFINE x == <<todo[1]>>
           t == Tail(rest)
<1>7. rest' = Append(t, todo[1])
  BY <1>1, <1>6, PushedQueue
<1>8. out \in Seq(Values) /\ todo \in Seq(Values) /\ rest \in Seq(Values) /\ todo' \in Seq(Values)
  BY <1>2 DEF Types
<1>9. todo[1] \in Values /\ x \in Seq(Values)
  BY <1>4, <1>8, FirstAndRest
<1>10. x \o todo' = todo
  BY <1>4, <1>8, FirstAndRest
<1>11. t \in Seq(Values)
  BY <1>6, <1>8, HeadTailProperties
<1> HIDE DEF t
<1>12. rest' = t \o x
  BY <1>7, <1>9, <1>11, AppendIsConcat
<1> HIDE DEF x
<1>13. (out \o (t \o x)) \o todo' = (out \o t) \o (x \o todo')
  <2>1. Chain(Chain(out, Chain(t, x)), todo') = Chain(Chain(out, t), Chain(x, todo'))
    BY <1>8, <1>9, <1>11, HandedOver
  <2> QED
    BY <2>1 DEF Chain
<1>14. Taken' = (out \o t) \o todo
  <2>1. Taken' = (out' \o rest') \o todo'
    BY DEF Taken
  <2> QED
    BY <1>4, <1>10, <1>12, <1>13, <2>1
<1>15. LET u == (out \o rest) \o todo
           v == (out \o t) \o todo
       IN  /\ Rising(u) => Rising(v)
           /\ \A w : Below(u, w) => Below(v, w)
           /\ \A n : UpTo(n, u) => UpTo(n, v)
  BY <1>6, <1>8, OldestGone DEF t
<1> QED
  BY <1>2, <1>14, <1>15

LEMMA TakenMore ==
  ASSUME Base, Types', Counts', switches = 0, switches' = 0, TakeFrame \/ TakeRaw,
         Rising(Taken), Below(Taken, Arriving)
  PROVE  /\ Taken' = Taken \o todo'
         /\ Rising(Taken') /\ Below(Taken', Arriving')
         /\ \A n \in Nat : UpTo(n, Taken) /\ AtMost(n, Arriving) => UpTo(n, Taken')
<1> USE DEF Base, wire, conn, buffers, rings, loop, loopRest, gui
<1>1. /\ count \in 0 .. RingSize /\ need \in 0 .. count
  BY QueueIs
<1>2. /\ rest = QueueOf(ring, head, count - need) /\ rest \in Seq(Values)
      /\ Taken = (out \o rest) \o todo /\ Taken \in Seq(Values)
  BY RestIs
<1>3. UNCHANGED <<ring, head, count, need, out>> /\ dpc = "frames"
  BY DEF TakeFrame, TakeRaw
<1>4. rest' = rest
  <2>1. count' \in 0 .. RingSize /\ need' \in 0 .. count'
    BY <1>1 DEF Counts
  <2>2. rest' = QueueOf(ring', head', count' - need')
    BY <2>1, RestAfter
  <2> QED
    BY <1>2, <1>3, <2>2
<1>5. out \in Seq(Values) /\ todo = << >> /\ out \o rest \in Seq(Values)
  BY <1>2, <1>3, ConcatProperties DEF Types, Counts
<1>6. Taken = out \o rest
  BY <1>2, <1>5, ConcatEmptySeq
<1> DEFINE f == todo'
           w == Arriving
           v == Arriving'
           s == Taken
<1>7. Taken' = s \o f
  <2>1. Taken' = (out' \o rest') \o todo'
    BY DEF Taken
  <2> QED
    BY <1>3, <1>4, <1>6, <2>1
<1>8. PICK n \in 0 .. Len(staged) :
         /\ n = IF TakeFrame THEN FrameLen + 1 ELSE Len(staged)
         /\ SubSeq(staged, 1, n) \in Seq(Unit) /\ v \in Seq(Unit)
         /\ w = SubSeq(staged, 1, n) \o v
  BY TakenOff
<1> DEFINE p == SubSeq(staged, 1, n)
<1>9. Len(p) = n /\ p \in Seq(Unit)
  BY <1>8, Cut, ZenonT(60) DEF Types
<1>10. /\ w \in Seq(Unit) /\ Upwards(w) /\ Framed(w) /\ f \in Seq(Values)
       /\ \A i \in 1 .. Len(staged) : w[i] = staged[i]
       /\ Len(staged) \in Nat /\ FrameLen \in Nat \ {0}
  BY ArrivingIs, TciAssumption, SMTT(40) DEF Wire, Types
<1>11. \E at \in 0 .. 1 :
          /\ Len(f) + at = Len(p)
          /\ \A i \in 1 .. Len(f) : f[i] = IF w[i + at].k = "smp" THEN w[i + at].v ELSE 0
  <2>1. CASE TakeFrame
    <3>1. f = [i \in 1 .. FrameLen |-> staged[i + 1].v] /\ FrameFirst(staged)
      BY <2>1 DEF TakeFrame
    <3>2. \A i \in 1 .. FrameLen : i + 1 \in 1 .. Len(staged) /\ staged[i + 1].k = "smp"
      BY <3>1, StagedFrame DEF Wire
    <3>3. Len(f) = FrameLen /\ Len(p) = FrameLen + 1
      BY <1>8, <1>9, <1>10, <2>1, <3>1
    <3> HIDE DEF f, w, p
    <3>4. ASSUME NEW i \in 1 .. FrameLen
          PROVE  f[i] = IF w[i + 1].k = "smp" THEN w[i + 1].v ELSE 0
      <4>1. f[i] = staged[i + 1].v
        BY <3>1
      <4>2. w[i + 1] = staged[i + 1] /\ staged[i + 1].k = "smp"
        BY <1>10, <3>2
      <4> QED
        BY <4>1, <4>2
    <3> QED
      BY <1>10, <3>3, <3>4
  <2>2. CASE ~TakeFrame
    <3>1. f = [i \in DOMAIN staged |-> IF staged[i].k = "smp" THEN staged[i].v ELSE 0]
      BY <2>2 DEF TakeRaw
    <3>2. DOMAIN staged = 1 .. Len(staged)
      BY DEF Types
    <3>3. Len(f) = Len(staged) /\ Len(p) = Len(staged)
      BY <1>8, <1>9, <1>10, <2>2, <3>1, <3>2
    <3> HIDE DEF f, w, p
    <3>4. ASSUME NEW i \in 1 .. Len(staged)
          PROVE  f[i] = IF w[i].k = "smp" THEN w[i].v ELSE 0
      BY <1>10, <3>1, <3>2
    <3>5. \A i \in 1 .. Len(staged) : i + 0 = i
      BY <1>10
    <3> QED
      BY <1>10, <3>3, <3>4, <3>5
  <2> QED
    BY <2>1, <2>2
<1>12. s \in Seq(Values) /\ Rising(s) /\ Below(s, w)
  BY <1>2
<1>13. v \in Seq(Unit) /\ w = p \o v
  BY <1>8
<1>14. PICK at \in 0 .. 1 :
          /\ Len(f) + at = Len(p)
          /\ \A i \in 1 .. Len(f) : f[i] = IF w[i + at].k = "smp" THEN w[i + at].v ELSE 0
  BY <1>11
<1> HIDE DEF f, w, v, s, p
<1>15. /\ Rising(s \o f) /\ Below(s \o f, v)
       /\ \A m \in Nat : UpTo(m, s) /\ AtMost(m, w) => UpTo(m, s \o f)
  BY <1>9, <1>10, <1>12, <1>13, <1>14, TakenOn
<1> QED
  BY <1>7, <1>15 DEF f, w, v, s

LEMMA StartKept ==
  ASSUME Session, [Next]_vars, dpc' \in {"start", "open"}
  PROVE  dpc \in {"start", "open"}
BY DEF Session, Next, Detection, Gui, Radio, vars, wire, conn, buffers, rings, loop, loopRest,
     gui, Det, Probe,
     TcpConnect, WsConnect, OpenTraining, StartStream, TcpReceive, TcpClosed, WsReceive,
     WsClosed, TrainingRead, TrainingEof, ServiceReturns, ParseText, ParseFrame,
     ParseStops, Read, TakeFrame, TakeRaw, FramesDone, Push, PushDone, Get, GetRelease,
     TakeDone, LoopEnd, Destroy, Stop, SwitchMode, SwitchStop, SwitchHead, SwitchCount,
     SwitchSubscribe, SwitchFreed, RadioFrame, RadioText, RadioClose

LEMMA TransportKept ==
  ASSUME [Next]_vars, ~Probe
  PROVE  transport' = transport
BY DEF Next, Detection, Gui, Radio, vars, wire, conn, buffers, rings, loop, gui,
     TcpConnect, WsConnect, OpenTraining, StartStream, TcpReceive, TcpClosed, WsReceive,
     WsClosed, TrainingRead, TrainingEof, ServiceReturns, ParseText, ParseFrame,
     ParseStops, Read, TakeFrame, TakeRaw, FramesDone, Push, PushDone, Get, GetRelease,
     TakeDone, LoopEnd, Destroy, Stop, SwitchMode, SwitchStop, SwitchHead, SwitchCount,
     SwitchSubscribe, SwitchFreed, RadioFrame, RadioText, RadioClose

LEMMA SwitchesGrow ==
  ASSUME Session, [Next]_vars, switches' = 0
  PROVE  switches = 0
<1>1. switches \in Nat
  BY TciAssumption DEF Session
<1>2. CASE SwitchMode
  BY <1>1, <1>2 DEF SwitchMode
<1>3. CASE ~SwitchMode
  <2>1. switches' = switches
    BY <1>3 DEF Next, Detection, Gui, Radio, vars, gui, Probe,
     TcpConnect, WsConnect, OpenTraining, StartStream, TcpReceive, TcpClosed, WsReceive,
     WsClosed, TrainingRead, TrainingEof, ServiceReturns, ParseText, ParseFrame,
     ParseStops, Read, TakeFrame, TakeRaw, FramesDone, Push, PushDone, Get, GetRelease,
     TakeDone, LoopEnd, Destroy, Stop, SwitchStop, SwitchHead, SwitchCount,
     SwitchSubscribe, SwitchFreed, RadioFrame, RadioText, RadioClose
  <2> QED
    BY <2>1
<1> QED
  BY <1>2, <1>3

\* Samples keep their order on their way.
LEMMA FlowStep ==
  ASSUME Base, Base', Flow, [Next]_vars PROVE Flow'
<1> SUFFICES ASSUME switches' = 0
             PROVE  /\ Rising(Taken') /\ Below(Taken', Arriving')
                    /\ transport' # "training" => UpTo(frames' * FrameLen, Taken')
                    /\ dpc' \in {"start", "open"} => Taken' = << >>
  BY DEF Flow
<1> USE DEF wire, conn, buffers, rings, loop, loopRest, gui
<1>1. switches = 0 /\ Session /\ Types /\ Counts /\ Wire /\ Types' /\ Counts'
  BY SwitchesGrow DEF Base
<1>2. /\ Rising(Taken) /\ Below(Taken, Arriving)
      /\ transport # "training" => UpTo(frames * FrameLen, Taken)
      /\ dpc \in {"start", "open"} => Taken = << >>
  BY <1>1 DEF Flow
<1>3. Taken \in Seq(Values) /\ Arriving \in Seq(Unit) /\ frames \in Nat /\ MaxFrames \in Nat
  BY <1>1, RestIs, ArrivingIs, TciAssumption, SMTT(40) DEF Types
<1>4. dpc' \in {"start", "open"} => dpc \in {"start", "open"}
  BY <1>1, StartKept
<1>5. CASE ~TakeFrame /\ ~TakeRaw /\ ~(Push /\ count = RingSize)
  <2>1. Taken' = Taken
    BY <1>1, <1>5, TakenSame
  <2>2. dpc' \in {"start", "open"} => Taken' = << >>
    BY <1>2, <1>4, <2>1
  <2> DEFINE s == Taken
             w == Arriving
             v == Arriving'
  <2>3. s \in Seq(Values) /\ Rising(s) /\ Below(s, w) /\ w \in Seq(Unit)
    BY <1>2, <1>3
  <2>4. ASSUME s = << >> PROVE Below(s, v) /\ \A n : UpTo(n, s)
    BY <2>4 DEF Below, UpTo
  <2>5. CASE OpenTraining \/ Probe
    <3>1. dpc \in {"start", "open"}
      BY <2>5 DEF OpenTraining, Probe
    <3>2. s = << >>
      BY <1>2, <3>1
    <3> HIDE DEF s, v
    <3>3. Below(s, v) /\ \A n : UpTo(n, s)
      BY <2>4, <3>2
    <3> QED
      BY <2>1, <2>2, <2>3, <3>3 DEF s, v
  <2>6. CASE RadioFrame
    <3>1. PICK m \in Modes : /\ v = w \o Frame(frames + 1, m)
                             /\ frames < MaxFrames /\ frames' = frames + 1
      BY <1>1, <2>6, FrameArrives
    <3>2. transport # "training" /\ transport' = transport
      BY <2>6 DEF RadioFrame, Live
    <3>3. Framed(w) /\ Upwards(w) /\ Whole(w) /\ AtMost(frames * FrameLen, w)
      BY <1>1, <3>2 DEF Wire
    <3>4. s \in Seq(Nat) /\ \A i \in 1 .. Len(s) : s[i] <= frames * FrameLen
      <4>1. s \in Seq(Nat)
        BY <2>3, ValuesNat, SeqMonotonic
      <4> QED
        BY <1>2, <3>2, <4>1 DEF UpTo
    <3> HIDE DEF w, v, s
    <3>5. Below(s, w \o Frame(frames + 1, m))
      BY <1>3, <2>3, <3>1, <3>3, <3>4, WithFrame
    <3>6. UpTo((frames + 1) * FrameLen, s)
      <4>1. /\ frames * FrameLen \in Nat /\ (frames + 1) * FrameLen \in Nat
            /\ frames * FrameLen <= (frames + 1) * FrameLen
        BY <1>3, Product, TciAssumption
      <4> DEFINE a == frames * FrameLen
                 b == (frames + 1) * FrameLen
      <4>2. a \in Nat /\ b \in Nat /\ a <= b /\ \A i \in 1 .. Len(s) : s[i] \in Nat /\ s[i] <= a
        BY <3>4, <4>1
      <4> HIDE DEF a, b
      <4>3. UpTo(b, s)
        BY <4>2 DEF UpTo
      <4> QED
        BY <4>3 DEF b
    <3> QED
      BY <2>1, <2>2, <2>3, <3>1, <3>5, <3>6 DEF s, v
  <2>7. CASE RadioText
    <3>1. frames' = frames /\ \E n \in 0 .. 1 : v = w \o <<Txt(n), Semi>>
      BY <1>1, <2>7, TextArrives
    <3>2. transport # "training" /\ transport' = transport
      BY <2>7 DEF RadioText, Live
    <3>3. Framed(w) /\ Upwards(w) /\ Whole(w)
      BY <1>1, <3>2 DEF Wire
    <3>4. UpTo(frames * FrameLen, s)
      BY <1>2, <3>2
    <3> HIDE DEF w, v, s
    <3>5. Below(s, v)
      BY <2>3, <3>1, <3>3, WithText
    <3> QED
      BY <2>1, <2>2, <2>3, <3>1, <3>4, <3>5 DEF s, v
  <2>8. CASE TrainingEof
    <3>1. w = v \o stream /\ v \in Seq(Unit) /\ stream \in Seq(Unit)
      BY <1>1, <2>8, EndDropped
    <3>2. transport' = "training"
      BY <2>8 DEF TrainingEof
    <3>3. Framed(w) /\ Upwards(w) /\ NoText(w)
      BY <1>1, <2>8 DEF Wire, TrainingEof
    <3> HIDE DEF w, v, s
    <3>4. \A i \in 1 .. Len(v) : v[i].k # "txt"
      BY <3>1, <3>3, Joined DEF NoText
    <3>5. Below(s, v)
      BY <2>3, <3>1, <3>3, <3>4, EarlierUnits
    <3> QED
      BY <2>1, <2>2, <2>3, <3>2, <3>5 DEF s, v
  <2>9. CASE ~OpenTraining /\ ~Probe /\ ~RadioFrame /\ ~RadioText /\ ~TrainingEof
    <3>1. Keeps(w, v) /\ frames' = frames
      BY <1>1, <2>9, KeptStep
    <3>2. transport' = transport
      BY <2>9, TransportKept
    <3>3. transport' # "training" => UpTo(frames' * FrameLen, s)
      BY <1>2, <3>1, <3>2
    <3> HIDE DEF w, v, s
    <3>4. Below(s, v)
      BY <2>3, <3>1 DEF Keeps
    <3> QED
      BY <2>1, <2>2, <2>3, <3>3, <3>4 DEF s, v
  <2> QED
    BY <2>5, <2>6, <2>7, <2>8, <2>9
<1>6. CASE Push /\ count = RingSize
  <2>1. /\ Rising(Taken) => Rising(Taken')
        /\ \A w : Below(Taken, w) => Below(Taken', w)
        /\ \A n : UpTo(n, Taken) => UpTo(n, Taken')
    BY <1>1, <1>6, TakenFull
  <2>2. /\ ~OpenTraining /\ ~RadioFrame /\ ~RadioText /\ ~TrainingEof
        /\ dpc' \notin {"start", "open"} /\ transport' = transport
    BY <1>6 DEF Push, OpenTraining, RadioFrame, RadioText, TrainingEof
  <2>3. Keeps(Arriving, Arriving') /\ frames' = frames
    BY <1>1, <2>2, KeptStep
  <2> DEFINE s == Taken
             t == Taken'
             w == Arriving
             v == Arriving'
             n == frames * FrameLen
  <2>4. /\ Rising(t) /\ Below(t, w)
        /\ transport # "training" => UpTo(n, t)
        /\ frames' * FrameLen = n
    BY <1>2, <2>1, <2>3
  <2>5. Keeps(w, v)
    BY <2>3
  <2> HIDE DEF s, t, w, v, n
  <2>6. Below(t, v)
    BY <2>4, <2>5 DEF Keeps
  <2> QED
    BY <2>2, <2>4, <2>6 DEF t, v
<1>7. CASE TakeFrame \/ TakeRaw
  <2>1. /\ Rising(Taken') /\ Below(Taken', Arriving')
        /\ \A n \in Nat : UpTo(n, Taken) /\ AtMost(n, Arriving) => UpTo(n, Taken')
    BY <1>1, <1>2, <1>7, TakenMore DEF Base
  <2>2. dpc' \notin {"start", "open"} /\ transport' = transport /\ frames' = frames
    BY <1>7 DEF TakeFrame, TakeRaw, Det
  <2>3. transport # "training" => AtMost(frames * FrameLen, Arriving)
    BY <1>1 DEF Wire
  <2>4. frames * FrameLen \in Nat
    BY <1>3, Product, TciAssumption
  <2> QED
    BY <1>2, <2>1, <2>2, <2>3, <2>4
<1> QED
  BY <1>5, <1>6, <1>7

LEMMA FlowInit == Init => Base /\ Flow
<1> SUFFICES ASSUME Init PROVE Flow
  BY BaseInit
<1>1. Types /\ Counts /\ switches = 0
  BY BaseInit DEF Base, Init
<1>2. rest \in Seq(Values) /\ Len(rest) = 0
  BY <1>1, RestIs DEF Init
<1>3. rest = << >> /\ out = << >> /\ todo = << >>
  BY <1>2 DEF Init
<1>4. Taken = << >>
  BY <1>3 DEF Taken
<1> QED
  BY <1>4 DEF Flow, Rising, Below, UpTo

\* tci_tcp_parse_stream_buffer, tci_stage_audio_nolock, tci_read_iq_samples,
\* tci_get_iq_samples: while the stream is not switched, the detection loop sees
\* samples in the order they were sent, none of them twice, whatever carried
\* them, in whatever pieces and whatever overflowed on the way.
THEOREM SamplesInOrder == Spec => []InOrder
<1>1. Init => Base /\ Flow
  BY FlowInit
<1>2. Base /\ Flow /\ [Next]_vars => (Base /\ Flow)'
  BY BaseStep, FlowStep
<1>3. Base /\ Flow => InOrder
  <2> SUFFICES ASSUME Base, Flow PROVE InOrder
    OBVIOUS
  <2> USE DEF Base
  <2>1. TypeOK
    <3>1. /\ peer \in BOOLEAN /\ client \in BOOLEAN /\ connected \in BOOLEAN
          /\ socket \in BOOLEAN /\ wctx \in BOOLEAN /\ tctx \in BOOLEAN /\ eof \in BOOLEAN
          /\ audio_only \in BOOLEAN /\ running \in BOOLEAN
      BY DEF Types
    <3>2. count \in -Need .. RingSize
      BY TciAssumption DEF Counts
    <3>3. /\ radio \subseteq Modes /\ transport \in {"tcp", "ws", "training"} /\ pref \in Modes
      BY DEF Session
    <3>4. /\ frames \in 0 .. MaxFrames /\ texts \in 0 .. 1
          /\ transport = "ws" => Len(staged) <= StageMax
          /\ ring \in [0 .. RingSize - 1 -> 0 .. MaxFrames * FrameLen]
          /\ head \in 0 .. RingSize - 1 /\ chunks \in 0 .. MaxChunks
      BY DEF Types, Values
    <3> QED
      BY <3>1, <3>2, <3>3, <3>4 DEF TypeOK
  <2>2. ASSUME switches = 0, NEW i \in 1 .. Len(out), NEW j \in 1 .. Len(out), i < j,
               out[i] > 0, out[j] > 0
        PROVE  out[i] < out[j]
    <3>1. /\ out \in Seq(Values) /\ rest \in Seq(Values) /\ todo \in Seq(Values)
          /\ Taken = (out \o rest) \o todo /\ Rising(Taken)
      BY <2>2, RestIs DEF Types, Flow
    <3> DEFINE u == out \o rest
    <3>2. /\ u \in Seq(Values) /\ Len(out) \in Nat /\ Len(rest) \in Nat /\ Len(todo) \in Nat
          /\ \A k \in 1 .. Len(out) : k \in 1 .. Len(u) /\ u[k] = out[k]
      BY <3>1, Joined
    <3> HIDE DEF u
    <3>3. \A k \in 1 .. Len(u) : k \in 1 .. Len(u \o todo) /\ (u \o todo)[k] = u[k]
      BY <3>1, <3>2, Joined
    <3>4. \A k \in 1 .. Len(out) : k \in 1 .. Len(Taken) /\ Taken[k] = out[k]
      BY <3>1, <3>2, <3>3 DEF u
    <3> QED
      BY <2>2, <3>1, <3>4 DEF Rising
  <2> QED
    BY <2>1, <2>2 DEF InOrder
<1> QED
  BY <1>1, <1>2, <1>3, PTL DEF Spec
-------------------------------------------------------------------------------
\* A training file while the stream is not switched.
LEMMA SmallMultiple ==
  ASSUME NEW a \in Nat, a * (FrameLen + 1) <= FrameLen PROVE a = 0
<1>1. FrameLen \in 0 .. FrameLen /\ 0 \in 0 .. FrameLen /\ a * (FrameLen + 1) \in Nat
  BY TciAssumption
<1>2. a * (FrameLen + 1) + 0 <= 0 * (FrameLen + 1) + FrameLen
  BY <1>1
<1>3. a < 0 \/ (a = 0 /\ 0 <= FrameLen)
  BY <1>1, <1>2, Unique
<1> QED
  BY <1>3

\* What is staged of a file is whole frames, and what follows starts with one.
LEMMA FileFrames ==
  ASSUME Types, NEW n \in Nat, InFile(n), Places
  PROVE  /\ staged # << >> => FrameFirst(staged)
         /\ stream # << >> => stream[1].k = "hdr"
<1>1. /\ FrameLen \in Nat \ {0} /\ Len(staged) \in Nat /\ Len(stream) \in Nat
      /\ staged # << >> => Len(staged) > 0
      /\ stream # << >> => Len(stream) > 0
  BY TciAssumption DEF Types
<1> DEFINE w == Arriving
<1>2. /\ \A i \in 1 .. Len(staged) : i \in 1 .. Len(w) /\ w[i] = staged[i]
      /\ \A i \in 1 .. Len(stream) : w[Len(staged) + i] = stream[i]
      /\ Len(w) = Len(staged) + Len(stream) + Len(net) /\ Len(net) \in Nat
  BY ArrivingIs DEF Types
<1>3. FromFrame(n, w)
  BY DEF InFile
<1>4. PICK c \in Nat : Len(staged) = c * (FrameLen + 1)
  BY DEF Places, InFrames
<1> HIDE DEF w
<1>5. \A a \in Nat : a * (FrameLen + 1) \in Nat /\ a * (FrameLen + 1) + 1 <= Len(w)
                        => w[a * (FrameLen + 1) + 1] = Hdr("iq")
  <2> SUFFICES ASSUME NEW a \in Nat, a * (FrameLen + 1) \in Nat,
                      a * (FrameLen + 1) + 1 <= Len(w)
               PROVE  w[a * (FrameLen + 1) + 1] = Hdr("iq")
    OBVIOUS
  <2> DEFINE p == a * (FrameLen + 1)
  <2>1. 0 \in 0 .. FrameLen /\ p + 0 + 1 = p + 1
    BY <1>1
  <2>2. p + 0 + 1 <= Len(w) => w[p + 0 + 1] = IF 0 = 0 THEN Hdr("iq") ELSE Smp((n + a) * FrameLen + 0)
    BY <1>3, <2>1 DEF FromFrame
  <2> HIDE DEF p
  <2>3. p + 1 <= Len(w) => w[p + 1] = Hdr("iq")
    BY <2>1, <2>2
  <2> QED
    BY <2>3 DEF p
<1>6. Hdr("iq").k = "hdr"
  BY DEF Hdr
<1>7. ASSUME staged # << >> PROVE FrameFirst(staged)
  <2>1. Len(staged) >= FrameLen + 1
    <3>1. c # 0
      BY <1>1, <1>4, <1>7
    <3>2. 1 * (FrameLen + 1) <= c * (FrameLen + 1)
      BY <1>1, <3>1, Product
    <3> QED
      BY <1>1, <1>4, <3>2
  <2>2. 1 \in 1 .. Len(staged) /\ 1 <= Len(w)
    BY <1>1, <1>2, <2>1
  <2>3. w[1] = Hdr("iq")
    <3>1. 0 * (FrameLen + 1) = 0 /\ 0 * (FrameLen + 1) + 1 = 1
      BY <1>1
    <3> QED
      BY <1>5, <2>2, <3>1
  <2> QED
    BY <1>2, <1>6, <1>7, <2>1, <2>2, <2>3 DEF FrameFirst
<1>8. ASSUME stream # << >> PROVE stream[1].k = "hdr"
  <2>1. 1 \in 1 .. Len(stream) /\ Len(staged) + 1 <= Len(w)
    BY <1>1, <1>2, <1>8
  <2>2. w[Len(staged) + 1] = Hdr("iq")
    BY <1>1, <1>4, <1>5, <2>1
  <2> QED
    BY <1>2, <1>6, <2>1, <2>2
<1> QED
  BY <1>7, <1>8

LEMMA FreshStep ==
  ASSUME Session, Fresh, [Next]_vars PROVE Fresh'
<1> SUFFICES ASSUME dpc' \in {"start", "open"} PROVE got' = 0 /\ ~eof'
  BY DEF Fresh
<1>1. dpc \in {"start", "open"}
  BY StartKept
<1>2. got' = got /\ (eof' = eof \/ ~eof')
  BY <1>1 DEF Session, Next, Detection, Gui, Radio, vars, wire, conn, buffers, rings, loop,
     loopRest, gui, Det, Probe,
     TcpConnect, WsConnect, OpenTraining, StartStream, TcpReceive, TcpClosed, WsReceive,
     WsClosed, TrainingRead, TrainingEof, ServiceReturns, ParseText, ParseFrame,
     ParseStops, Read, TakeFrame, TakeRaw, FramesDone, Push, PushDone, Get, GetRelease,
     TakeDone, LoopEnd, Destroy, Stop, SwitchMode, SwitchStop, SwitchHead, SwitchCount,
     SwitchSubscribe, SwitchFreed, RadioFrame, RadioText, RadioClose
<1> QED
  BY <1>1, <1>2 DEF Fresh

\* The steps of a session over a file whose stream is not switched.
LEMMA FileActions ==
  ASSUME Session, [Next]_vars, transport = "training", switches = 0, switches' = 0,
         dpc \notin {"start", "open", "done"}
  PROVE  \/ StartStream \/ TrainingRead \/ TrainingEof \/ ServiceReturns
         \/ ParseText \/ ParseFrame \/ ParseStops \/ Read \/ TakeFrame \/ TakeRaw
         \/ FramesDone \/ Push \/ PushDone \/ Get \/ GetRelease \/ TakeDone \/ LoopEnd
         \/ dpc = "cleanup" /\ dpc' = "done"
         \/ UNCHANGED <<net, frames, stream, staged, eof, connected, dpc, todo, got, rings>>
<1> USE DEF Session, Det, wire, conn, buffers, rings, loop, loopRest, gui
<1>1. gpc = "idle"
  OBVIOUS
<1>2. CASE Probe \/ TcpConnect \/ WsConnect \/ OpenTraining \/ TcpReceive \/ TcpClosed
           \/ WsReceive \/ WsClosed \/ Destroy
  BY <1>2 DEF Probe, TcpConnect, WsConnect, OpenTraining, TcpReceive, TcpClosed, WsReceive,
              WsClosed, Destroy
<1>3. CASE Stop \/ UNCHANGED vars
  BY <1>3 DEF Stop, vars
<1>4. CASE SwitchMode
  <2>1. switches' = switches + 1
    BY <1>4 DEF SwitchMode
  <2> QED
    BY <2>1
<1>5. CASE SwitchStop \/ SwitchHead \/ SwitchCount \/ SwitchSubscribe \/ SwitchFreed \/ Radio
  BY <1>1, <1>5 DEF SwitchStop, SwitchHead, SwitchCount, SwitchSubscribe, SwitchFreed, Radio,
                    RadioFrame, RadioText, RadioClose, Live
<1> QED
  BY <1>2, <1>3, <1>4, <1>5 DEF Next, Detection, Gui

\* A file that is open: where its units are after a step.
LEMMA PlacesStep ==
  ASSUME Types, Counts, NEW n \in Nat, InFile(n), Places, connected,
         transport = "training", Session,
         \/ StartStream \/ TrainingRead \/ TrainingEof \/ ServiceReturns
         \/ ParseText \/ ParseFrame \/ ParseStops \/ Read \/ TakeFrame \/ TakeRaw
         \/ FramesDone \/ Push \/ PushDone \/ Get \/ GetRelease \/ TakeDone \/ LoopEnd,
         NoText(Arriving)
  PROVE  Places' /\ connected' /\ ~ParseText /\ ~TakeRaw
<1> USE DEF Det, wire, conn, buffers, rings, loop, loopRest, gui
<1>1. /\ FrameLen \in Nat \ {0} /\ Len(staged) \in Nat /\ Len(stream) \in Nat /\ got \in {0, 1}
      /\ staged \in Seq(Unit) /\ stream \in Seq(Unit) /\ net \in Seq(Unit)
      /\ staged # << >> => FrameFirst(staged)
      /\ stream # << >> => stream[1].k = "hdr"
  BY TciAssumption, FileFrames DEF Types
<1>2. /\ InFrames(Len(staged))
      /\ dpc # "parse" => Len(stream) <= FrameLen
      /\ dpc \notin {"parse", "read", "frames", "push"} => staged = << >>
      /\ dpc = "frames" => staged # << >> \/ got = 1
      /\ dpc = "push" => todo # << >> \/ got = 1
      /\ dpc \notin {"frames", "push"} => got = 0
      /\ eof => net = << >> /\ stream = << >>
  BY DEF Places
<1>3. ~ParseText
  <2> SUFFICES ASSUME ParseText PROVE FALSE
    OBVIOUS
  <2>1. Len(stream) > 1 /\ stream[1].k = "txt"
    BY DEF ParseText
  <2> QED
    BY <1>1, <2>1
<1>4. ~TakeRaw
  <2> SUFFICES ASSUME TakeRaw PROVE FALSE
    OBVIOUS
  <2>1. dpc = "frames" /\ ~FrameFirst(staged) /\ got = 0
    BY DEF TakeRaw
  <2> QED
    BY <1>1, <1>2, <2>1
<1> SUFFICES Places' /\ connected'
  BY <1>3, <1>4
<1>5. CASE StartStream
  BY <1>2, <1>5 DEF StartStream, Subscribe, Places
<1>6. CASE TrainingRead
  BY <1>2, <1>6 DEF TrainingRead, Places
<1>7. CASE TrainingEof
  <2>1. stream' = << >> /\ net = << >> /\ net' = net /\ Len(<< >>) = 0
    BY <1>7 DEF TrainingEof
  <2> QED
    BY <1>1, <1>2, <1>7, <2>1 DEF TrainingEof, Places
<1>8. CASE ServiceReturns \/ Read \/ PushDone \/ Get \/ GetRelease \/ TakeDone \/ LoopEnd
  <2>1. UNCHANGED <<net, stream, staged, eof, connected, got>>
    BY <1>8 DEF ServiceReturns, Read, PushDone, Get, GetRelease, TakeDone, LoopEnd
  <2>2. \/ dpc = "service" /\ dpc' = "read"
        \/ dpc = "read" /\ dpc' = "take" /\ staged = << >>
        \/ dpc = "read" /\ dpc' = "frames" /\ staged # << >>
        \/ dpc = "push" /\ dpc' = "frames" /\ todo = << >>
        \/ dpc \in {"take", "taken", "end"}
             /\ dpc' \in {"take", "taken", "end", "service", "cleanup"}
    BY <1>8 DEF ServiceReturns, Read, PushDone, Get, GetRelease, TakeDone, LoopEnd
  <2> QED
    BY <1>2, <2>1, <2>2 DEF Places
<1>9. CASE ParseFrame
  <2>1. /\ FrameFirst(stream) /\ dpc = "parse" /\ dpc' = dpc /\ Len(stream) >= FrameLen + 1
        /\ staged' = staged \o SubSeq(stream, 1, FrameLen + 1)
        /\ UNCHANGED <<net, eof, connected, got>>
    BY <1>9 DEF ParseFrame, FrameFirst
  <2>2. FrameLen + 1 \in 0 .. Len(stream)
    BY <1>1, <2>1
  <2> DEFINE p == SubSeq(stream, 1, FrameLen + 1)
  <2>3. p \in Seq(Unit) /\ Len(p) = FrameLen + 1
    BY <1>1, <2>2, Cut
  <2> HIDE DEF p
  <2>4. Len(staged \o p) = Len(staged) + (FrameLen + 1)
    <3>1. staged \in Seq(Unit)
      BY <1>1
    <3>2. Len(staged \o p) = Len(staged) + Len(p)
      BY <2>3, <3>1, ConcatProperties
    <3> QED
      BY <2>3, <3>2
  <2>5. InFrames(Len(staged'))
    <3>1. PICK c \in Nat : Len(staged) = c * (FrameLen + 1)
      BY <1>2 DEF InFrames
    <3>2. (c + 1) * (FrameLen + 1) = c * (FrameLen + 1) + (FrameLen + 1) /\ c + 1 \in Nat
      BY <1>1
    <3> QED
      BY <2>1, <2>4, <3>1, <3>2 DEF p, InFrames
  <2>6. ~eof
    <3>1. Len(<< >>) = 0
      OBVIOUS
    <3> QED
      BY <1>1, <1>2, <2>1, <3>1
  <2> QED
    BY <1>2, <2>1, <2>5, <2>6 DEF Places
<1>10. CASE ParseStops
  <2>1. Len(stream) <= FrameLen
    <3>1. stream = << >> => Len(stream) = 0
      OBVIOUS
    <3> QED
      BY <1>1, <1>10, <3>1 DEF ParseStops, FrameFirst
  <2> QED
    BY <1>2, <1>10, <2>1 DEF ParseStops, Places
<1>11. CASE TakeFrame
  <2>1. /\ FrameFirst(staged) /\ dpc' = "push" /\ dpc = "frames"
        /\ Len(staged) >= FrameLen + 1
        /\ staged' = SubSeq(staged, FrameLen + 2, Len(staged))
        /\ todo' = [i \in 1 .. FrameLen |-> staged[i + 1].v]
        /\ UNCHANGED <<net, stream, eof, connected, got>>
    BY <1>11 DEF TakeFrame, FrameFirst
  <2>2. FrameLen + 1 \in 0 .. Len(staged) /\ (FrameLen + 1) + 1 = FrameLen + 2
    BY <1>1, <2>1
  <2> DEFINE m == FrameLen + 1
  <2>3. Len(SubSeq(staged, m + 1, Len(staged))) = Len(staged) - m
    <3>1. m \in 0 .. Len(staged)
      BY <2>2
    <3> HIDE DEF m
    <3> QED
      BY <1>1, <3>1, Cut
  <2>4. Len(staged') = Len(staged) - (FrameLen + 1)
    BY <2>1, <2>2, <2>3
  <2>5. InFrames(Len(staged'))
    <3>1. PICK c \in Nat : Len(staged) = c * (FrameLen + 1)
      BY <1>2 DEF InFrames
    <3>2. c # 0
      BY <1>1, <2>1, <3>1
    <3>3. (c - 1) * (FrameLen + 1) = c * (FrameLen + 1) - (FrameLen + 1) /\ c - 1 \in Nat
      BY <1>1, <3>2
    <3> QED
      BY <2>4, <3>1, <3>3 DEF InFrames
  <2>6. todo' # << >>
    <3>1. Len(todo') = FrameLen
      BY <1>1, <2>1
    <3>2. Len(<< >>) = 0
      OBVIOUS
    <3> QED
      BY <1>1, <3>1, <3>2
  <2> QED
    BY <1>2, <2>1, <2>5, <2>6 DEF Places
<1>12. CASE FramesDone
  BY <1>1, <1>2, <1>12 DEF FramesDone, Places
<1>13. CASE Push
  BY <1>2, <1>13 DEF Push, Places
<1> QED
  BY <1>3, <1>4, <1>5, <1>6, <1>7, <1>8, <1>9, <1>10, <1>11, <1>12, <1>13

\* What is staged or parsed fits into the ring.
LEMMA FitsStep ==
  ASSUME Types, Counts, NEW n \in Nat, InFile(n), Places, Fits, connected, RoomForRead,
         \/ StartStream \/ TrainingRead \/ TrainingEof \/ ServiceReturns
         \/ ParseFrame \/ ParseStops \/ Read \/ TakeFrame
         \/ FramesDone \/ Push \/ PushDone \/ Get \/ GetRelease \/ TakeDone \/ LoopEnd
  PROVE  Fits' /\ ~(Push /\ count = RingSize)
<1> USE DEF Det, wire, conn, buffers, rings, loop, loopRest, gui
<1>1. /\ FrameLen \in Nat \ {0} /\ RecvMax \in Nat /\ Room \in Nat /\ RingSize \in Nat
      /\ Room <= RingSize
      /\ Len(staged) \in Nat /\ Len(stream) \in Nat /\ Len(todo) \in Nat
      /\ count \in Int /\ count <= RingSize
  BY TciAssumption, SMTT(40) DEF Types, Counts
<1>2. /\ dpc # "parse" => Len(stream) <= FrameLen
      /\ dpc \notin {"parse", "read", "frames", "push"} => Len(staged) = 0
      /\ dpc # "push" => Len(todo) = 0
  <2>1. Len(<< >>) = 0
    OBVIOUS
  <2> QED
    BY <2>1 DEF Places, Counts
<1> DEFINE Room0(l, c) == \A a \in Nat : a * (FrameLen + 1) <= l => c + a * FrameLen <= RingSize
<1>3. /\ dpc \in {"parse", "read", "frames", "push"}
            => Room0(Len(staged) + Len(stream), count + Len(todo))
      /\ Room0(Len(staged') + Len(stream'), count' + Len(todo')) => Fits'
  BY DEF Fits
<1>4. ASSUME NEW c \in Int, c <= RingSize PROVE \A l \in 0 .. FrameLen : Room0(l, c)
  <2> SUFFICES ASSUME NEW l \in 0 .. FrameLen, NEW a \in Nat, a * (FrameLen + 1) <= l
               PROVE  c + a * FrameLen <= RingSize
    OBVIOUS
  <2>1. a * (FrameLen + 1) \in Nat /\ a * (FrameLen + 1) <= FrameLen
    BY <1>1
  <2>2. a = 0
    BY <2>1, SmallMultiple
  <2>3. 0 * FrameLen = 0
    BY <1>1
  <2> QED
    BY <1>1, <1>4, <2>2, <2>3
<1> HIDE DEF Room0
<1>5. ASSUME dpc' \notin {"parse", "read", "frames", "push"}, ~Push PROVE Fits' /\ ~Push
  BY <1>5 DEF Fits
<1>6. CASE StartStream \/ FramesDone \/ Get \/ GetRelease \/ TakeDone \/ LoopEnd
  <2>1. dpc' \notin {"parse", "read", "frames", "push"} /\ ~Push
    BY <1>6 DEF StartStream, FramesDone, Get, GetRelease, TakeDone, LoopEnd, Push
  <2> QED
    BY <1>5, <2>1
<1>7. CASE TrainingRead
  <2>1. /\ dpc = "service" /\ count <= RingSize - Room /\ ~Push
        /\ UNCHANGED <<count, staged, todo>>
    BY <1>7 DEF TrainingRead, Push
  <2>2. Len(stream') \in Nat /\ Len(stream') <= Len(stream) + RecvMax
    <3> DEFINE k == IF Len(net) < RecvMax THEN Len(net) ELSE RecvMax
               p == SubSeq(net, 1, k)
    <3>4. stream \in Seq(Unit) /\ net \in Seq(Unit) /\ stream' = stream \o p
      BY <1>7 DEF TrainingRead, Types
    <3>5. Len(net) \in Nat
      BY <3>4
    <3>1. k \in 0 .. Len(net) /\ k <= RecvMax
      BY <1>1, <3>5
    <3> HIDE DEF k
    <3>2. p \in Seq(Unit) /\ Len(p) = k
      BY <3>1, <3>4, Cut
    <3> HIDE DEF p
    <3>3. Len(stream') = Len(stream) + Len(p)
      BY <3>2, <3>4, ConcatProperties
    <3> QED
      BY <1>1, <3>1, <3>2, <3>3
  <2>3. Len(staged') + Len(stream') <= FrameLen + RecvMax
    BY <1>1, <1>2, <2>1, <2>2
  <2>4. ASSUME NEW a \in Nat, a * (FrameLen + 1) <= Len(staged') + Len(stream')
        PROVE  count' + Len(todo') + a * FrameLen <= RingSize
    <3>1. /\ a * (FrameLen + 1) \in Nat /\ a * FrameLen \in Nat
          /\ a * (FrameLen + 1) = a * FrameLen + a
      BY <1>1
    <3>2. a * (FrameLen + 1) <= FrameLen + RecvMax /\ a \in 0 .. FrameLen + RecvMax
      BY <1>1, <1>2, <2>1, <2>2, <2>3, <2>4, <3>1
    <3>3. a * FrameLen <= Room
      BY <3>2 DEF RoomForRead
    <3> QED
      BY <1>1, <1>2, <2>1, <3>1, <3>3
  <2> QED
    BY <2>1, <2>4 DEF Fits
<1>8. CASE TrainingEof \/ ServiceReturns
  <2>1. /\ dpc = "service" /\ UNCHANGED <<count, staged, todo>> /\ ~Push
        /\ stream' = stream \/ stream' = << >>
    BY <1>8 DEF TrainingEof, ServiceReturns, Push
  <2>2. Len(staged') + Len(stream') \in 0 .. FrameLen /\ count' + Len(todo') = count
    <3>1. Len(<< >>) = 0
      OBVIOUS
    <3> QED
      BY <1>1, <1>2, <2>1, <3>1
  <2> QED
    BY <1>1, <1>3, <1>4, <2>1, <2>2
<1>9. CASE ParseFrame
  <2>1. /\ dpc = "parse" /\ UNCHANGED <<count, todo>> /\ ~Push
        /\ staged' = staged \o SubSeq(stream, 1, FrameLen + 1)
        /\ stream' = SubSeq(stream, FrameLen + 2, Len(stream))
        /\ Len(stream) >= FrameLen + 1
    BY <1>9 DEF ParseFrame, FrameFirst, Push
  <2> DEFINE k == FrameLen + 1
             p == SubSeq(stream, 1, k)
  <2>2. /\ k \in 0 .. Len(stream) /\ k + 1 = FrameLen + 2
        /\ stream \in Seq(Unit) /\ staged \in Seq(Unit)
    <3>1. k \in 0 .. Len(stream) /\ k + 1 = FrameLen + 2
      BY <1>1, <2>1
    <3>2. stream \in Seq(Unit) /\ staged \in Seq(Unit)
      BY DEF Types
    <3> QED
      BY <3>1, <3>2
  <2> HIDE DEF k
  <2>3. p \in Seq(Unit) /\ Len(p) = k /\ Len(SubSeq(stream, k + 1, Len(stream))) = Len(stream) - k
    BY <2>2, Cut
  <2> HIDE DEF p
  <2>4. Len(staged \o p) = Len(staged) + Len(p)
    BY <2>2, <2>3, ConcatProperties
  <2>5. Len(staged') = Len(staged) + k
    BY <2>1, <2>3, <2>4 DEF p, k
  <2>6. Len(stream') = Len(stream) - k
    BY <2>1, <2>2, <2>3
  <2>7. Len(staged') + Len(stream') = Len(staged) + Len(stream)
    BY <1>1, <2>2, <2>5, <2>6
  <2> QED
    BY <1>3, <2>1, <2>7
<1>10. CASE ParseStops \/ Read \/ PushDone
  <2>1. UNCHANGED <<count, staged, stream, todo>> /\ dpc \in {"parse", "read", "push"} /\ ~Push
    BY <1>10 DEF ParseStops, Read, PushDone, Push
  <2> QED
    BY <1>3, <2>1
<1>11. CASE TakeFrame
  <2>1. /\ dpc = "frames" /\ UNCHANGED <<count, stream>> /\ ~Push
        /\ staged' = SubSeq(staged, FrameLen + 2, Len(staged))
        /\ todo' = [i \in 1 .. FrameLen |-> staged[i + 1].v]
        /\ Len(staged) >= FrameLen + 1
    BY <1>11 DEF TakeFrame, FrameFirst, Push
  <2> DEFINE k == FrameLen + 1
  <2>2. k \in 0 .. Len(staged) /\ k + 1 = FrameLen + 2 /\ staged \in Seq(Unit)
    <3>1. k \in 0 .. Len(staged) /\ k + 1 = FrameLen + 2
      BY <1>1, <2>1
    <3>2. staged \in Seq(Unit)
      BY DEF Types
    <3> QED
      BY <3>1, <3>2
  <2> HIDE DEF k
  <2>3. Len(SubSeq(staged, k + 1, Len(staged))) = Len(staged) - k
    BY <2>2, Cut
  <2>4. Len(staged') = Len(staged) - k /\ Len(todo') = FrameLen
    <3>1. Len(todo') = FrameLen
      BY <1>1, <2>1
    <3>2. staged' = SubSeq(staged, k + 1, Len(staged))
      BY <2>1, <2>2
    <3> QED
      BY <2>3, <3>1, <3>2
  <2>5. ASSUME NEW a \in Nat, a * (FrameLen + 1) <= Len(staged') + Len(stream')
        PROVE  count' + Len(todo') + a * FrameLen <= RingSize
    <3>1. /\ (a + 1) * (FrameLen + 1) = a * (FrameLen + 1) + (FrameLen + 1)
          /\ (a + 1) * FrameLen = a * FrameLen + FrameLen /\ a + 1 \in Nat
          /\ a * (FrameLen + 1) \in Nat /\ a * FrameLen \in Nat
      BY <1>1
    <3>2. (a + 1) * (FrameLen + 1) <= Len(staged) + Len(stream)
      BY <1>1, <2>1, <2>4, <2>5, <3>1 DEF k
    <3>3. Room0(Len(staged) + Len(stream), count + Len(todo))
      BY <1>3, <2>1
    <3>4. count + Len(todo) + (a + 1) * FrameLen <= RingSize
      BY <3>1, <3>2, <3>3 DEF Room0
    <3> QED
      BY <1>1, <1>2, <2>1, <2>4, <3>1, <3>4
  <2> QED
    BY <2>1, <2>5 DEF Fits
<1>12. CASE Push
  <2>1. /\ dpc = "push" /\ todo # << >> /\ todo' = Tail(todo) /\ UNCHANGED <<stream, staged>>
        /\ count' = IF count < RingSize THEN count + 1 ELSE count
    BY <1>12 DEF Push
  <2>2. Len(todo) > 0 /\ Len(todo') = Len(todo) - 1
    BY <1>1, <2>1 DEF Types
  <2>3. Room0(Len(staged) + Len(stream), count + Len(todo))
    BY <1>3, <2>1
  <2>4. count + Len(todo) <= RingSize
    <3>1. 0 * (FrameLen + 1) = 0 /\ 0 * FrameLen = 0
      BY <1>1
    <3> QED
      BY <1>1, <2>3, <3>1 DEF Room0
  <2>5. count < RingSize
    BY <1>1, <2>2, <2>4
  <2>6. count' + Len(todo') = count + Len(todo)
    BY <1>1, <2>1, <2>2, <2>5
  <2>7. Len(staged') + Len(stream') = Len(staged) + Len(stream)
    BY <2>1
  <2>8. Room0(Len(staged') + Len(stream'), count' + Len(todo'))
    BY <2>3, <2>6, <2>7
  <2>9. ~(count = RingSize)
    BY <1>1, <2>5
  <2> QED
    BY <1>3, <2>8, <2>9
<1> QED
  BY <1>6, <1>7, <1>8, <1>9, <1>10, <1>11, <1>12

\* The next frame is taken.
LEMMA NextFrame ==
  ASSUME Base, Types', Counts', Flow, switches = 0, switches' = 0, NEW n \in Nat, InFile(n), TakeFrame
  PROVE  InFile(n + 1)'
<1> USE DEF Base
<1> DEFINE w == Arriving
           v == Arriving'
           f == todo'
           p == SubSeq(staged, 1, FrameLen + 1)
<1>1. /\ FrameLen \in Nat \ {0} /\ FrameLen + 1 \in Nat /\ FrameFirst(staged)
      /\ f = [i \in 1 .. FrameLen |-> staged[i + 1].v] /\ frames' = frames
  BY TciAssumption DEF TakeFrame, wire
<1>2. /\ FrameLen + 1 \in 1 .. Len(staged)
      /\ \A i \in 1 .. FrameLen : i + 1 \in 1 .. Len(staged)
  BY <1>1, StagedFrame DEF Wire
<1>3. /\ w \in Seq(Unit)
      /\ \A i \in 1 .. Len(staged) : i \in 1 .. Len(w) /\ w[i] = staged[i]
      /\ staged \in Seq(Unit) /\ Len(staged) \in Nat /\ frames \in Nat
  BY ArrivingIs, SMTT(40) DEF Types
<1>4. p \in Seq(Unit) /\ v \in Seq(Unit) /\ w = p \o v /\ Len(p) = FrameLen + 1
  <2>1. PICK m \in 0 .. Len(staged) :
            /\ m = IF TakeFrame THEN FrameLen + 1 ELSE Len(staged)
            /\ SubSeq(staged, 1, m) \in Seq(Unit) /\ Arriving' \in Seq(Unit)
            /\ Arriving = SubSeq(staged, 1, m) \o Arriving'
    BY TakenOff
  <2>2. m = FrameLen + 1
    BY <2>1
  <2>3. Len(SubSeq(staged, 1, m)) = m
    BY <1>3, <2>1, Cut
  <2> QED
    BY <2>1, <2>2, <2>3
<1>5. Taken' = Taken \o f
  BY TakenMore DEF Flow
<1>6. /\ Taken = Numbers(n * FrameLen) /\ FromFrame(n, w)
      /\ frames * (FrameLen + 1) <= n * (FrameLen + 1) + Len(w)
      /\ n * (FrameLen + 1) + Len(w) < (frames + 1) * (FrameLen + 1)
  BY DEF InFile
<1> HIDE DEF w, v, f, p
<1>7. /\ Len(v) \in Nat /\ Len(w) = FrameLen + 1 + Len(v)
      /\ \A i \in 1 .. Len(v) : v[i] = w[FrameLen + 1 + i]
  <2>1. /\ Len(v) \in Nat /\ Len(p \o v) = Len(p) + Len(v)
        /\ \A i \in 1 .. Len(v) : (p \o v)[Len(p) + i] = v[i]
    <3>1. p \in Seq(Unit) /\ v \in Seq(Unit)
      BY <1>4
    <3> QED
      BY <3>1, Joined
  <2> QED
    BY <1>4, <2>1
<1>12. FrameLen \in Nat /\ Len(v) \in Nat /\ Len(w) = FrameLen + 1 + Len(v)
  BY <1>1, <1>7
<1>8. /\ n * FrameLen \in Nat /\ (n + 1) * FrameLen = n * FrameLen + FrameLen
      /\ (n + 1) * (FrameLen + 1) = n * (FrameLen + 1) + (FrameLen + 1)
      /\ n * (FrameLen + 1) \in Nat /\ n + 1 \in Nat
  BY <1>1
<1>9. Taken' = Numbers((n + 1) * FrameLen)
  <2>1. ASSUME NEW i \in 1 .. FrameLen PROVE f[i] = n * FrameLen + i
    <3>1. i \in 0 .. FrameLen /\ i # 0 /\ i + 1 \in 1 .. Len(staged) /\ i + 1 <= Len(w)
      <4>1. i \in 0 .. FrameLen /\ i # 0
        BY <1>1
      <4>2. i + 1 \in 1 .. Len(staged) /\ i + 1 \in 1 .. Len(w)
        BY <1>2, <1>3
      <4> QED
        BY <4>1, <4>2
    <3>2. 0 * (FrameLen + 1) + i + 1 = i + 1 /\ n + 0 = n
      BY <1>1
    <3>3. w[i + 1] = Smp(n * FrameLen + i)
      BY <1>6, <3>1, <3>2 DEF FromFrame
    <3>4. f[i] = staged[i + 1].v /\ w[i + 1] = staged[i + 1]
      BY <1>1, <1>3, <3>1
    <3> QED
      BY <3>3, <3>4 DEF Smp
  <2> DEFINE k == n * FrameLen
  <2>2. k \in Nat /\ FrameLen \in Nat
    BY <1>1, <1>8
  <2>3. f = [i \in 1 .. FrameLen |-> k + i]
    BY <1>1, <2>1
  <2> HIDE DEF k
  <2>4. Numbers(k) \o [i \in 1 .. FrameLen |-> k + i] = Numbers(k + FrameLen)
    BY <2>2 DEF Numbers
  <2> QED
    BY <1>5, <1>6, <1>8, <2>3, <2>4 DEF k
<1>10. FromFrame(n + 1, v)
  <2> SUFFICES ASSUME NEW a \in Nat, NEW j \in 0 .. FrameLen,
                      a * (FrameLen + 1) + j + 1 <= Len(v)
               PROVE  v[a * (FrameLen + 1) + j + 1]
                        = IF j = 0 THEN Hdr("iq") ELSE Smp(((n + 1) + a) * FrameLen + j)
    BY DEF FromFrame
  <2>1. /\ (a + 1) * (FrameLen + 1) = a * (FrameLen + 1) + (FrameLen + 1)
        /\ a * (FrameLen + 1) \in Nat /\ a + 1 \in Nat /\ n + (a + 1) = (n + 1) + a
    BY <1>1
  <2> DEFINE q == a * (FrameLen + 1)
             r == (a + 1) * (FrameLen + 1)
             i == q + j + 1
  <2>6. q \in Nat /\ r = q + (FrameLen + 1) /\ q + j + 1 <= Len(v) /\ j \in Nat
    BY <1>1, <2>1
  <2> HIDE DEF q, r
  <2>2. i \in 1 .. Len(v) /\ FrameLen + 1 + i = r + j + 1
    BY <1>12, <2>6
  <2>3. r + j + 1 <= Len(w)
    BY <1>12, <2>6
  <2> USE DEF q, r
  <2>4. w[(a + 1) * (FrameLen + 1) + j + 1]
          = IF j = 0 THEN Hdr("iq") ELSE Smp((n + (a + 1)) * FrameLen + j)
    BY <1>6, <2>1, <2>3 DEF FromFrame
  <2>5. v[i] = w[FrameLen + 1 + i]
    BY <1>7, <2>2
  <2> QED
    BY <2>1, <2>2, <2>4, <2>5
<1>11. /\ frames * (FrameLen + 1) <= (n + 1) * (FrameLen + 1) + Len(v)
       /\ (n + 1) * (FrameLen + 1) + Len(v) < (frames + 1) * (FrameLen + 1)
  <2> DEFINE x == frames * (FrameLen + 1)
             y == n * (FrameLen + 1)
             z == (n + 1) * (FrameLen + 1)
             u == (frames + 1) * (FrameLen + 1)
  <2>3. x \in Nat /\ u \in Nat
    <3>1. frames \in Nat
      BY <1>3
    <3> QED
      BY <1>12, <3>1
  <2>4. y \in Nat /\ z = y + (FrameLen + 1)
    BY <1>8
  <2>5. x <= y + Len(w) /\ y + Len(w) < u
    BY <1>6
  <2>1. /\ x \in Nat /\ y \in Nat /\ u \in Nat /\ z = y + (FrameLen + 1)
        /\ x <= y + Len(w) /\ y + Len(w) < u
    BY <2>3, <2>4, <2>5
  <2> HIDE DEF x, y, z, u
  <2>2. x <= z + Len(v) /\ z + Len(v) < u
    BY <1>12, <2>1
  <2> QED
    BY <2>2 DEF x, y, z, u
<1> QED
  BY <1>1, <1>9, <1>10, <1>11 DEF InFile, v

\* At the end of the file every complete frame was taken.
LEMMA AllFrames ==
  ASSUME Types, NEW n \in Nat, InFile(n), Len(Arriving) <= FrameLen
  PROVE  n = frames
<1>1. /\ FrameLen \in Nat \ {0} /\ frames \in Nat /\ Len(Arriving) \in Nat
      /\ n * (FrameLen + 1) \in Nat /\ frames * (FrameLen + 1) \in Nat
      /\ (frames + 1) * (FrameLen + 1) = frames * (FrameLen + 1) + (FrameLen + 1)
  BY TciAssumption, ArrivingIs DEF Types
<1>2. /\ frames * (FrameLen + 1) <= n * (FrameLen + 1) + Len(Arriving)
      /\ n * (FrameLen + 1) + Len(Arriving) < (frames + 1) * (FrameLen + 1)
  BY DEF InFile
<1> DEFINE x == frames * (FrameLen + 1)
           y == n * (FrameLen + 1)
           l == Len(Arriving)
           u == (frames + 1) * (FrameLen + 1)
<1>3. x \in Nat /\ y \in Nat /\ l \in Nat /\ l <= FrameLen /\ u = x + (FrameLen + 1)
      /\ x <= y + l /\ y + l < u
  BY <1>1, <1>2
<1> HIDE DEF x, y, l, u
<1>4. x + 0 <= y + FrameLen /\ y + 0 <= x + FrameLen
  BY <1>1, <1>3
<1>5. 0 \in 0 .. FrameLen /\ FrameLen \in 0 .. FrameLen
  BY <1>1
<1>6. frames * (FrameLen + 1) + 0 <= n * (FrameLen + 1) + FrameLen
  BY <1>4 DEF x, y
<1>7. n * (FrameLen + 1) + 0 <= frames * (FrameLen + 1) + FrameLen
  BY <1>4 DEF x, y
<1>8. frames < n \/ (frames = n /\ 0 <= FrameLen)
  BY <1>1, <1>5, <1>6, Unique
<1>9. n < frames \/ (n = frames /\ 0 <= FrameLen)
  BY <1>1, <1>5, <1>7, Unique
<1> QED
  BY <1>1, <1>8, <1>9

LEMMA FileOpened ==
  ASSUME Base, Types', Counts', Flow, Fresh, switches = 0, switches' = 0,
         [Next]_vars, OpenTraining, connected'
  PROVE  Places' /\ Fits' /\ InFile(0)'
<1> USE DEF Base, Det, wire, conn, buffers, rings, loop, loopRest, gui
<1>1. PICK len \in 0 .. MaxFrames * (FrameLen + 1) :
         /\ Arriving' = TrainingFile(len) /\ frames' = len \div (FrameLen + 1)
         /\ dpc' = "subscribe" /\ eof' = FALSE
         /\ UNCHANGED <<staged, stream>> /\ staged = << >> /\ stream = << >>
  <2>1. ~connected /\ dpc = "open"
    BY DEF Session, OpenTraining
  <2> QED
    BY <2>1, FileArrives
<1>2. got' = 0
  BY DEF OpenTraining, Fresh
<1>3. FrameLen \in Nat /\ Len(<< >>) = 0 /\ 0 * (FrameLen + 1) = 0 /\ 0 * FrameLen = 0
  BY TciAssumption
<1>4. Places'
  BY <1>1, <1>2, <1>3 DEF Places, InFrames
<1>5. Fits'
  BY <1>1 DEF Fits
<1>6. Taken' = << >>
  <2>1. dpc = "open" /\ ~TakeFrame /\ ~TakeRaw /\ ~Push
    BY DEF OpenTraining, TakeFrame, TakeRaw, Push
  <2> QED
    BY <2>1, TakenSame DEF Flow
<1>7. Numbers(0) = << >>
  BY DEF Numbers
<1> DEFINE f == TrainingFile(len)
           n == len \div (FrameLen + 1)
<1>8. /\ FromFrame(0, f) /\ Len(f) = len
      /\ n * (FrameLen + 1) <= len /\ len < (n + 1) * (FrameLen + 1)
  BY FileIs
<1> HIDE DEF f, n
<1>9. InFile(0)'
  <2>1. Arriving' = f /\ frames' = n
    BY <1>1 DEF f, n
  <2>2. 0 * (FrameLen + 1) + len = len
    BY <1>3
  <2> QED
    BY <1>3, <1>6, <1>7, <1>8, <2>1, <2>2 DEF InFile
<1> QED
  BY <1>4, <1>5, <1>9

LEMMA StartSteps ==
  ASSUME Session, [Next]_vars, transport = "training", dpc \in {"start", "open", "done"},
         dpc' \notin {"start", "open", "done"}, ~Probe
  PROVE  OpenTraining
BY DEF Session, Next, Detection, Gui, Radio, vars, wire, conn, buffers, rings, loop, loopRest,
     gui, Det,
     TcpConnect, WsConnect, StartStream, TcpReceive, TcpClosed, WsReceive,
     WsClosed, TrainingRead, TrainingEof, ServiceReturns, ParseText, ParseFrame,
     ParseStops, Read, TakeFrame, TakeRaw, FramesDone, Push, PushDone, Get, GetRelease,
     TakeDone, LoopEnd, Destroy, Stop, SwitchMode, SwitchStop, SwitchHead, SwitchCount,
     SwitchSubscribe, SwitchFreed, RadioFrame, RadioText, RadioClose

LEMMA FileStep ==
  ASSUME Base, Base', Flow, Fresh, File, [Next]_vars, RoomForRead PROVE File'
<1> SUFFICES ASSUME transport' = "training", switches' = 0,
                    dpc' \notin {"start", "open", "done"}
             PROVE  \/ connected' /\ Places' /\ Fits' /\ \E n \in Nat : InFile(n)'
                    \/ ~connected' /\ dpc' = "cleanup" /\ ~eof'
  BY DEF File
<1>1. switches = 0 /\ Session /\ Types /\ Counts /\ Wire /\ Types' /\ Counts' /\ Wire'
  BY SwitchesGrow DEF Base
<1>2. ~Probe
  BY DEF Probe, Det
<1>3. transport = "training"
  BY <1>2, TransportKept
<1>4. CASE OpenTraining
  <2>1. CASE connected'
    <3>1. Places' /\ Fits' /\ InFile(0)'
      BY <1>1, <1>4, <2>1, FileOpened
    <3>2. 0 \in Nat
      OBVIOUS
    <3> QED
      BY <2>1, <3>1, <3>2
  <2>2. CASE ~connected'
    <3>1. dpc' = "cleanup" /\ eof' = eof /\ dpc = "open"
      BY <1>4, <2>2 DEF OpenTraining, Det
    <3> QED
      BY <2>2, <3>1 DEF Fresh
  <2> QED
    BY <2>1, <2>2
<1>5. CASE dpc \in {"start", "open", "done"}
  BY <1>1, <1>2, <1>3, <1>4, <1>5, StartSteps
<1>6. CASE dpc \notin {"start", "open", "done"}
  <2>1. \/ StartStream \/ TrainingRead \/ TrainingEof \/ ServiceReturns
        \/ ParseText \/ ParseFrame \/ ParseStops \/ Read \/ TakeFrame \/ TakeRaw
        \/ FramesDone \/ Push \/ PushDone \/ Get \/ GetRelease \/ TakeDone \/ LoopEnd
        \/ UNCHANGED <<net, frames, stream, staged, eof, connected, dpc, todo, got, rings>>
    BY <1>1, <1>3, <1>6, FileActions
  <2>2. CASE ~connected /\ dpc = "cleanup" /\ ~eof
    <3>1. UNCHANGED <<eof, connected, dpc>>
      BY <2>1, <2>2 DEF StartStream, TrainingRead, TrainingEof, ServiceReturns, ParseText,
         ParseFrame, ParseStops, Read, TakeFrame, TakeRaw, FramesDone, Push, PushDone, Get,
         GetRelease, TakeDone, LoopEnd
    <3> QED
      BY <2>2, <3>1
  <2>3. CASE connected /\ Places /\ Fits /\ \E n \in Nat : InFile(n)
    <3>1. PICK n \in Nat : InFile(n)
      BY <2>3
    <3>2. NoText(Arriving)
      BY <1>1, <1>3 DEF Wire
    <3>3. CASE UNCHANGED <<net, frames, stream, staged, eof, connected, dpc, todo, got, rings>>
      <4>1. ~OpenTraining /\ ~TakeFrame /\ ~TakeRaw /\ ~(Push /\ count = RingSize)
        <5>1. ~TakeFrame /\ ~TakeRaw
          BY <3>3 DEF TakeFrame, TakeRaw, Det
        <5>2. ~Push
          <6> SUFFICES ASSUME Push PROVE FALSE
            OBVIOUS
          <6>1. todo \in Seq(Values) /\ todo # << >>
            BY <1>1 DEF Push, Types
          <6>2. Len(Tail(todo)) = Len(todo) - 1 /\ Len(todo) \in Nat
            BY <6>1
          <6>3. Len(Tail(todo)) = Len(todo)
            BY <3>3 DEF Push
          <6> QED
            BY <6>2, <6>3
        <5> QED
          BY <1>6, <5>1, <5>2 DEF OpenTraining
      <4>2. Taken' = Taken
        BY <1>1, <4>1, TakenSame
      <4>3. Arriving' = Arriving /\ frames' = frames
        BY <3>3 DEF Arriving
      <4>4. Places' /\ Fits' /\ connected'
        BY <2>3, <3>3 DEF Places, Fits, rings
      <4>5. InFile(n)'
        BY <3>1, <4>2, <4>3 DEF InFile
      <4> QED
        BY <4>4, <4>5
    <3>4. CASE ~ UNCHANGED <<net, frames, stream, staged, eof, connected, dpc, todo, got, rings>>
      <4>1. Places' /\ connected' /\ ~ParseText /\ ~TakeRaw
        BY <1>1, <1>3, <2>1, <2>3, <3>1, <3>2, <3>4, PlacesStep
      <4>2. Fits' /\ ~(Push /\ count = RingSize)
        BY <1>1, <2>1, <2>3, <3>1, <3>4, <4>1, FitsStep
      <4>3. CASE TakeFrame
        <5>1. InFile(n + 1)' /\ n + 1 \in Nat
          BY <1>1, <3>1, <4>3, NextFrame
        <5> QED
          BY <4>1, <4>2, <5>1
      <4>4. CASE ~TakeFrame
        <5>1. Taken' = Taken
          BY <1>1, <4>1, <4>2, <4>4, TakenSame
        <5>2. CASE TrainingEof
          <6>1. /\ Arriving = Arriving' \o stream /\ Arriving' = staged /\ staged' = staged
                /\ frames' = frames /\ staged \in Seq(Unit) /\ stream \in Seq(Unit)
            BY <1>1, <5>2, EndDropped
          <6>2. staged = << >> /\ Len(stream) <= FrameLen
            BY <2>3, <5>2 DEF Places, TrainingEof
          <6>3. Len(Arriving) <= FrameLen
            BY <6>1, <6>2, ConcatEmptySeq
          <6>4. n = frames
            BY <1>1, <3>1, <6>3, AllFrames
          <6>5. Arriving' = << >>
            BY <6>1, <6>2
          <6>6. FromFrame(n, << >>)
            <7>1. \A a \in Nat, j \in 0 .. FrameLen : ~(a * (FrameLen + 1) + j + 1 <= 0)
              BY TciAssumption
            <7>2. Len(<< >>) = 0
              OBVIOUS
            <7> QED
              BY <7>1, <7>2 DEF FromFrame
          <6>7. /\ n * (FrameLen + 1) + 0 = n * (FrameLen + 1)
                /\ frames * (FrameLen + 1) <= n * (FrameLen + 1)
                /\ n * (FrameLen + 1) < (frames + 1) * (FrameLen + 1)
            <7>1. /\ n * (FrameLen + 1) \in Nat /\ FrameLen \in Nat
                  /\ (n + 1) * (FrameLen + 1) = n * (FrameLen + 1) + (FrameLen + 1)
              BY TciAssumption
            <7> QED
              BY <6>4, <7>1
          <6>8. Len(<< >>) = 0
            OBVIOUS
          <6>9. InFile(n)'
            BY <3>1, <5>1, <6>1, <6>5, <6>6, <6>7, <6>8 DEF InFile
          <6> QED
            BY <4>1, <4>2, <6>9
        <5>3. CASE ~TrainingEof
          <6>1. Arriving' = Arriving /\ frames' = frames
            <7>1. CASE TrainingRead \/ ParseFrame
              <8>1. frames' = frames
                BY <7>1 DEF TrainingRead, ParseFrame, wire
              <8> QED
                BY <1>1, <7>1, <8>1, Moved
            <7>2. CASE ~TrainingRead /\ ~ParseFrame
              <8>1. UNCHANGED <<net, frames, stream, staged>>
                BY <2>1, <3>4, <4>1, <4>4, <5>3, <7>2 DEF StartStream, ServiceReturns,
                   ParseStops, Read, FramesDone, Push, PushDone, Get, GetRelease, TakeDone,
                   LoopEnd, wire, buffers
              <8> QED
                BY <8>1 DEF Arriving
            <7> QED
              BY <7>1, <7>2
          <6>2. InFile(n)'
            BY <3>1, <5>1, <6>1 DEF InFile
          <6> QED
            BY <4>1, <4>2, <6>2
        <5> QED
          BY <5>2, <5>3
      <4> QED
        BY <4>3, <4>4
    <3> QED
      BY <3>3, <3>4
  <2> QED
    BY <1>1, <1>3, <1>6, <2>2, <2>3 DEF File
<1> QED
  BY <1>5, <1>6

\* tci_training_service, tci_training_finished: a training file that has ended
\* by itself was handed on to its last complete frame, when what one read
\* completes fits into the room the code keeps free.
THEOREM FileHandedOn ==
  ASSUME RoomForRead PROVE Spec => []TrainingComplete
<1> DEFINE Inv == Base /\ Flow /\ Fresh /\ File
<1>1. Init => Inv
  BY BaseInit, FlowInit DEF Fresh, File, Init
<1>2. Inv /\ [Next]_vars => Inv'
  BY BaseStep, FlowStep, FreshStep, FileStep DEF Base
<1>3. Inv => TrainingComplete
  <2> SUFFICES ASSUME Inv, AtEof, Finished, switches = 0, dpc = "cleanup"
               PROVE  out = [i \in 1 .. frames * FrameLen |-> i]
    BY DEF TrainingComplete
  <2> USE DEF Base
  <2>1. PICK n \in Nat : InFile(n)
    BY DEF File, AtEof
  <2>2. stream = << >> /\ staged = << >> /\ net = << >>
    BY DEF File, AtEof, Finished, Places
  <2>3. Len(Arriving) <= FrameLen
    <3>1. Len(<< >>) = 0
      OBVIOUS
    <3> QED
      BY <2>2, <3>1, ArrivingIs, TciAssumption
  <2>4. n = frames
    BY <2>1, <2>3, AllFrames
  <2>5. Len(rest) = 0 /\ rest \in Seq(Values) /\ Taken = (out \o rest) \o todo
    <3>1. count = 0 /\ need = 0
      BY DEF Counts, Finished
    <3>2. Len(rest) = count - need /\ rest \in Seq(Values) /\ Taken = (out \o rest) \o todo
      BY RestIs
    <3> QED
      BY <3>1, <3>2
  <2>6. rest = << >> /\ todo = << >> /\ out \in Seq(Values)
    BY <2>5 DEF Counts, Types
  <2>7. Taken = out
    BY <2>5, <2>6, ConcatEmptySeq
  <2> QED
    BY <2>1, <2>4, <2>7 DEF InFile, Numbers
<1> QED
  BY <1>1, <1>2, <1>3, PTL DEF Spec
===============================================================================
