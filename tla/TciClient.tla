------------------------------- MODULE TciClient -------------------------------
(***************************************************************************)
(* The TCI client (tci_client.c): a session connects to the radio over TCP *)
(* or a WebSocket, or opens a training file, subscribes a stream and turns *)
(* what arrives into samples in a ring, which the detection loop empties.  *)
(* Meanwhile the GUI may switch the stream between IQ and audio, which     *)
(* clears the ring without a lock.                                         *)
(*                                                                         *)
(* Bytes are grouped in units: a text and its ';', a frame header, and one *)
(* unit per sample of a frame.  Samples are numbered as the radio (or the  *)
(* file) sends them; sample 0 is what a header looks like when its bytes   *)
(* are taken for samples.  The detection thread makes one step per loop    *)
(* iteration of the parsers and one per sample it puts into the ring.      *)
(***************************************************************************)
EXTENDS Integers, Sequences

CONSTANTS Transports,  \* those a session may use
          StartModes,  \* what config tci_stream_mode may be at first
          FrameLen,    \* samples per frame
          MaxFrames,   \* bound: frames the radio sends, or a file holds
          RecvMax,     \* units one recv or fread returns
          StageMax,    \* TCI_RX_BUFFER_SIZE, in units
          RingSize,    \* IQ_BUFFER_SIZE
          Room,        \* what a training file leaves free in the ring
          Need,        \* IQ_PROCESS_CHUNK
          MaxChunks,   \* MAX_IQ_CHUNKS_PER_LOOP
          MaxSwitches  \* bound: stream switches by the GUI

ASSUME TciAssumption ==
    /\ StartModes \subseteq {"iq", "audio"}
    /\ Transports \subseteq {"tcp", "ws", "training"}
    /\ FrameLen \in Nat \ {0} /\ MaxFrames \in Nat
    /\ RecvMax \in Nat \ {0} /\ StageMax \in Nat
    /\ RingSize \in Nat \ {0} /\ Need \in Nat \ {0} /\ MaxChunks \in Nat \ {0}
    /\ Room \in Nat /\ Room <= RingSize
    /\ MaxSwitches \in Nat

\* The frames completed by one read (8192 bytes, after what an earlier read
\* left of a frame) have room in what is left free of the ring (32768 samples).
RoomForRead == \A n \in 0 .. FrameLen + RecvMax :
                   n * (FrameLen + 1) <= FrameLen + RecvMax => n * FrameLen <= Room

VARIABLES
    net,              \* units on their way from the radio, or left in the file
    frames, texts,    \* frames and texts the radio has sent; frames of a file
    radio,            \* streams the radio has been told to send
    peer,             \* the radio has closed the connection
    client, transport,\* the client exists; how it is connected
    connected, socket,\* client->connected, client->socket_fd >= 0
    wctx, tctx,       \* g_ws_context, g_tcp_context exist
    stream, staged,   \* TCP bytes not parsed; binary bytes not taken
    eof,              \* g_training_eof
    pref, audio_only, \* g_stream_mode_pref, g_stream_audio_only
    center,           \* center_frequency: number of the text that set it
    ring, head, count,\* iq_buffer, buffer_head, buffer_count
    running,          \* detector->running
    dpc, todo, got,   \* the detection thread: samples to put, samples put
    avail, need,      \* its locals: available, and what it is taking
    chunks,
    out,              \* the samples it has handed on
    gpc, switches     \* the GUI thread in config_set("tci_stream_mode")

wire    == <<net, frames, texts, radio, peer>>
conn    == <<client, transport, connected, socket, wctx, tctx>>
buffers == <<stream, staged, eof, audio_only, center>>
rings   == <<ring, head, count>>
loop    == <<running, dpc, todo, got, avail, need, chunks, out>>
gui     == <<pref, gpc, switches>>
vars    == <<wire, conn, buffers, rings, loop, gui>>

-------------------------------------------------------------------------------
(* Units.                                                                  *)
Modes == {"iq", "audio"}

Hdr(m) == [k |-> "hdr", v |-> m]
Smp(n) == [k |-> "smp", v |-> n]
Txt(n) == [k |-> "txt", v |-> n]
Semi   == [k |-> "end", v |-> 0]

\* unit p of a stream of frames, counted from 0
UnitAt(p, m) == IF p % (FrameLen + 1) = 0 THEN Hdr(m)
                                          ELSE Smp(p - p \div (FrameLen + 1))

\* the n-th frame, of stream m
Frame(n, m) == [i \in 1 .. FrameLen + 1 |->
                   IF i = 1 THEN Hdr(m) ELSE Smp((n - 1) * FrameLen + i - 1)]

\* what follows the texts of a training file: frames, the last perhaps cut short
TrainingFile(len) == [i \in 1 .. len |-> UnitAt(i - 1, "iq")]

\* a complete frame at the front of a buffer
FrameFirst(b) == b # << >> /\ b[1].k = "hdr" /\ Len(b) >= FrameLen + 1

\* the WebSocket hands on pieces of one message
OneMessage(b) == \A i \in 2 .. Len(b) : b[i].k \notin {"hdr", "txt"}

Init == /\ net = << >> /\ frames = 0 /\ texts = 0 /\ radio = {} /\ peer = FALSE
        /\ client = FALSE /\ transport = "tcp" /\ connected = FALSE
        /\ socket = FALSE /\ wctx = FALSE /\ tctx = FALSE
        /\ stream = << >> /\ staged = << >> /\ eof = FALSE
        /\ pref \in StartModes /\ audio_only = FALSE /\ center = 0
        /\ ring = [i \in 0 .. RingSize - 1 |-> 0] /\ head = 0 /\ count = 0
        /\ running = TRUE /\ dpc = "start" /\ todo = << >> /\ got = 0
        /\ avail = 0 /\ need = 0 /\ chunks = 0 /\ out = << >>
        /\ gpc = "idle" /\ switches = 0

-------------------------------------------------------------------------------
(* Opening the session, with detector->lock held.                          *)
Det(l) == dpc' = l

\* tci_client_create, and the test connection of tci_client_connect
Probe == /\ dpc = "start"
         /\ client' = TRUE
         /\ \E t \in Transports :
              /\ transport' = t
              /\ Det("open") \/ (t # "training" /\ Det("cleanup"))
         /\ UNCHANGED <<wire, connected, socket, wctx, tctx, buffers, rings,
                        running, todo, got, avail, need, chunks, out, gui>>

\* tci_tcp_connect: the context is freed when no address answers
TcpConnect ==
    /\ dpc = "open" /\ transport = "tcp"
    /\ \E ok \in BOOLEAN : /\ tctx' = ok /\ socket' = ok /\ connected' = ok
                           /\ IF ok THEN Det("subscribe") ELSE Det("cleanup")
    /\ UNCHANGED <<wire, client, transport, wctx, buffers, rings, running,
                   todo, got, avail, need, chunks, out, gui>>

\* tci_ws_connect: the handshake succeeds, is rejected or times out
WsConnect ==
    /\ dpc = "open" /\ transport = "ws"
    /\ \E ok \in BOOLEAN : /\ wctx' = ok /\ connected' = ok
                           /\ IF ok THEN Det("subscribe") ELSE Det("cleanup")
    /\ UNCHANGED <<wire, client, transport, socket, tctx, buffers, rings,
                   running, todo, got, avail, need, chunks, out, gui>>

\* tci_client_open_training: the texts at the front are taken at once
OpenTraining ==
    /\ dpc = "open" /\ transport = "training"
    /\ \/ \E len \in 0 .. MaxFrames * (FrameLen + 1) :
            /\ net' = TrainingFile(len) /\ center' = 1
            /\ frames' = len \div (FrameLen + 1)
            /\ tctx' = TRUE /\ connected' = TRUE
            /\ audio_only' = FALSE /\ eof' = FALSE
            /\ Det("subscribe")
       \/ /\ Det("cleanup")
          /\ UNCHANGED <<net, frames, center, tctx, connected, audio_only, eof>>
    /\ UNCHANGED <<texts, radio, peer, client, transport, socket, wctx, stream,
                   staged, rings, running, todo, got, avail, need, chunks, out,
                   gui>>

\* tci_subscribe_iq_stream on a connected client: a send that fails marks
\* the client disconnected, so the audio_start tried next fails as well
Subscribe ==
    \/ /\ audio_only' = (pref = "audio")
       /\ radio' = IF transport = "training" THEN radio ELSE radio \cup {pref}
       /\ UNCHANGED connected
    \/ /\ transport # "training"
       /\ audio_only' = TRUE /\ connected' = FALSE
       /\ UNCHANGED radio

StartStream ==
    /\ dpc = "subscribe"
    /\ Subscribe
    /\ IF connected' THEN Det("service") ELSE Det("cleanup")
    /\ UNCHANGED <<net, frames, texts, peer, client, transport, socket, wctx,
                   tctx, stream, staged, eof, center, rings, running, todo, got,
                   avail, need, chunks, out, gui>>

-------------------------------------------------------------------------------
(* tci_service_websocket: what arrived goes to the buffers.                *)
loopRest == <<running, todo, got, avail, need, chunks, out>>

\* tci_tcp_service and tci_tcp_append_stream
TcpReceive ==
    /\ dpc = "service" /\ transport = "tcp" /\ connected
    /\ \E n \in 1 .. RecvMax :
         /\ n <= Len(net)
         /\ stream' = stream \o SubSeq(net, 1, n)
         /\ net' = SubSeq(net, n + 1, Len(net))
    /\ Det("parse")
    /\ UNCHANGED <<frames, texts, radio, peer, conn, staged, eof, audio_only,
                   center, rings, loopRest, gui>>

\* the peer closed the connection, or reset it with data under way
TcpClosed ==
    /\ dpc = "service" /\ transport = "tcp" /\ connected /\ peer
    /\ connected' = FALSE
    /\ Det("read")
    /\ UNCHANGED <<wire, client, transport, socket, wctx, tctx, buffers, rings,
                   loopRest, gui>>

\* tci_stage_audio_nolock for a WebSocket: an overflow loses everything
StageWs(piece) == IF Len(staged) + Len(piece) > StageMax
                  THEN << >> ELSE staged \o piece

\* callback_tci, CLIENT_RECEIVE: a text, or a piece of a binary message
WsReceive ==
    /\ dpc = "service" /\ transport = "ws" /\ connected /\ net # << >>
    /\ IF net[1].k = "txt"
       THEN /\ center' = IF net[1].v > 0 THEN net[1].v ELSE center
            /\ net' = SubSeq(net, 3, Len(net))
            /\ UNCHANGED staged
       ELSE \E n \in 1 .. Len(net) :
              LET piece == SubSeq(net, 1, n) IN
              /\ OneMessage(piece)
              /\ staged' = StageWs(piece)
              /\ net' = SubSeq(net, n + 1, Len(net))
              /\ UNCHANGED center
    /\ UNCHANGED <<frames, texts, radio, peer, conn, stream, eof, audio_only,
                   rings, loop, gui>>

\* callback_tci, CLIENT_CLOSED
WsClosed ==
    /\ dpc = "service" /\ transport = "ws" /\ connected /\ peer
    /\ connected' = FALSE
    /\ UNCHANGED <<wire, client, transport, socket, wctx, tctx, buffers, rings,
                   loop, gui>>

\* tci_training_service: when the clock allows and the ring has room
TrainingRead ==
    /\ dpc = "service" /\ transport = "training" /\ ~eof
    /\ count <= RingSize - Room
    /\ net # << >>
    /\ LET n == IF Len(net) < RecvMax THEN Len(net) ELSE RecvMax IN
       /\ stream' = stream \o SubSeq(net, 1, n)
       /\ net' = SubSeq(net, n + 1, Len(net))
    /\ Det("parse")
    /\ UNCHANGED <<frames, texts, radio, peer, conn, staged, eof, audio_only,
                   center, rings, loopRest, gui>>

\* mutant: what cannot be parsed stays
TrainingEofKeeps ==
    /\ dpc = "service" /\ transport = "training" /\ ~eof
    /\ count <= RingSize - Room
    /\ net = << >>
    /\ eof' = TRUE /\ UNCHANGED stream
    /\ Det("read")
    /\ UNCHANGED <<wire, conn, staged, audio_only, center, rings, loopRest, gui>>

\* mutant: a short read is taken for the end of the file
TrainingEofShort ==
    /\ dpc = "service" /\ transport = "training" /\ ~eof
    /\ count <= RingSize - Room
    /\ Len(net) < RecvMax
    /\ eof' = TRUE /\ stream' = << >>
    /\ Det("read")
    /\ UNCHANGED <<wire, conn, staged, audio_only, center, rings, loopRest, gui>>

\* the end of the file: what cannot be parsed is dropped
TrainingEof ==
    /\ dpc = "service" /\ transport = "training" /\ ~eof
    /\ count <= RingSize - Room
    /\ net = << >>
    /\ eof' = TRUE /\ stream' = << >>
    /\ Det("read")
    /\ UNCHANGED <<wire, conn, staged, audio_only, center, rings, loopRest, gui>>

\* nothing to do, not connected, or the file is ahead of the clock
ServiceReturns == /\ dpc = "service"
                  /\ transport = "tcp" => ~connected \/ net = << >>
                  /\ Det("read")
                  /\ UNCHANGED <<wire, conn, buffers, rings, loopRest, gui>>

\* tci_tcp_parse_stream_buffer, one iteration: a text up to its ';'
ParseText ==
    /\ dpc = "parse" /\ Len(stream) > 1 /\ stream[1].k = "txt"
    /\ center' = IF stream[1].v > 0 THEN stream[1].v ELSE center
    /\ stream' = SubSeq(stream, 3, Len(stream))
    /\ UNCHANGED <<wire, conn, staged, eof, audio_only, rings, loop, gui>>

\* mutant: the staged frame stays in the stream buffer
ParseFrameTwice ==
    /\ dpc = "parse" /\ FrameFirst(stream)
    /\ staged' = staged \o SubSeq(stream, 1, FrameLen + 1)
                        \o SubSeq(stream, 1, FrameLen + 1)
    /\ stream' = SubSeq(stream, FrameLen + 2, Len(stream))
    /\ UNCHANGED <<wire, conn, eof, audio_only, center, rings, loop, gui>>

\* a whole frame (tci_tcp_binary_frame_size) is staged and consumed
ParseFrame ==
    /\ dpc = "parse" /\ FrameFirst(stream)
    /\ staged' = staged \o SubSeq(stream, 1, FrameLen + 1)
    /\ stream' = SubSeq(stream, FrameLen + 2, Len(stream))
    /\ UNCHANGED <<wire, conn, eof, audio_only, center, rings, loop, gui>>

\* the rest is kept for the next chunk
ParseStops ==
    /\ dpc = "parse" /\ ~FrameFirst(stream)
    /\ ~(Len(stream) > 1 /\ stream[1].k = "txt")
    /\ Det("read")
    /\ UNCHANGED <<wire, conn, buffers, rings, loopRest, gui>>

-------------------------------------------------------------------------------
(* tci_read_iq_samples: staged bytes become samples in the ring.           *)
Read == /\ dpc = "read"
        /\ IF ~connected THEN Det("end") /\ UNCHANGED avail
           ELSE IF staged = << >> THEN Det("take") /\ avail' = count
           ELSE Det("frames") /\ UNCHANGED avail
        /\ UNCHANGED <<wire, conn, buffers, rings, running, todo, got, need,
                       chunks, out, gui>>

\* tci_process_audio_payload: the samples of a complete frame
TakeFrame ==
    /\ dpc = "frames" /\ FrameFirst(staged)
    /\ todo' = [i \in 1 .. FrameLen |-> staged[i + 1].v]
    /\ audio_only' = (staged[1].v = "audio")
    /\ staged' = SubSeq(staged, FrameLen + 2, Len(staged))
    /\ Det("push")
    /\ UNCHANGED <<wire, conn, stream, eof, center, rings, running, got, avail,
                   need, chunks, out, gui>>

\* when the buffer yielded no frame at all, its bytes are raw samples
TakeRaw ==
    /\ dpc = "frames" /\ ~FrameFirst(staged) /\ got = 0
    /\ todo' = [i \in DOMAIN staged |->
                  IF staged[i].k = "smp" THEN staged[i].v ELSE 0]
    /\ staged' = << >>
    /\ Det("push")
    /\ UNCHANGED <<wire, conn, stream, eof, audio_only, center, rings, running,
                   got, avail, need, chunks, out, gui>>

\* after at least one frame, what is incomplete is kept
FramesDone ==
    /\ dpc = "frames" /\ ~FrameFirst(staged) /\ got > 0
    /\ avail' = count /\ got' = 0
    /\ Det("take")
    /\ UNCHANGED <<wire, conn, buffers, rings, running, todo, need, chunks,
                   out, gui>>

\* mutant: a full ring overwrites its newest sample
PushInPlace ==
    /\ dpc = "push" /\ todo # << >>
    /\ IF count < RingSize
       THEN /\ ring' = [ring EXCEPT ![head] = todo[1]]
            /\ head' = (head + 1) % RingSize /\ count' = count + 1
       ELSE /\ ring' = [ring EXCEPT ![(head + RingSize - 1) % RingSize] = todo[1]]
            /\ UNCHANGED <<head, count>>
    /\ todo' = Tail(todo) /\ got' = 1
    /\ UNCHANGED <<wire, conn, buffers, running, dpc, avail, need, chunks, out,
                   gui>>

\* one sample: a full ring overwrites its oldest
Push ==
    /\ dpc = "push" /\ todo # << >>
    /\ ring' = [ring EXCEPT ![head] = todo[1]]
    /\ head' = (head + 1) % RingSize
    /\ count' = IF count < RingSize THEN count + 1 ELSE count
    /\ todo' = Tail(todo) /\ got' = 1
    /\ UNCHANGED <<wire, conn, buffers, running, dpc, avail, need, chunks, out,
                   gui>>

PushDone == /\ dpc = "push" /\ todo = << >>
            /\ Det("frames")
            /\ UNCHANGED <<wire, conn, buffers, rings, loopRest, gui>>

-------------------------------------------------------------------------------
(* The detection loop hands samples on, a chunk at a time.                 *)
tail == (head - count + RingSize) % RingSize

AtEof == transport = "training" /\ eof

\* what the loop asks for: a whole chunk, or the tail of a training file
Wanted == IF avail >= Need THEN Need ELSE avail

\* tci_get_iq_samples: no more than the ring holds, oldest first
Get ==
    /\ dpc = "take" /\ chunks < MaxChunks /\ running
    /\ avail >= Need \/ (AtEof /\ avail > 0)
    /\ LET n == IF Wanted > count THEN count ELSE Wanted IN
       /\ need' = n
       /\ out' = out \o [i \in 1 .. n |-> ring[(tail + i - 1) % RingSize]]
    /\ Det("taken")
    /\ UNCHANGED <<wire, conn, buffers, rings, running, todo, got, avail,
                   chunks, gui>>

\* buffer_count -= count, and the loop goes on with what is left
GetRelease ==
    /\ dpc = "taken"
    /\ count' = count - need
    /\ IF need <= 0 THEN Det("end") /\ UNCHANGED <<chunks, avail>>
                    ELSE Det("take") /\ chunks' = chunks + 1 /\ avail' = count'
    /\ need' = 0
    /\ UNCHANGED <<wire, conn, buffers, ring, head, running, todo, got, out,
                   gui>>

TakeDone ==
    /\ dpc = "take"
    /\ \/ chunks >= MaxChunks \/ ~running
       \/ avail < Need /\ ~(AtEof /\ avail > 0)
    /\ Det("end")
    /\ UNCHANGED <<wire, conn, buffers, rings, loopRest, gui>>

\* tci_training_finished
Finished == AtEof /\ count <= 0 /\ staged = << >> /\ stream = << >>

LoopEnd == /\ dpc = "end"
           /\ IF Finished \/ ~running THEN Det("cleanup") ELSE Det("service")
           /\ chunks' = 0 /\ avail' = 0
           /\ UNCHANGED <<wire, conn, buffers, rings, running, todo, got, need,
                          out, gui>>

\* tci_client_destroy, with detector->lock held
Destroy == /\ dpc = "cleanup"
           /\ client' = FALSE /\ connected' = FALSE
           /\ socket' = FALSE /\ wctx' = FALSE /\ tctx' = FALSE
           /\ eof' = FALSE /\ stream' = << >> /\ staged' = << >>
           /\ net' = << >> /\ radio' = {}
           /\ Det("done")
           /\ UNCHANGED <<frames, texts, peer, transport, audio_only, center,
                          rings, loopRest, gui>>

-------------------------------------------------------------------------------
(* The GUI thread.                                                         *)
LockFree == dpc \notin {"start", "open", "subscribe", "cleanup"}

Stop == /\ gpc = "idle" /\ LockFree /\ running
        /\ running' = FALSE
        /\ UNCHANGED <<wire, conn, buffers, rings, dpc, todo, got, avail, need,
                       chunks, out, gui>>

\* config_set("tci_stream_mode"): the lock is released before the switch
SwitchMode ==
    /\ gpc = "idle" /\ LockFree /\ switches < MaxSwitches
    /\ pref' \in Modes \ {pref}
    /\ switches' = switches + 1
    /\ gpc' = IF client /\ connected THEN "stop" ELSE "idle"
    /\ UNCHANGED <<wire, conn, buffers, rings, loop>>

\* mutant: the old stream goes on
SwitchStopNothing ==
    /\ gpc = "stop" /\ client
    /\ gpc' = IF connected THEN "head" ELSE "idle"
    /\ UNCHANGED <<wire, conn, buffers, rings, loop, pref, switches>>

\* tci_stop_streams; a failed send marks the client disconnected
SwitchStop ==
    /\ gpc = "stop" /\ client
    /\ \/ ~connected /\ gpc' = "idle" /\ UNCHANGED <<radio, connected>>
       \/ connected /\ gpc' = "head" /\ radio' = {} /\ UNCHANGED connected
       \/ /\ connected /\ transport # "training"
          /\ gpc' = "head" /\ connected' = FALSE /\ UNCHANGED radio
    /\ UNCHANGED <<net, frames, texts, peer, client, transport, socket, wctx,
                   tctx, buffers, rings, loop, pref, switches>>

\* tci_clear_sample_buffer: two plain stores, which a Push or a release under
\* way may overwrite
SwitchHead ==
    /\ gpc = "head" /\ client
    /\ head' = 0 \/ (dpc = "push" /\ UNCHANGED head)
    /\ gpc' = "count"
    /\ UNCHANGED <<wire, conn, buffers, ring, count, loop, pref, switches>>

SwitchCount ==
    /\ gpc = "count" /\ client
    /\ count' = 0 \/ (dpc \in {"push", "taken"} /\ UNCHANGED count)
    /\ gpc' = "subscribe"
    /\ UNCHANGED <<wire, conn, buffers, ring, head, loop, pref, switches>>

SwitchSubscribe ==
    /\ gpc = "subscribe" /\ client
    /\ IF connected THEN Subscribe
                    ELSE UNCHANGED <<audio_only, radio, connected>>
    /\ gpc' = "idle"
    /\ UNCHANGED <<net, frames, texts, peer, client, transport, socket, wctx,
                   tctx, stream, staged, eof, center, rings, loop, pref,
                   switches>>

\* the session ended meanwhile: the switch uses a client that was freed
SwitchFreed == /\ gpc \notin {"idle", "fault"} /\ ~client
               /\ gpc' = "fault"
               /\ UNCHANGED <<wire, conn, buffers, rings, loop, pref, switches>>

-------------------------------------------------------------------------------
(* The radio.                                                              *)
Live == client /\ connected /\ transport # "training" /\ ~peer

RadioFrame == /\ Live /\ frames < MaxFrames
              /\ \E m \in radio : net' = net \o Frame(frames + 1, m)
              /\ frames' = frames + 1
              /\ UNCHANGED <<texts, radio, peer, conn, buffers, rings, loop, gui>>

\* a vfo or dds text: of the stream's receiver, or of another (0)
RadioText == /\ Live /\ texts < 1
             /\ \E v \in {0, texts + 1} : net' = net \o <<Txt(v), Semi>>
             /\ texts' = texts + 1
             /\ UNCHANGED <<frames, radio, peer, conn, buffers, rings, loop, gui>>

RadioClose == /\ Live
              /\ peer' = TRUE
              /\ UNCHANGED <<net, frames, texts, radio, conn, buffers, rings,
                             loop, gui>>

-------------------------------------------------------------------------------
Detection ==
    \/ Probe \/ TcpConnect \/ WsConnect \/ OpenTraining \/ StartStream
    \/ TcpReceive \/ TcpClosed \/ WsReceive \/ WsClosed
    \/ TrainingRead \/ TrainingEof \/ ServiceReturns
    \/ ParseText \/ ParseFrame \/ ParseStops
    \/ Read \/ TakeFrame \/ TakeRaw \/ FramesDone \/ Push \/ PushDone
    \/ Get \/ GetRelease \/ TakeDone \/ LoopEnd \/ Destroy

Gui == \/ Stop \/ SwitchMode \/ SwitchStop \/ SwitchHead \/ SwitchCount
       \/ SwitchSubscribe \/ SwitchFreed

Radio == RadioFrame \/ RadioText \/ RadioClose

Next == Detection \/ Gui \/ Radio

\* the detection thread runs, and the clock lets a file be read
Fairness == /\ WF_vars(Detection)
            /\ SF_vars(TrainingRead \/ TrainingEof)

Spec == Init /\ [][Next]_vars /\ Fairness

-------------------------------------------------------------------------------
\* The ring counts at most what it holds.  A switch of the stream that falls
\* between the two halves of tci_get_iq_samples leaves the count negative, by
\* no more than the chunk that was being taken.
TypeOK ==
    /\ radio \subseteq Modes /\ frames \in 0 .. MaxFrames /\ texts \in 0 .. 1
    /\ transport \in {"tcp", "ws", "training"} /\ pref \in Modes
    /\ {peer, client, connected, socket, wctx, tctx, eof, audio_only, running}
           \subseteq BOOLEAN
    /\ transport = "ws" => Len(staged) <= StageMax
    /\ ring \in [0 .. RingSize - 1 -> 0 .. MaxFrames * FrameLen]
    /\ head \in 0 .. RingSize - 1
    /\ chunks \in 0 .. MaxChunks
    /\ count \in -Need .. RingSize

\* While the stream is not switched the detection loop sees the samples in the
\* order the radio sent them and none of them twice, whichever transport
\* carried them, in whatever pieces, and whatever overflowed on the way; the
\* headers that were taken for samples (0) are left out.
InOrder == /\ TypeOK
           /\ switches = 0 => \A i, j \in 1 .. Len(out) :
                 i < j /\ out[i] > 0 /\ out[j] > 0 => out[i] < out[j]

\* A training file that has ended by itself was handed on to the last complete
\* frame: the ring was never overrun, the tail shorter than a chunk was not
\* forgotten, and the session does not count as finished before.
TrainingComplete ==
    AtEof /\ Finished /\ running /\ switches = 0 /\ dpc = "cleanup"
        => out = [i \in 1 .. frames * FrameLen |-> i]

\* A connected session whose switch is over receives the one stream the user
\* has chosen, also when the choice was made while the session was starting.
OneStream == dpc \notin {"start", "open", "subscribe"} /\ gpc = "idle" /\ Live
                 => radio = {pref}

\* An incomplete frame at the front of the WebSocket buffer is kept until the
\* rest of it has come (tci_client.c:381, :1547).
IncompleteKept ==
    [][dpc = "frames" /\ staged # << >> /\ staged[1].k = "hdr"
          /\ ~FrameFirst(staged) => staged' = staged]_vars

\* The ring as a queue of samples.
queue == [i \in 1 .. count |-> ring[(tail + i - 1) % RingSize]]

Fifo == INSTANCE LossyFifo WITH fifo <- queue, Capacity <- RingSize,
        Items <- 0 .. MaxFrames * FrameLen

\* While the stream is not switched, head, count and slots implement a queue
\* that drops its oldest sample when full.
RingIsFifo == [][switches = 0 => [Fifo!Next]_queue]_vars

\* A session over a training file ends, and so does one that was stopped.
SessionEnds == dpc = "service" /\ (~running \/ transport = "training")
                   ~> dpc = "done"
==============================================================================
