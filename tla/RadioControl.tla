----------------------------- MODULE RadioControl -----------------------------
(***************************************************************************)
(* Radio control (radio_control.c): the GUI queues tune, CW text, CW stop  *)
(* and speed; the detection thread drains the queue once per loop with     *)
(* radio_control_service and sends over the TCI socket, or keys the text   *)
(* through a Kenwood CAT socket ("ky") that is polled with "KY;" before    *)
(* every chunk.                                                            *)
(*                                                                         *)
(* Commands are numbered as they are issued, so order on a socket is order *)
(* of numbers.  A CW text is one unit of the KY backlog, a "KY" command    *)
(* carries up to KY_CHUNK units.  Time only tells whether ky_next_ms has   *)
(* passed.  radio_control_service is a sequence of steps, because it       *)
(* releases rc->lock between the batch, the CAT socket and every send; the *)
(* steps of rc_ky_service are made with the lock held.                     *)
(***************************************************************************)
EXTENDS Naturals, Sequences

CONSTANTS RC_QUEUE,      \* slots of the command queue
          RC_BACKLOG,    \* units of text the KY backlog holds
          KY_CHUNK,      \* units of text per "KY" command
          Speeds,        \* keyer speeds
          MaxIssued,     \* bound: commands issued in a behaviour
          MaxChanges,    \* bound: speed and configuration changes in one
          LinkDrops,     \* may TCI fail, or a training file replace it?
          ReliableCat    \* does the CAT socket always work?

ASSUME RadioAssumption ==
    /\ RC_QUEUE \in Nat \ {0} /\ RC_BACKLOG \in Nat \ {0}
    /\ KY_CHUNK \in Nat \ {0} /\ MaxIssued \in Nat /\ MaxChanges \in Nat
    /\ LinkDrops \in BOOLEAN /\ ReliableCat \in BOOLEAN
    /\ Speeds # {} /\ Speeds \subseteq Nat \ {0}

VARIABLES
    queue,                        \* commands, oldest first
    mode,                         \* "tci" or "ky"
    wpm, speed_dirty,             \* keyer speed, and whether to send it
    ky_state, ky_awaiting,        \* CAT socket; "KY;" sent, no reply yet
    ky_wait,                      \* now < ky_next_ms
    ky_backlog, ky_pos,           \* CW text for KY, and how much is sent
    issued, stopped,              \* number of the last command and CW stop
    changes,                      \* speed and configuration changes made
    link,                         \* TCI: "down", "up", or a training file
    asked,                        \* the CAT peer owes a reply to "KY;"
    sent, keyed,                  \* last command sent over TCI, text over KY
    tci_speed, ky_speed,          \* speed the radio was last told, 0 = never
    missed,                       \* a marked speed was lost with the link
    pc, ret, batch, bmode,        \* radio_control_service and its locals
    send_wpm, wpm_copy

kyVars   == <<ky_state, ky_awaiting, ky_wait, ky_backlog, ky_pos, asked>>
cmdVars  == <<queue, mode, wpm, speed_dirty, issued, stopped, changes>>
told     == <<sent, keyed, tci_speed, ky_speed>>
wireVars == <<told, missed>>
svcVars  == <<pc, ret, batch, bmode, send_wpm, wpm_copy>>
vars     == <<cmdVars, kyVars, wireVars, svcVars, link>>

Kinds == {"tune", "cw", "stop"}
Op    == [kind : Kinds, num : 1 .. MaxIssued]

\* rc->lock is held by the service while it works on the CAT socket, and
\* from the moment it appends a text to the backlog
Unlocked == /\ pc \notin {"ky_read", "ky_poll"}
            /\ ~(pc = "ky" /\ ret = "send")

Init == /\ queue = << >> /\ mode = "tci"
        /\ wpm \in Speeds /\ speed_dirty = TRUE
        /\ ky_state = "down" /\ ky_awaiting = FALSE /\ ky_wait = FALSE
        /\ ky_backlog = << >> /\ ky_pos = 0
        /\ issued = 0 /\ stopped = 0 /\ changes = 0
        /\ link = "down" /\ asked = FALSE
        /\ sent = 0 /\ keyed = 0 /\ tci_speed = 0 /\ ky_speed = 0 /\ missed = FALSE
        /\ pc = "idle" /\ ret = "speed" /\ batch = << >> /\ bmode = "tci"
        /\ send_wpm = FALSE /\ wpm_copy = wpm

-------------------------------------------------------------------------------
(* What the GUI calls.                                                     *)

\* mutant: the overflowing queue drops the newest command
PushOntoFront(q, op) == <<op>> \o (IF Len(q) >= RC_QUEUE THEN Tail(q) ELSE q)

\* rc_push_locked: a full queue loses its oldest command
Push(q, op) == Append(IF Len(q) >= RC_QUEUE THEN Tail(q) ELSE q, op)

\* rc_drop_kind_locked; kept(q, kind)[i] is its array after i commands
kept(q, kind) ==
    LET upto[i \in 0 .. Len(q)] ==
            IF i = 0 THEN << >>
            ELSE IF q[i].kind # kind THEN Append(upto[i - 1], q[i]) ELSE upto[i - 1]
    IN  upto
DropKind(q, kind) == kept(q, kind)[Len(q)]

Issue(kind, q) == /\ Unlocked
                  /\ issued < MaxIssued
                  /\ issued' = issued + 1
                  /\ queue' = Push(q, [kind |-> kind, num |-> issued + 1])

\* radio_control_tune keeps one tune, the newest
Tune == /\ Issue("tune", DropKind(queue, "tune"))
        /\ UNCHANGED <<mode, wpm, speed_dirty, stopped, changes, kyVars,
                       wireVars, svcVars, link>>

CwText == /\ Issue("cw", queue)
          /\ UNCHANGED <<mode, wpm, speed_dirty, stopped, changes, kyVars,
                         wireVars, svcVars, link>>

\* radio_control_cw_stop: the queued text and the KY backlog are dropped
CwStop == /\ Issue("stop", DropKind(queue, "cw"))
          /\ stopped' = issued + 1
          /\ ky_backlog' = << >> /\ ky_pos' = 0
          /\ UNCHANGED <<mode, wpm, speed_dirty, changes, ky_state, ky_awaiting,
                         ky_wait, asked, wireVars, svcVars, link>>

Change == changes < MaxChanges /\ changes' = changes + 1

\* mutant: the new speed is not marked for sending
SetWpmQuiet(w) == /\ Unlocked /\ Change
                  /\ wpm' = w
                  /\ UNCHANGED <<queue, mode, speed_dirty, issued, stopped,
                                 kyVars, wireVars, svcVars, link>>

\* radio_control_set_wpm
SetWpm(w) == /\ Unlocked /\ Change
             /\ wpm' = w /\ speed_dirty' = TRUE /\ missed' = FALSE
             /\ UNCHANGED <<queue, mode, issued, stopped, kyVars, told,
                            svcVars, link>>

\* mutant: a closed CAT socket keeps waiting for its reply
KyCloseAwaiting == /\ ky_state' = "down"
                   /\ asked' = FALSE /\ UNCHANGED ky_awaiting

\* rc_ky_close; what the peer still owed is gone with the socket
KyClose == /\ ky_state' = "down" /\ ky_awaiting' = FALSE
           /\ asked' = FALSE

\* radio_control_apply_config: the mode, and the CAT socket when its address
\* changed or it is no longer wanted.  The backlog stays.
ApplyConfig(m, w) ==
    /\ Unlocked /\ Change
    /\ mode' = m /\ wpm' = w /\ speed_dirty' = TRUE /\ missed' = FALSE
    /\ \/ KyClose
       \/ m = "ky" /\ UNCHANGED <<ky_state, ky_awaiting, asked>>
    /\ UNCHANGED <<queue, issued, stopped, ky_wait, ky_backlog, ky_pos,
                   told, svcVars, link>>

Calling == \/ Tune \/ CwText \/ CwStop
           \/ \E w \in Speeds : SetWpm(w)
           \/ \E m \in {"tci", "ky"}, w \in Speeds : ApplyConfig(m, w)

-------------------------------------------------------------------------------
(* The radio's connection and the CAT peer (external).                     *)
LinkUp == /\ link = "down" /\ pc = "idle"
          /\ link' \in IF LinkDrops THEN {"up", "training"} ELSE {"up"}
          /\ UNCHANGED <<cmdVars, kyVars, wireVars, svcVars>>

\* a connection is found closed by a send, the GUI thread's of a live switch
\* among them, at any step of a service, whose lock it does not take; a training
\* session ends between two services
LinkDown == /\ LinkDrops
            /\ \/ link = "up"
               \/ link = "training" /\ pc = "idle"
            /\ link' = "down"
            /\ UNCHANGED <<cmdVars, kyVars, wireVars, svcVars>>

TimePasses == /\ ky_wait /\ ky_wait' = FALSE
              /\ UNCHANGED <<cmdVars, ky_state, ky_awaiting, ky_backlog, ky_pos,
                             asked, wireVars, svcVars, link>>

-------------------------------------------------------------------------------
(* radio_control_service.                                                  *)

\* a training file is playing: everything queued is discarded
ServiceTraining == /\ pc = "idle" /\ link = "training"
                   /\ queue' = << >> /\ ky_backlog' = << >> /\ ky_pos' = 0
                   /\ UNCHANGED <<mode, wpm, speed_dirty, issued, stopped,
                                  changes, ky_state, ky_awaiting, ky_wait, asked,
                                  wireVars, svcVars, link>>

\* mutant: stops are taken out of the queue and not put into the batch
ServiceTakeNoStop == /\ pc = "idle" /\ link = "up" /\ pc' = "taken"
                     /\ batch' = DropKind(queue, "stop") /\ queue' = << >>
                     /\ bmode' = mode /\ ret' = "speed"
                     /\ send_wpm' = speed_dirty /\ speed_dirty' = FALSE
                     /\ wpm_copy' = wpm
                     /\ UNCHANGED <<mode, wpm, issued, stopped, changes, kyVars,
                                    wireVars, link>>

\* the batch is taken under the lock; not connected, nothing is taken
ServiceTake == /\ pc = "idle" /\ link = "up" /\ pc' = "taken"
               /\ batch' = queue /\ queue' = << >>
               /\ bmode' = mode /\ ret' = "speed"
               /\ send_wpm' = speed_dirty /\ speed_dirty' = FALSE
               /\ wpm_copy' = wpm
               /\ UNCHANGED <<mode, wpm, issued, stopped, changes, kyVars,
                              wireVars, link>>

\* connected is tested again without the lock; when the link was lost since,
\* the service returns with the batch and the speed in its hands
ServiceGoesOn == /\ pc = "taken" /\ link = "up"
                 /\ pc' = IF bmode = "ky" THEN "ky" ELSE "speed"
                 /\ UNCHANGED <<cmdVars, kyVars, wireVars, ret, batch, bmode,
                                send_wpm, wpm_copy, link>>

ServiceGivesUp == /\ pc = "taken" /\ link # "up" /\ pc' = "idle"
                  /\ batch' = << >> /\ send_wpm' = FALSE
                  /\ missed' = (missed \/ send_wpm)
                  /\ UNCHANGED <<cmdVars, kyVars, told, ret, bmode, wpm_copy, link>>

\* rc_send_tci: the socket may be gone, the command is then lost
SendTci(op) == IF link = "up" THEN sent' = op.num ELSE UNCHANGED sent

\* rc_send_speed, or nothing to send
ServiceSpeed ==
    /\ pc = "speed"
    /\ pc' = "send"
    /\ send_wpm' = FALSE
    /\ IF send_wpm
       THEN /\ tci_speed' = IF link = "up" THEN wpm_copy ELSE tci_speed
            /\ \/ ky_state # "ready" /\ UNCHANGED <<ky_speed, ky_state,
                                                    ky_awaiting, asked>>
               \/ /\ ky_state = "ready" /\ ky_speed' = wpm
                  /\ UNCHANGED <<ky_state, ky_awaiting, asked>>
               \/ /\ ky_state = "ready" /\ ~ReliableCat /\ KyClose
                  /\ UNCHANGED ky_speed
       ELSE UNCHANGED <<tci_speed, ky_speed, ky_state, ky_awaiting, asked>>
    /\ UNCHANGED <<cmdVars, ky_wait, ky_backlog, ky_pos, sent, keyed, missed,
                   ret, batch, bmode, wpm_copy, link>>

Direct(op) == op.kind # "cw" \/ bmode = "tci"

SendNext == /\ pc = "send" /\ batch # << >> /\ Direct(Head(batch))
            /\ SendTci(Head(batch))
            /\ batch' = Tail(batch)
            /\ UNCHANGED <<cmdVars, kyVars, keyed, tci_speed, ky_speed, missed,
                           pc, ret, bmode, send_wpm, wpm_copy, link>>

\* rc_ky_append: what does not fit is dropped
AppendText(b, k) == IF Len(b) < RC_BACKLOG THEN Append(b, k) ELSE b

\* in ky mode a text goes to the backlog and the CAT socket is serviced
SendText == /\ pc = "send" /\ batch # << >> /\ ~Direct(Head(batch))
            /\ ky_backlog' = AppendText(ky_backlog, Head(batch).num)
            /\ batch' = Tail(batch)
            /\ pc' = "ky" /\ ret' = "send"
            /\ UNCHANGED <<cmdVars, ky_state, ky_awaiting, ky_wait, ky_pos,
                           asked, wireVars, bmode, send_wpm, wpm_copy, link>>

ServiceDone == /\ pc = "send" /\ batch = << >>
               /\ pc' = "idle"
               /\ UNCHANGED <<cmdVars, kyVars, wireVars, ret, batch, bmode,
                              send_wpm, wpm_copy, link>>

-------------------------------------------------------------------------------
(* rc_ky_service.                                                          *)
KyReturn == pc' = ret
KyRest   == UNCHANGED <<cmdVars, sent, tci_speed, ret, batch, bmode, send_wpm,
                        wpm_copy, link>>

\* not in ky mode any more, backing off, still connecting, or refused
KyNotReady ==
    /\ pc = "ky" /\ KyReturn
    /\ \/ mode # "ky" /\ UNCHANGED <<ky_state, ky_awaiting, ky_wait, asked>>
       \/ /\ mode = "ky" /\ ky_state = "down" /\ ky_wait
          /\ UNCHANGED <<ky_state, ky_awaiting, ky_wait, asked>>
       \/ /\ mode = "ky" /\ ~ReliableCat
          /\ ky_state = "connecting" \/ (ky_state = "down" /\ ~ky_wait)
          /\ \/ ky_state' = "connecting" /\ ky_awaiting' = FALSE
                /\ asked' = FALSE /\ UNCHANGED ky_wait
             \/ KyClose /\ ky_wait' = TRUE
    /\ KyRest /\ UNCHANGED <<ky_backlog, ky_pos, keyed, ky_speed, missed>>

\* connected, now or before; a new connection is told the speed
KyReady ==
    /\ pc = "ky" /\ mode = "ky"
    /\ \/ /\ ky_state = "ready" /\ pc' = "ky_read"
          /\ UNCHANGED <<ky_state, ky_awaiting, asked, ky_speed, missed>>
       \/ /\ ky_state = "connecting" \/ (ky_state = "down" /\ ~ky_wait)
          /\ ky_state' = "ready" /\ ky_awaiting' = FALSE /\ asked' = FALSE
          /\ ky_speed' = wpm /\ missed' = FALSE /\ pc' = "ky_read"
       \/ /\ ky_state = "connecting" \/ (ky_state = "down" /\ ~ky_wait)
          /\ ~ReliableCat /\ KyClose /\ KyReturn
          /\ UNCHANGED <<ky_speed, missed>>
    /\ KyRest /\ UNCHANGED <<ky_wait, ky_backlog, ky_pos, keyed>>

KyReadNothing == /\ pc = "ky_read" /\ pc' = "ky_poll"
                 /\ KyRest /\ UNCHANGED <<kyVars, keyed, ky_speed, missed>>

KyReadClosed == /\ pc = "ky_read" /\ ~ReliableCat
                /\ KyClose /\ KyReturn
                /\ KyRest
                /\ UNCHANGED <<ky_wait, ky_backlog, ky_pos, keyed, ky_speed,
                               missed>>

\* "KY1": the radio's buffer is full, ask again in 40 ms
KyReadBusy == /\ pc = "ky_read" /\ asked
              /\ asked' = FALSE /\ ky_awaiting' = FALSE /\ ky_wait' = TRUE
              /\ pc' = "ky_poll"
              /\ KyRest
              /\ UNCHANGED <<ky_state, ky_backlog, ky_pos, keyed, ky_speed, missed>>

\* the position after the next chunk (radio_control_ky_chunk)
NextPos == IF ky_pos + KY_CHUNK < Len(ky_backlog) THEN ky_pos + KY_CHUNK
           ELSE Len(ky_backlog)

\* "KY0": the next chunk is written; the position has advanced even when the
\* write fails, so a chunk is sent at most once.  A backlog that is sent to
\* the end is emptied.
KyReadFree ==
    /\ pc = "ky_read" /\ asked
    /\ asked' = FALSE
    /\ \/ /\ ky_pos < Len(ky_backlog)
          /\ keyed' = ky_backlog[NextPos]
          /\ IF NextPos = Len(ky_backlog)
             THEN ky_backlog' = << >> /\ ky_pos' = 0
             ELSE ky_pos' = NextPos /\ UNCHANGED ky_backlog
          /\ ky_awaiting' = FALSE /\ pc' = "ky_poll" /\ UNCHANGED ky_state
       \/ /\ ky_pos < Len(ky_backlog) /\ ~ReliableCat
          /\ ky_pos' = NextPos
          /\ ky_state' = "down" /\ ky_awaiting' = FALSE
          /\ KyReturn /\ UNCHANGED <<keyed, ky_backlog>>
       \/ /\ ky_pos >= Len(ky_backlog)
          /\ ky_backlog' = << >> /\ ky_pos' = 0
          /\ ky_awaiting' = FALSE /\ pc' = "ky_poll"
          /\ UNCHANGED <<keyed, ky_state>>
    /\ KyRest /\ UNCHANGED <<ky_wait, ky_speed, missed>>

\* text is waiting and no reply is: ask whether the radio's buffer is free
KyPoll ==
    /\ pc = "ky_poll" /\ KyReturn
    /\ IF ~ky_awaiting /\ ~ky_wait /\ ky_pos < Len(ky_backlog)
       THEN \/ ky_awaiting' = TRUE /\ asked' = TRUE /\ UNCHANGED ky_state
            \/ ~ReliableCat /\ KyClose
       ELSE UNCHANGED <<ky_awaiting, asked, ky_state>>
    /\ KyRest /\ UNCHANGED <<ky_wait, ky_backlog, ky_pos, keyed, ky_speed,
                               missed>>

KyService == \/ KyNotReady \/ KyReady
             \/ KyReadNothing \/ KyReadClosed \/ KyReadBusy \/ KyReadFree
             \/ KyPoll

Servicing == \/ ServiceTraining \/ ServiceTake
             \/ ServiceGoesOn \/ ServiceGivesUp \/ ServiceSpeed
             \/ SendNext \/ SendText \/ ServiceDone
             \/ KyService

Next == Calling \/ LinkUp \/ LinkDown \/ TimePasses \/ Servicing

Spec == Init /\ [][Next]_vars

\* The detection loop calls the service again and again, time passes, a radio
\* connects, and the CAT peer answers polls and has room now and then.
FairSpec == /\ Spec
            /\ WF_vars(Servicing) /\ WF_vars(LinkUp) /\ WF_vars(TimePasses)
            /\ SF_vars(KyReadFree)

-------------------------------------------------------------------------------
TypeOK == /\ queue \in Seq(Op) /\ Len(queue) <= RC_QUEUE
          /\ mode \in {"tci", "ky"} /\ bmode \in {"tci", "ky"}
          /\ wpm \in Speeds /\ wpm_copy \in Speeds
          /\ tci_speed \in Speeds \cup {0} /\ ky_speed \in Speeds \cup {0}
          /\ speed_dirty \in BOOLEAN /\ send_wpm \in BOOLEAN /\ missed \in BOOLEAN
          /\ ky_state \in {"down", "connecting", "ready"}
          /\ ky_awaiting \in BOOLEAN /\ ky_wait \in BOOLEAN /\ asked \in BOOLEAN
          /\ ky_backlog \in Seq(1 .. MaxIssued) /\ Len(ky_backlog) <= RC_BACKLOG
          /\ ky_pos \in 0 .. Len(ky_backlog)
          /\ changes \in 0 .. MaxChanges
          /\ issued \in 0 .. MaxIssued /\ stopped \in 0 .. issued
          /\ sent \in 0 .. issued /\ keyed \in 0 .. issued
          /\ link \in {"down", "up", "training"}
          /\ pc \in {"idle", "taken", "ky", "ky_read", "ky_poll", "speed", "send"}
          /\ ret \in {"speed", "send"}
          /\ batch \in Seq(Op) /\ Len(batch) <= RC_QUEUE

\* Commands leave on the TCI socket in the order they were issued, each at
\* most once, across coalesced tunes, dropped texts, a full queue and lost
\* connections.  In particular no CW text is sent after the cw_macros_stop of
\* a stop that was requested later than the text.
TciInOrder == [][sent' # sent => sent' > sent]_vars

\* Text is keyed over CAT in the order it was typed and never twice, although
\* chunks fail, the socket is reopened and the backlog is emptied and refilled.
KyInOrder == [][keyed' # keyed => keyed' > keyed]_vars

\* Both ways a command may take.
CommandsInOrder == TciInOrder /\ KyInOrder

\* At most one "KY;" is unanswered: the peer owes a reply only while the code
\* waits for it, and the code waits only on an open CAT socket.
OnePoll == (asked => ky_awaiting) /\ (ky_awaiting => ky_state = "ready")

\* Between two services an open CAT socket has been told the current speed,
\* unless the speed is still marked dirty, or TCI went away between the two
\* tests of the service that took the mark: that speed is sent to neither
\* radio until it is set again or the CAT socket is opened again.
KySpeedCurrent ==
    pc = "idle" /\ ky_state = "ready" /\ ~speed_dirty /\ ~missed
        => ky_speed = wpm

\* The CAT socket, closed and reopened by the GUI between any two steps.
KySocket == TypeOK /\ OnePoll /\ KySpeedCurrent

\* On a connection that does not fail, a speed that is not dirty any more has
\* reached the radio: the flag is cleared before the speed is sent.
TciSpeedCurrent == (pc = "idle" /\ ~speed_dirty) => tci_speed = wpm

\* A requested stop reaches the radio, when the connection holds and no more
\* than RC_QUEUE commands are issued between two services.
StopServed == stopped > sent ~> sent >= stopped

\* With a CAT peer that answers, text in the backlog is keyed, dropped by a
\* stop, or left there because the mode was changed.
BacklogKeyed == ky_pos < Len(ky_backlog) ~> (ky_backlog = << >> \/ mode = "tci")

===============================================================================
