------------------------------- MODULE IqCapture -------------------------------
(***************************************************************************)
(* What the waterfall shows and what a Shift+click saves.  The detection   *)
(* pthread (cwskimmer_start, cwskimmer_api.c) writes every IQ block to a   *)
(* ring of twenty seconds (cw_capture.c) and calls back with a spectrum    *)
(* column; DetectorWorker (gui/detectorworker.cpp) gathers the columns and *)
(* posts them to the GUI thread (gui/mainwindow.cpp), which draws them     *)
(* unless m_freezeDisplay is set.  The capture dialog freezes the ring and *)
(* the waterfall and saves the snapshot when the operator has typed.       *)
(*                                                                         *)
(* A block is a record: its number, and the centre frequency at which it   *)
(* was received.  The column of a block is its number.  The dialog and the *)
(* message boxes are modal: the GUI thread handles posted events meanwhile *)
(* but no click.  SkimmerSession has the locks and threads of a session.   *)
(***************************************************************************)
EXTENDS Naturals, Sequences

CONSTANTS Cap,          \* blocks the ring holds
          Batch,        \* columns that are posted at once (8)
          Depth,        \* columns that may wait for it (96)
          Centres,      \* centre frequencies the radio reports
          ConfigCentre, \* config.center_frequency
          MaxBlocks,    \* bound: blocks received
          MaxStarts,    \* bound: clicks on Start
          MaxClicks     \* bound: Shift+clicks

ASSUME CaptureAssumption ==
    /\ Cap \in Nat \ {0} /\ Batch \in Nat \ {0} /\ Depth \in Nat \ {0}
    /\ MaxBlocks \in Nat /\ MaxStarts \in Nat /\ MaxClicks \in Nat

VARIABLES
    ring,      \* iq_capture: cw_capture_ring_t
    frozen,    \* frozen_capture_samples and frozen_capture_center_hz
    files,     \* captures on disk
    radio,     \* the radio client's centre frequency; "none" when it is freed
    running,   \* detector->running
    dpc,       \* where the detection pthread is
    column,    \* the columns in its hands
    received,  \* number of the last block
    active, launched, accept,  \* m_detectThreadActive, ..Launched, m_acceptCallbacks
    pending, timer,  \* m_pendingSpectrumColumns, m_spectrumBatchTimerActive
    calls, wpc,      \* requests to DetectorWorker's thread, and where it is
    events,          \* posted to the GUI thread
    gui,             \* where the GUI thread is
    freeze,          \* m_freezeDisplay
    shown,           \* columns drawn
    starts, clicks,  \* bounds
    heard, clicked   \* history: blocks of this ring; what was to be saved

ringVars  == <<ring, heard>>
fileVars  == <<frozen, files, clicked>>
detVars   == <<dpc, column, received>>
gateVars  == <<active, launched, accept>>
batchVars == <<pending, timer>>
guiVars   == <<gui, freeze, shown, starts, clicks>>
vars == <<ringVars, fileVars, radio, running, detVars, gateVars, batchVars, calls,
          wpc, events, guiVars>>

NoCapture == [samples |-> << >>, centre |-> "none"]
EmptyRing == [samples |-> [i \in 0..(Cap - 1) |-> 0], write_pos |-> 0, count |-> 0]

Init == /\ ring = EmptyRing /\ heard = << >>
        /\ frozen = NoCapture /\ files = << >> /\ clicked = NoCapture
        /\ radio = "none" /\ running = FALSE
        /\ dpc = "none" /\ column = << >> /\ received = 0
        /\ active = FALSE /\ launched = FALSE /\ accept = FALSE
        /\ pending = << >> /\ timer = FALSE
        /\ calls = << >> /\ wpc = "idle" /\ events = << >>
        /\ gui = "free" /\ freeze = FALSE /\ shown = << >>
        /\ starts = 0 /\ clicks = 0

-------------------------------------------------------------------------------
(* cw_capture.c: the ring.                                                 *)

\* cw_capture_ring_write
ringWrite(r, b) ==
    [samples   |-> [r.samples EXCEPT ![r.write_pos] = b],
     write_pos |-> IF r.write_pos + 1 >= Cap THEN 0 ELSE r.write_pos + 1,
     count     |-> IF r.count < Cap THEN r.count + 1 ELSE r.count]

\* cw_capture_ring_copy of everything: the oldest sample first
ringCopy(r) ==
    LET start == (r.write_pos + Cap - r.count) % Cap
    IN  [i \in 1..r.count |-> r.samples[(start + i - 1) % Cap]]

\* cwskimmer_radio_center_hz: the radio's, or what the configuration says
radioCentre == IF radio = "none" THEN ConfigCentre ELSE radio

-------------------------------------------------------------------------------
(* The detection pthread.                                                  *)

\* cwskimmer_start under detector->lock: a new ring, or no connection
Open == /\ dpc = "open"
        /\ \/ /\ \E c \in Centres : radio' = c
              /\ running' = TRUE
              /\ ring' = EmptyRing /\ heard' = << >>
              /\ dpc' = "loop"
           \/ /\ dpc' = "refuse"
              /\ UNCHANGED <<radio, running, ringVars>>
        /\ UNCHANGED <<fileVars, column, received, gateVars, batchVars, calls, wpc,
                       events, guiVars>>

\* the radio is tuned
Retune == /\ dpc = "loop"
          /\ \E c \in Centres \ {radio} : radio' = c
          /\ UNCHANGED <<ringVars, fileVars, running, detVars, gateVars, batchVars,
                         calls, wpc, events, guiVars>>

\* a block goes to the ring; when a column is due the callback is called
Block == /\ dpc = "loop" /\ running /\ received < MaxBlocks
         /\ received' = received + 1
         /\ ring' = ringWrite(ring, received')
         /\ heard' = Append(heard, received')
         /\ \/ dpc' = "callback" /\ column' = <<received'>>
            \/ UNCHANGED <<dpc, column>>
         /\ UNCHANGED <<fileVars, radio, running, gateVars, batchVars, calls, wpc,
                        events, guiVars>>

\* onSpectrumUpdated: m_acceptCallbacks is tested, and m_spectrumMutex taken after
Gate == /\ dpc = "callback"
        /\ dpc' = IF accept THEN "append" ELSE "loop"
        /\ column' = IF accept THEN column ELSE << >>
        /\ UNCHANGED <<ringVars, fileVars, radio, running, received, gateVars,
                       batchVars, calls, wpc, events, guiVars>>

\* the newest Depth columns of s
Newest(s) == IF Len(s) > Depth THEN SubSeq(s, Len(s) - Depth + 1, Len(s)) ELSE s

\* .. under m_spectrumMutex; the batch is due when it is full or 20 ms old
Gather == /\ dpc = "append"
          /\ pending' = Newest(pending \o column)
          /\ column' = << >>
          /\ timer' = TRUE
          /\ \/ dpc' = "flush"
             \/ dpc' = "loop" /\ Len(pending') < Batch
          /\ UNCHANGED <<ringVars, fileVars, radio, running, received, gateVars,
                         calls, wpc, events, guiVars>>

\* flushPendingSpectrum: the columns are taken under the mutex ..
Flush == /\ dpc = "flush"
         /\ column' = pending /\ pending' = << >>
         /\ dpc' = IF pending = << >> THEN "loop" ELSE "emit"
         /\ UNCHANGED <<ringVars, fileVars, radio, running, received, gateVars,
                        timer, calls, wpc, events, guiVars>>

\* .. and posted after it
Emit == /\ dpc = "emit"
        /\ events' = Append(events, [kind |-> "columns", cols |-> column])
        /\ column' = << >> /\ dpc' = "loop"
        /\ UNCHANGED <<ringVars, fileVars, radio, running, received, gateVars,
                       batchVars, calls, wpc, guiVars>>

\* the loop ends by a stop, or by itself at the end of a training file; the
\* cleanup frees the radio and leaves the ring
Leave == /\ dpc = "loop"
         /\ running' = FALSE
         /\ radio' = "none"
         /\ dpc' = "refuse"
         /\ UNCHANGED <<ringVars, fileVars, column, received, gateVars, batchVars,
                        calls, wpc, events, guiVars>>

\* runDetectionLoop after cwskimmer_start
Refuse == /\ dpc = "refuse"
          /\ accept' = FALSE /\ dpc' = "inactive"
          /\ UNCHANGED <<ringVars, fileVars, radio, running, column, received,
                         active, launched, batchVars, calls, wpc, events, guiVars>>

Inactive == /\ dpc = "inactive"
            /\ active' = FALSE /\ dpc' = "post"
            /\ UNCHANGED <<ringVars, fileVars, radio, running, column, received,
                           launched, accept, batchVars, calls, wpc, events, guiVars>>

PostEnded == /\ dpc = "post"
             /\ calls' = Append(calls, "ended") /\ dpc' = "exited"
             /\ UNCHANGED <<ringVars, fileVars, radio, running, column, received,
                            gateVars, batchVars, wpc, events, guiVars>>

Detection == Open \/ Retune \/ Block \/ Gate \/ Gather \/ Flush \/ Emit \/ Leave
             \/ Refuse \/ Inactive \/ PostEnded

-------------------------------------------------------------------------------
(* DetectorWorker's thread.                                                *)
Status(on) == [kind |-> "status", on |-> on]
ClearBatch == pending' = << >> /\ timer' = FALSE

\* start
WorkerStart ==
    /\ wpc = "idle" /\ calls # << >> /\ Head(calls) = "start"
    /\ calls' = Tail(calls)
    /\ IF active THEN UNCHANGED <<gateVars, batchVars, dpc, events>>
       ELSE /\ launched => dpc = "exited"
            /\ ClearBatch
            /\ accept' = TRUE /\ active' = TRUE /\ launched' = TRUE
            /\ events' = Append(events, Status(TRUE))
            /\ dpc' = "open"
    /\ UNCHANGED <<ringVars, fileVars, radio, running, column, received, wpc, guiVars>>

\* stop: no more callbacks, cwskimmer_stop, and the pthread is joined
WorkerStop ==
    /\ wpc = "idle" /\ calls # << >> /\ Head(calls) = "stop"
    /\ calls' = Tail(calls)
    /\ accept' = FALSE /\ ClearBatch
    /\ running' = FALSE /\ wpc' = "join"
    /\ UNCHANGED <<ringVars, fileVars, radio, detVars, active, launched, events,
                   guiVars>>

WorkerJoin ==
    /\ wpc = "join" /\ dpc \in {"none", "exited"}
    /\ dpc' = "none" /\ active' = FALSE /\ launched' = FALSE
    /\ events' = Append(events, Status(FALSE))
    /\ wpc' = "idle"
    /\ gui' = IF gui = "stopping" THEN "free" ELSE gui
    /\ UNCHANGED <<ringVars, fileVars, radio, running, column, received, accept,
                   batchVars, calls, freeze, shown, starts, clicks>>

\* the lambda that the detection pthread posted
WorkerEnded ==
    /\ wpc = "idle" /\ calls # << >> /\ Head(calls) = "ended"
    /\ calls' = Tail(calls)
    /\ ClearBatch
    /\ events' = Append(events, Status(FALSE))
    /\ UNCHANGED <<ringVars, fileVars, radio, running, detVars, gateVars, wpc, guiVars>>

Worker == WorkerStart \/ WorkerStop \/ WorkerJoin \/ WorkerEnded

-------------------------------------------------------------------------------
(* The GUI thread.                                                         *)
Gui(l) == gui' = l
GuiRest == UNCHANGED <<ringVars, radio, running, detVars, launched>>

\* isDetectionActive
DetectionActive == active \/ launched

\* onStartClicked
ClickStart == /\ gui = "free" /\ ~DetectionActive /\ starts < MaxStarts
              /\ starts' = starts + 1
              /\ freeze' = FALSE
              /\ calls' = Append(calls, "start")
              /\ UNCHANGED <<gui, fileVars, active, accept, batchVars, wpc, events,
                             shown, clicks>> /\ GuiRest

\* stopDetection: posted events are handled, then stop is waited for
ClickStop == /\ gui = "free" /\ DetectionActive
             /\ freeze' = TRUE /\ Gui("draining")
             /\ UNCHANGED <<fileVars, active, accept, batchVars, calls, wpc, events,
                            shown, starts, clicks>> /\ GuiRest

Stop == /\ gui = "draining" /\ events = << >>
        /\ calls' = Append(calls, "stop") /\ Gui("stopping")
        /\ UNCHANGED <<fileVars, active, accept, batchVars, wpc, events, freeze,
                       shown, starts, clicks>> /\ GuiRest

\* onSpectrumColumnsReady and onWorkerStatusChanged, also in a nested event loop
Handle ==
    /\ gui \in {"free", "draining", "dialog", "notice"} /\ events # << >>
    /\ events' = Tail(events)
    /\ LET e == Head(events) IN
       \/ /\ e.kind = "columns"
          /\ shown' = IF freeze THEN shown ELSE shown \o e.cols
          /\ UNCHANGED freeze
       \/ /\ e.kind = "status"
          /\ freeze' = (freeze /\ ~e.on)
          /\ UNCHANGED shown
    /\ UNCHANGED <<gui, fileVars, active, accept, batchVars, calls, wpc, starts,
                   clicks>> /\ GuiRest

\* onCaptureMarkRequested: Shift+click; pauseGuiUpdates stops the callbacks ..
ClickCapture == /\ gui = "free" /\ DetectionActive /\ clicks < MaxClicks
                /\ clicks' = clicks + 1
                /\ freeze' = TRUE
                /\ accept' = FALSE
                /\ Gui("pausing")
                /\ UNCHANGED <<fileVars, active, batchVars, calls, wpc, events,
                               shown, starts>> /\ GuiRest

\* .. and drops the columns that wait
Pause == /\ gui = "pausing"
         /\ ClearBatch
         /\ Gui("freezing")
         /\ UNCHANGED <<fileVars, active, accept, calls, wpc, events, freeze, shown,
                        starts, clicks>> /\ GuiRest

\* cwskimmer_freeze_capture under detector->lock, which the opening holds
FreezeCapture ==
    /\ gui = "freezing" /\ dpc # "open"
    /\ IF ring.count = 0
       THEN /\ frozen' = NoCapture
            /\ freeze' = FALSE /\ Gui("resume")
            /\ UNCHANGED clicked
       ELSE /\ frozen' = [samples |-> ringCopy(ring), centre |-> radioCentre]
            /\ clicked' = [samples |-> heard, centre |-> radio]
            /\ Gui("dialog") /\ UNCHANGED freeze
    /\ UNCHANGED <<files, active, accept, batchVars, calls, wpc, events, shown,
                   starts, clicks>> /\ GuiRest

\* the dialog is cancelled, or its text is empty
Cancel == /\ gui = "dialog"
          /\ frozen' = NoCapture
          /\ Gui("finish")
          /\ UNCHANGED <<files, clicked, active, accept, batchVars, calls, wpc,
                         events, freeze, shown, starts, clicks>> /\ GuiRest

\* mutant: the ring is saved, not the snapshot
saveRing == [samples |-> ringCopy(ring), centre |-> radioCentre]

\* cwskimmer_save_capture under the lock: the snapshot, or what the ring has
saveCapture == IF frozen.samples # << >> THEN frozen
               ELSE [samples |-> ringCopy(ring), centre |-> radioCentre]

\* cw_capture_save: header and samples are written, or the write fails
writeFile == \/ files' = Append(files, [saved |-> saveCapture, clicked |-> clicked])
             \/ UNCHANGED files

\* the file is written, and the snapshot is dropped; when the write fails the
\* GUI drops it
Save == /\ gui = "dialog"
        /\ writeFile
        /\ frozen' = NoCapture
        /\ Gui("notice")
        /\ UNCHANGED <<clicked, active, accept, batchVars, calls, wpc, events, freeze,
                       shown, starts, clicks>> /\ GuiRest

Acknowledge == /\ gui = "notice" /\ Gui("finish")
               /\ UNCHANGED <<fileVars, active, accept, batchVars, calls, wpc, events,
                              freeze, shown, starts, clicks>> /\ GuiRest

\* mutant: the updates are not resumed
FinishQuietly == /\ gui = "finish" /\ Gui("free")
                 /\ freeze' = FALSE
                 /\ UNCHANGED <<fileVars, active, accept, batchVars, calls, wpc,
                                events, shown, starts, clicks>> /\ GuiRest

\* finishCapture, when a session is active
Finish == /\ gui = "finish"
          /\ Gui(IF DetectionActive THEN "resume" ELSE "free")
          /\ UNCHANGED <<fileVars, active, accept, batchVars, calls, wpc, events,
                         freeze, shown, starts, clicks>> /\ GuiRest

\* resumeGuiUpdates: m_detectThreadActive is tested ..
Resume == /\ gui = "resume"
          /\ Gui(IF active THEN "resumed" ELSE "free")
          /\ freeze' = IF active THEN freeze ELSE FALSE
          /\ UNCHANGED <<fileVars, active, accept, batchVars, calls, wpc, events,
                         shown, starts, clicks>> /\ GuiRest

\* .. and the callbacks are accepted after it
Resumed == /\ gui = "resumed"
           /\ accept' = TRUE /\ timer' = FALSE
           /\ freeze' = FALSE /\ Gui("free")
           /\ UNCHANGED <<fileVars, active, pending, calls, wpc, events, shown,
                          starts, clicks>> /\ GuiRest

Window == \/ ClickStart \/ ClickStop \/ Stop \/ Handle \/ ClickCapture \/ Pause
          \/ FreezeCapture \/ Cancel \/ Save \/ Acknowledge \/ Finish \/ Resume
          \/ Resumed

Next == Detection \/ Worker \/ Window

Spec == Init /\ [][Next]_vars

-------------------------------------------------------------------------------
(* Properties.                                                             *)

\* the ring holds its newest blocks
LastBlocks(h) == IF Len(h) > Cap THEN SubSeq(h, Len(h) - Cap + 1, Len(h)) ELSE h

(* A saved capture is the IQ of the moment of the Shift+click, however     *)
(* long the dialog was open and whatever the session did meanwhile: the    *)
(* newest blocks of the ring, the oldest first, and, when the radio was    *)
(* there, its centre frequency (cwskimmer_freeze_capture,                  *)
(* cwskimmer_save_capture, cw_capture_ring_copy).                          *)
SavedIsTheClick ==
    \A i \in 1..Len(files) :
        LET f == files[i] IN
        /\ f.saved.samples = LastBlocks(f.clicked.samples)
        /\ f.clicked.centre # "none" => f.saved.centre = f.clicked.centre

(* The waterfall is never left frozen: while a session runs and the main   *)
(* window is free, with no request or status on its way, callbacks are     *)
(* accepted and columns drawn, whichever way a capture or a stop ended     *)
(* (pauseGuiUpdates, resumeGuiUpdates, finishCapture, m_freezeDisplay).    *)
DisplayLive ==
    /\ gui = "free" /\ active /\ dpc \in {"loop", "callback", "append", "flush", "emit"}
    /\ calls = << >>
    /\ \A i \in 1..Len(events) : events[i].kind = "columns"
    => accept /\ ~freeze

(* A column is drawn once and after all the columns received before it,    *)
(* though batches wait in the worker, in the pthread's hands and in the    *)
(* GUI thread's queue, and pauses and stops drop some                      *)
(* (onSpectrumUpdated, flushPendingSpectrum, onSpectrumColumnsReady).      *)
DrawnInOrder == \A i \in 1..(Len(shown) - 1) : shown[i] < shown[i + 1]

(* The waterfall is never left frozen by a capture or a stop, and draws    *)
(* its columns once and in the order they were received.                   *)
DisplayRight == DisplayLive /\ DrawnInOrder

===============================================================================
