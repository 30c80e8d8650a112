---------------------------- MODULE SkimmerSession ----------------------------
(***************************************************************************)
(* A detection session from the Start button to the cleanup: the main      *)
(* window (gui/mainwindow.cpp) posts requests to DetectorWorker            *)
(* (gui/detectorworker.cpp), which lives on a QThread of its own and runs  *)
(* cwskimmer_start (cwskimmer_api.c) on a detection pthread; the detection *)
(* loop starts decode threads, whose results come back as callbacks.       *)
(*                                                                         *)
(* detector->lock is a variable.  What a thread does under it without      *)
(* waiting for another thread is one action; opening the radio and the     *)
(* cleanup hold it over several.  The radio client, the detector and the   *)
(* audio processor are made and freed together and are one flag, radio.    *)
(* A decode thread holds its own worker->lock in the steps of Callback.    *)
(* What a decode worker does with its queue is DecodeWorker's subject; of  *)
(* a steady carrier, for which a thread resets its own worker, the steps   *)
(* are here that a controller can meet.  That the slot of such a worker is *)
(* started again while its thread still spins is DecodeWorker's, too.      *)
(***************************************************************************)
EXTENDS Naturals, Sequences, FiniteSets

CONSTANTS Channels,     \* decode channels
          MaxClicks,    \* bound: requests of the main window
          Playback,     \* are training files played?
          SpotEnabled,  \* config spot_enabled
          Callbacks     \* are decode and spot callbacks registered?

ASSUME SessionAssumption ==
    /\ MaxClicks \in Nat
    /\ Playback \in BOOLEAN /\ SpotEnabled \in BOOLEAN
    /\ Callbacks \in BOOLEAN

VARIABLES
    main,              \* the main window: "free", "stopping", "closing"
    events, clicks,    \* requests posted to DetectorWorker's thread
    gpc, gret,         \* DetectorWorker's thread
    active, launched,  \* m_detectThreadActive, m_detectThreadLaunched
    shown,             \* the last statusChanged
    training,          \* config training_file is set
    lock,              \* who holds detector->lock: "none" or "det"
    running, loop_active,
    radio, reporter,   \* the sub-resources exist
    dpc, dret,         \* the detection pthread
    left,              \* channels it still has to release
    stopping, joinee,  \* the one whose decode_worker_stop is on its way, and the
                       \* one whose thread is to be joined in it; none or one
    wpc, wstop, named  \* decode threads, worker->stop, worker->thread_running

mainVars   == <<main, clicks>>
guiVars    == <<gpc, gret, active, launched, shown, training>>
flagVars   == <<lock, running, loop_active, radio, reporter>>
detVars    == <<dpc, dret, left, stopping, joinee>>
workerVars == <<wpc, wstop, named>>
stopVars   == <<stopping, joinee>>
vars       == <<mainVars, events, guiVars, flagVars, detVars, workerVars>>

Init == /\ main = "free" /\ events = << >> /\ clicks = 0
        /\ gpc = "idle" /\ gret = "idle" /\ active = FALSE /\ launched = FALSE
        /\ shown = FALSE /\ training = FALSE
        /\ lock = "none" /\ running = FALSE /\ loop_active = FALSE
        /\ radio = FALSE /\ reporter = FALSE
        /\ dpc = "none" /\ dret = "loop" /\ left = {}
        /\ stopping = {} /\ joinee = {}
        /\ wpc = [w \in Channels |-> "off"]
        /\ wstop = [w \in Channels |-> FALSE]
        /\ named = [w \in Channels |-> FALSE]

-------------------------------------------------------------------------------
(* The main window.                                                        *)
Post(e) == /\ main = "free" /\ clicks < MaxClicks
           /\ clicks' = clicks + 1
           /\ events' = Append(events, e)
           /\ UNCHANGED <<guiVars, flagVars, detVars, workerVars>>

\* isDetectionActive: the buttons are refused then
DetectionActive == active \/ launched

\* onStartClicked, onStartPlaybackClicked
ClickStart == /\ ~DetectionActive
              /\ \/ Post("live")
                 \/ Playback /\ Post("playback")
              /\ UNCHANGED main

\* applyTciStreamMode
ClickStream == Post("stream") /\ UNCHANGED main

\* stopDetection and closeEvent wait for the worker's thread
ClickStop  == Post("stop") /\ main' = "stopping"
ClickClose == Post("stop") /\ main' = "closing"

-------------------------------------------------------------------------------
(* DetectorWorker's thread.                                                *)
Gui(l) == gpc' = l

TakeEvent == /\ gpc = "idle" /\ events # << >>
             /\ events' = Tail(events)
             /\ Gui(Head(events))
             /\ UNCHANGED <<mainVars, gret, active, launched, shown, training,
                            flagVars, detVars, workerVars>>

\* setConfig("training_file") comes just before every start
SetTraining == /\ gpc \in {"live", "playback"} /\ lock = "none"
               /\ training' = (gpc = "playback")
               /\ Gui("start")
               /\ UNCHANGED <<mainVars, events, gret, active, launched, shown,
                              flagVars, detVars, workerVars>>

\* start: ignored when active; a thread that has finished is joined first
Start == /\ gpc = "start"
         /\ Gui(IF active THEN "idle" ELSE IF launched THEN "join" ELSE "check")
         /\ gret' = "check"
         /\ UNCHANGED <<mainVars, events, active, launched, shown, training,
                        flagVars, detVars, workerVars>>

\* what a previous session left running is stopped, and waited for
StartCheck == /\ gpc = "check"
              /\ lock = "none"
              /\ IF loop_active \/ running
                 THEN running' = FALSE /\ Gui("settle")
                 ELSE Gui("create") /\ UNCHANGED running
              /\ UNCHANGED <<mainVars, events, gret, active, launched, shown,
                             training, lock, loop_active, radio, reporter,
                             detVars, workerVars>>

\* waitForLoopInactive(8000), with its result
StartSettle == /\ gpc = "settle"
               /\ Gui(IF loop_active THEN "idle" ELSE "create")
               /\ UNCHANGED <<mainVars, events, gret, active, launched, shown,
                              training, flagVars, detVars, workerVars>>

\* pthread_create
StartCreate == /\ gpc = "create"
               /\ active' = TRUE /\ launched' = TRUE /\ shown' = TRUE
               /\ dpc' = "enter"
               /\ Gui("idle")
               /\ UNCHANGED <<mainVars, events, gret, training, flagVars, dret,
                              left, stopVars, workerVars>>

StartCreateFails == /\ gpc = "create"
                    /\ active' = FALSE /\ shown' = FALSE
                    /\ Gui("idle")
                    /\ UNCHANGED <<mainVars, events, gret, launched, training,
                                   flagVars, detVars, workerVars>>

\* mutant: stop waits for the detection loop only a while
StopNoJoin == /\ gpc = "stop" /\ lock = "none"
              /\ running' = FALSE
              /\ Gui("stopped") /\ gret' = "stopped"
              /\ UNCHANGED <<mainVars, events, active, launched, shown,
                             training, lock, loop_active, radio, reporter,
                             detVars, workerVars>>

\* stop: cwskimmer_stop, then the thread is joined, however long it takes
Stop == /\ gpc = "stop" /\ lock = "none"
        /\ running' = FALSE
        /\ Gui(IF launched THEN "join" ELSE "stopped")
        /\ gret' = "stopped"
        /\ UNCHANGED <<mainVars, events, active, launched, shown, training, lock,
                       loop_active, radio, reporter, detVars, workerVars>>

\* mutant: the joined thread may be joined again
JoinAgain == /\ gpc = "join" /\ dpc = "exited"
             /\ active' = FALSE /\ dpc' = "none"
             /\ Gui(gret)
             /\ UNCHANGED <<mainVars, events, gret, launched, shown, training,
                            flagVars, dret, left, stopVars, workerVars>>

\* joinDetectionThread
Join == /\ gpc = "join" /\ dpc = "exited"
        /\ launched' = FALSE /\ active' = FALSE
        /\ dpc' = "none"
        /\ Gui(gret)
        /\ UNCHANGED <<mainVars, events, gret, shown, training, flagVars, dret,
                       left, stopVars, workerVars>>

\* stop returns; the window that is closing destroys the detector
Stopped == /\ gpc = "stopped"
           /\ shown' = FALSE
           /\ main' = IF main = "closing" THEN main ELSE "free"
           /\ Gui(IF main = "closing" THEN "destroy" ELSE "idle")
           /\ UNCHANGED <<clicks, events, gret, active, launched, training,
                          flagVars, detVars, workerVars>>

\* cwskimmer_detector_destroy
Destroy == /\ gpc = "destroy" /\ lock = "none"
           /\ running' = FALSE /\ radio' = FALSE /\ reporter' = FALSE
           /\ Gui("gone")
           /\ UNCHANGED <<mainVars, events, gret, active, launched, shown,
                          training, lock, loop_active, detVars, workerVars>>

\* config_set("tci_stream_mode"): with a radio the lock is released and the
\* stream is subscribed again
SetStream == /\ gpc = "stream" /\ lock = "none"
             /\ Gui("idle") \/ (radio /\ Gui("resubscribe"))
             /\ UNCHANGED <<mainVars, events, gret, active, launched, shown,
                            training, flagVars, detVars, workerVars>>

Resubscribed == /\ gpc = "resubscribe" /\ Gui("idle")
                /\ UNCHANGED <<mainVars, events, gret, active, launched, shown,
                               training, flagVars, detVars, workerVars>>

\* the status posted by a detection thread that ended
Ended == /\ gpc = "ended"
         /\ shown' = FALSE /\ Gui("idle")
         /\ UNCHANGED <<mainVars, events, gret, active, launched, training,
                        flagVars, detVars, workerVars>>

Worker == \/ TakeEvent \/ SetTraining
          \/ Start \/ StartCheck \/ StartSettle \/ StartCreate \/ StartCreateFails
          \/ Stop \/ Join \/ Stopped \/ Destroy
          \/ SetStream \/ Resubscribed \/ Ended

-------------------------------------------------------------------------------
(* The detection pthread: cwskimmer_start.                                 *)
Det(l) == dpc' = l
DetRest == UNCHANGED <<mainVars, guiVars>>

\* refused while a session is active; or marked active, running cleared
Enter == /\ dpc = "enter"
         /\ IF loop_active
            THEN Det("return") /\ UNCHANGED <<loop_active, running>>
            ELSE Det("open") /\ loop_active' = TRUE /\ running' = FALSE
         /\ DetRest
         /\ UNCHANGED <<events, lock, radio, reporter, dret, left, stopVars, workerVars>>

\* the lock is held while the radio is connected
Open == /\ dpc = "open" /\ lock = "none"
        /\ lock' = "det" /\ radio' = FALSE /\ reporter' = FALSE
        /\ Det("opening")
        /\ DetRest
        /\ UNCHANGED <<events, running, loop_active, dret, left, stopVars, workerVars>>

\* mutant: a start that failed leaves the session marked active
OpenFailsMarked == /\ dpc = "opening"
                   /\ lock' = "none" /\ Det("return")
                   /\ DetRest
                   /\ UNCHANGED <<events, running, loop_active, radio, reporter,
                                  dret, left, stopVars, workerVars>>

\* the failure exits: what was made is freed
OpenFails == /\ dpc = "opening"
             /\ lock' = "none" /\ loop_active' = FALSE
             /\ Det("return")
             /\ DetRest
             /\ UNCHANGED <<events, running, radio, reporter, dret, left, stopVars,
                            workerVars>>

\* release_all_channels finds every channel released
Opened == /\ dpc = "opening"
          /\ radio' = TRUE /\ reporter' = SpotEnabled /\ running' = TRUE
          /\ lock' = "none"
          /\ Det("allocate")
          /\ DetRest
          /\ UNCHANGED <<events, loop_active, dret, left, stopVars, workerVars>>

\* malloc of iq_buffer; without it the session is stopped and undone
Allocate == /\ dpc = "allocate"
            /\ \/ Det("loop") /\ UNCHANGED flagVars
               \/ /\ lock = "none"
                  /\ running' = FALSE /\ radio' = FALSE /\ reporter' = FALSE
                  /\ loop_active' = FALSE
                  /\ Det("return") /\ UNCHANGED lock
            /\ DetRest
            /\ UNCHANGED <<events, dret, left, stopVars, workerVars>>

\* a signal is heard: a free channel gets a decode thread
LoopAcquire(w) == /\ dpc = "loop" /\ running
                  /\ wpc[w] = "off"
                  /\ wpc' = [wpc EXCEPT ![w] = "ready"]
                  /\ named' = [named EXCEPT ![w] = TRUE]
                  /\ DetRest
                  /\ UNCHANGED <<events, flagVars, detVars, wstop>>

\* a channel is silent for DECODE_CHANNEL_TIMEOUT_SEC: it is released; or the
\* slot of a steady carrier is to be started again, which stops it first
LoopExpire(w) == /\ dpc = "loop" /\ running
                 /\ wpc[w] # "off"
                 /\ left' = {w} /\ dret' = "loop"
                 /\ Det("release")
                 /\ DetRest
                 /\ UNCHANGED <<events, flagVars, stopVars, workerVars>>

\* spot_reporter_process_retries drains the reporter; a decode thread whose
\* send fails meanwhile makes the drain turn for ever (spot_reporter.c:284)
LoopDrain == /\ dpc = "loop" /\ running /\ reporter
             /\ \E w \in Channels : wpc[w] = "spot"
             /\ Det("drain")
             /\ DetRest
             /\ UNCHANGED <<events, flagVars, dret, left, stopVars, workerVars>>

LoopStopped == /\ dpc = "loop" /\ ~running
               /\ Det("final")
               /\ DetRest
               /\ UNCHANGED <<events, flagVars, dret, left, stopVars, workerVars>>

\* the training file is consumed; running stays set
LoopConsumed == /\ dpc = "loop" /\ training
                /\ Det("final")
                /\ DetRest
                /\ UNCHANGED <<events, flagVars, dret, left, stopVars, workerVars>>

\* after the last radio_control_service, the cleanup under the lock: the
\* reporter is destroyed first, then the decode threads are stopped
Cleanup == /\ dpc = "final" /\ lock = "none"
           /\ lock' = "det" /\ reporter' = FALSE
           /\ left' = Channels /\ dret' = "free"
           /\ Det("release")
           /\ DetRest
           /\ UNCHANGED <<events, running, loop_active, radio, stopVars, workerVars>>

\* worker->lock is held by a decode thread that makes its callbacks
InCallback(w) == wpc[w] \in {"callback", "decoded", "spot", "spotted"}

\* decode_worker_stop: stop is set under worker->lock, and the thread to be
\* joined, if there is one, is taken ...
ReleaseStop(w) == /\ dpc = "release" /\ w \in left
                  /\ stopping = {}
                  /\ ~InCallback(w)
                  /\ wstop' = [wstop EXCEPT ![w] = TRUE]
                  /\ stopping' = {w}
                  /\ joinee' = IF named[w] THEN {w} ELSE {}
                  /\ named' = [named EXCEPT ![w] = FALSE]
                  /\ DetRest
                  /\ UNCHANGED <<events, flagVars, dpc, dret, left, wpc>>

\* ... it is joined, and stop cleared
ReleaseJoin(w) == /\ dpc = "release" /\ stopping = {w}
                  /\ w \in joinee => wpc[w] = "off"
                  /\ wstop' = [wstop EXCEPT ![w] = FALSE]
                  /\ left' = left \ {w}
                  /\ stopping' = {} /\ joinee' = {}
                  /\ DetRest
                  /\ UNCHANGED <<events, flagVars, dpc, dret, wpc, named>>

Released == /\ dpc = "release" /\ left = {}
            /\ Det(dret)
            /\ DetRest
            /\ UNCHANGED <<events, flagVars, dret, left, stopVars, workerVars>>

Free == /\ dpc = "free"
        /\ radio' = FALSE /\ lock' = "none"
        /\ Det("leave")
        /\ DetRest
        /\ UNCHANGED <<events, running, loop_active, reporter, dret, left, stopVars,
                       workerVars>>

Leave == /\ dpc = "leave"
         /\ loop_active' = FALSE /\ Det("return")
         /\ DetRest
         /\ UNCHANGED <<events, lock, running, radio, reporter, dret, left, stopVars,
                        workerVars>>

\* runDetectionLoop, after cwskimmer_start returned
Return == /\ dpc = "return"
          /\ active' = FALSE /\ Det("post")
          /\ UNCHANGED <<mainVars, events, gpc, gret, launched, shown, training,
                         flagVars, dret, left, stopVars, workerVars>>

PostEnded == /\ dpc = "post"
             /\ events' = Append(events, "ended")
             /\ Det("exited")
             /\ DetRest
             /\ UNCHANGED <<flagVars, dret, left, stopVars, workerVars>>

Loop == LoopDrain \/ \E w \in Channels : LoopAcquire(w) \/ LoopExpire(w)

Session == \/ Enter \/ Open \/ OpenFails \/ Opened \/ Allocate
           \/ LoopStopped
           \/ Cleanup
           \/ \E w \in Channels : ReleaseStop(w) \/ ReleaseJoin(w)
           \/ Released \/ Free \/ Leave \/ Return \/ PostEnded

-------------------------------------------------------------------------------
(* A decode thread.                                                        *)
At(w, l) == wpc' = [wpc EXCEPT ![w] = l]
DecodeRest == UNCHANGED <<mainVars, events, guiVars, flagVars, detVars, wstop, named>>

\* mutant: a stopped thread decodes what is queued first
DecodeFirst(w) == /\ wpc[w] = "ready" /\ At(w, "decoding")
                  /\ DecodeRest

Decode(w) == /\ wpc[w] = "ready" /\ ~wstop[w] /\ At(w, "decoding")
             /\ DecodeRest

\* worker->lock is taken and result_cb called; there may be nothing to show
Result(w) == /\ wpc[w] = "decoding"
             /\ \/ Callbacks /\ At(w, "callback")
                \/ At(w, "decoded")
             /\ DecodeRest

\* cwskimmer_send_decode_update fetches the callback under detector->lock
SendUpdate(w) == /\ wpc[w] = "callback" /\ lock = "none"
                 /\ At(w, "decoded")
                 /\ DecodeRest

\* a valid callsign is spotted when there is a reporter; nothing to spot
TestReporter(w) == /\ wpc[w] = "decoded"
                   /\ \/ reporter /\ At(w, "spot")
                      \/ At(w, "ready")
                   /\ DecodeRest

\* spot_reporter_submit_spot, on the reporter that was tested
UseReporter(w) == /\ wpc[w] = "spot"
                  /\ At(w, IF Callbacks THEN "spotted" ELSE "ready")
                  /\ DecodeRest

\* spot_cb is called under detector->lock
SpotCallback(w) == /\ wpc[w] = "spotted" /\ lock = "none"
                   /\ At(w, "ready")
                   /\ DecodeRest

\* for a steady carrier the thread marks the channel and, in the callback
\* without the lock, releases it: stop is set, and if it is still the one to
\* be joined it joins itself, which fails at once;
BirdieStop(w) == /\ wpc[w] = "decoding" /\ At(w, "reset")
                 /\ wstop' = [wstop EXCEPT ![w] = TRUE]
                 /\ named' = [named EXCEPT ![w] = FALSE]
                 /\ UNCHANGED <<mainVars, events, guiVars, flagVars, detVars>>

\* then stop is cleared, and the thread goes on looping on an inactive worker
BirdieFree(w) == /\ wpc[w] = "reset" /\ At(w, "spinning")
                 /\ wstop' = [wstop EXCEPT ![w] = FALSE]
                 /\ UNCHANGED <<mainVars, events, guiVars, flagVars, detVars, named>>

\* at the head of the loop stop is seen
Exit(w) == /\ wpc[w] \in {"ready", "spinning"} /\ wstop[w] /\ At(w, "off")
           /\ DecodeRest

Decoding(w) == \/ Decode(w) \/ Result(w) \/ SendUpdate(w) \/ TestReporter(w)
               \/ UseReporter(w) \/ SpotCallback(w) \/ Exit(w)
               \/ BirdieStop(w) \/ BirdieFree(w)

Next == \/ ClickStart \/ ClickStream \/ ClickStop \/ ClickClose
        \/ Worker
        \/ Session \/ Loop \/ LoopConsumed
        \/ \E w \in Channels : Decoding(w)

Spec == Init /\ [][Next]_vars

\* Threads go on when they can, a worker->lock that is free again and again
\* is got, and a training file comes to its end.
FairSpec == /\ Spec
            /\ WF_vars(Worker)
            /\ WF_vars(Session) /\ SF_vars(LoopConsumed)
            /\ \A w \in Channels : /\ WF_vars(Decoding(w))
                                   /\ SF_vars(ReleaseStop(w))

-------------------------------------------------------------------------------
Ops == {"idle", "live", "playback", "start", "check", "settle", "create", "stop",
        "join", "stopped", "destroy", "gone", "stream", "resubscribe", "ended"}
DetSteps == {"none", "enter", "open", "opening", "allocate", "loop", "drain",
             "release", "final", "free", "leave", "return", "post", "exited"}

\* at most one channel
Single == {{}} \cup {{w} : w \in Channels}

\* TypeOK in three parts, as the proofs use it.
Flags == /\ active \in BOOLEAN /\ launched \in BOOLEAN
         /\ shown \in BOOLEAN /\ training \in BOOLEAN
         /\ running \in BOOLEAN /\ loop_active \in BOOLEAN
         /\ radio \in BOOLEAN /\ reporter \in BOOLEAN

Types == /\ main \in {"free", "stopping", "closing"}
         /\ events \in Seq({"live", "playback", "stop", "stream", "ended"})
         /\ clicks \in 0 .. MaxClicks
         /\ gpc \in Ops /\ gret \in {"idle", "check", "stopped"}
         /\ lock \in {"none", "det"}
         /\ dpc \in DetSteps /\ dret \in {"loop", "free"}
         /\ left \subseteq Channels
         /\ wpc \in [Channels -> {"off", "ready", "decoding", "callback",
                                  "decoded", "spot", "spotted", "reset", "spinning"}]
         /\ wstop \in [Channels -> BOOLEAN] /\ named \in [Channels -> BOOLEAN]
         /\ stopping \in Single /\ joinee \in Single

\* Every variable has its type, and m_detectThread names a thread exactly while
\* it is launched: none is joined twice and none is left unjoined.
ThreadNamed == launched <=> dpc # "none"
TypeOK == Types /\ Flags /\ ThreadNamed

InLoop == dpc \in {"loop", "drain", "final"} \/ (dpc = "release" /\ dret = "loop")

\* A thread that has reset its own worker for a steady carrier: nobody joins it
\* and it uses nothing of the session any more.
Strays == {w \in Channels : wpc[w] \in {"reset", "spinning"}}
Decoders == {w \in Channels : wpc[w] # "off"} \ Strays

\* The detection loop and the last service use the radio without the lock:
\* it exists as long as they run, whatever Stop, Start and a stream switch do
\* meanwhile.  Decode threads, but for the strays, run only inside a session.
SessionAlive == /\ InLoop => radio
                /\ Decoders # {} => loop_active

\* A session that is over, however it ended, leaves nothing behind that the
\* next start would overwrite or be refused for: no radio, no reporter, no
\* decode thread but for strays, no lock, and loop_active is clear.
CleanAfter == dpc \in {"none", "return", "post", "exited"} =>
                 /\ ~radio /\ ~reporter /\ ~loop_active /\ lock = "none"
                 /\ Decoders = {} /\ \A w \in Channels : wstop[w] => w \in Strays

\* A detection thread is created only after the one before was joined, and
\* with the flags of the last session cleared.
CreateFresh == gpc = "create" => dpc = "none" /\ ~loop_active /\ ~running

\* Why SessionAlive, CleanAfter, CreateFresh and StopIsFinal hold: where the
\* detection thread is tells which resources exist, who holds the lock and
\* which decode threads may be there, and what DetectorWorker does between two
\* sessions it does while no thread is launched.  Inductive; see
\* SkimmerSessionProofs.
FinalRelease == dpc = "release" /\ dret = "free"

SessionInv ==
    /\ active <=> dpc \notin {"none", "post", "exited"}
    /\ loop_active <=> dpc \notin {"none", "enter", "return", "post", "exited"}
    /\ lock = "det" <=> dpc \in {"opening", "free"} \/ FinalRelease
    /\ radio <=> dpc \in {"allocate", "loop", "drain", "final", "release", "free"}
    /\ reporter => dpc = "allocate" \/ InLoop
    /\ \A w \in Decoders : /\ InLoop \/ (FinalRelease /\ w \in left)
                           /\ named[w] \/ w \in joinee
    /\ \A w \in Channels : wstop[w] => w \in stopping \/ wpc[w] = "reset"
    /\ joinee \subseteq stopping /\ stopping \subseteq left
    /\ \A w \in stopping : ~named[w]
    /\ stopping # {} => dpc = "release"
    /\ gpc \in {"check", "settle", "create", "stopped", "destroy", "gone"}
          => dpc = "none"
    /\ gpc = "join" => dpc # "none" /\ gret # "idle"
    /\ gpc \in {"settle", "create"} => ~running

IInv == TypeOK /\ SessionInv

\* What the parts of a session rely on; a conjunct per part.
SessionSafe == SessionAlive /\ CleanAfter /\ CreateFresh

\* When the main window gets Stop's return the session it stopped is over,
\* although requests were queued before the stop and others come from a
\* session that is ending by itself.
StopIsFinal == [][main = "stopping" /\ main' = "free" =>
                    dpc = "none" /\ ~loop_active /\ ~active]_vars

\* No deadlock between detector->lock and a worker->lock: the cleanup, which
\* holds the first, does not wait for a decode thread that wants it.
NoLockCycle == ~(/\ lock = "det" /\ dpc = "release"
                 /\ \E w \in left : wpc[w] \in {"callback", "spotted"})

\* The stop came before cwskimmer_start set running, and was lost.
StopLost == gpc = "join" /\ gret = "stopped" /\ running

\* A decode thread that was to be joined has cleared stop itself.
JoinHangs == \E w \in joinee : wpc[w] = "spinning"

\* Stop, for which the main window waits, returns, except for what the code
\* allows to keep it: the stop was lost, the cleanup is in the lock cycle, it
\* joins a thread that has reset itself for a steady carrier, or the loop
\* drains a reporter whose connection was lost meanwhile.
StopEnds == main = "stopping" ~> \/ main = "free"
                                 \/ StopLost \/ ~NoLockCycle \/ JoinHangs
                                 \/ dpc = "drain"

\* The window learns that a session has ended, or that another is active.
EndIsShown == shown /\ ~active ~> ~shown \/ active

\* What was asked to end ends, and what has ended is shown.
Ends == StopEnds /\ EndIsShown
===============================================================================
