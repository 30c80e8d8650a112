-------------------------- MODULE SkimmerSessionProofs --------------------------
(***************************************************************************)
(* Theorems about a detection session, for any set of decode channels and  *)
(* any number of requests, with or without playback, spots and callbacks:  *)
(* the detection loop never runs without its radio, a session that is over *)
(* left nothing behind, and a Stop that returned stopped the session.      *)
(***************************************************************************)
EXTENDS SkimmerSession, TLAPS

\* The window's requests and the session's posted end are the only events.
Requests == {"live", "playback", "stop", "stream", "ended"}

LEMMA EventTaken ==
  ASSUME events \in Seq(Requests), events # << >>
  PROVE  Tail(events) \in Seq(Requests) /\ Head(events) \in Requests
  OBVIOUS

LEMMA EventPosted ==
  ASSUME events \in Seq(Requests), NEW e \in Requests
  PROVE  Append(events, e) \in Seq(Requests)
  OBVIOUS

\* Every variable keeps its type, and m_detectThread names a thread exactly
\* while m_detectThreadLaunched is set: no detection thread is joined twice or
\* left unjoined, whatever is clicked and however sessions end.
THEOREM TypeCorrect == Spec => []TypeOK
<1>1. Init => Types
  BY SessionAssumption DEF Init, Types, Ops, DetSteps, Single
<1>2. Init => Flags /\ ThreadNamed
  BY DEF Init, Flags, ThreadNamed
<1>3. Types /\ [Next]_vars => Types'
  <2> SUFFICES ASSUME Types, [Next]_vars PROVE Types'
    OBVIOUS
  <2> USE SessionAssumption DEF Types, Ops, DetSteps, mainVars, guiVars,
          flagVars, detVars, stopVars, workerVars, Gui, Det, DetRest
  <2>1. CASE ClickStart \/ ClickStream \/ ClickStop \/ ClickClose
    <3>1. PICK e \in Requests : Post(e)
      BY <2>1 DEF ClickStart, ClickStream, ClickStop, ClickClose, Requests
    <3>2. events' \in Seq({"live", "playback", "stop", "stream", "ended"})
      BY <3>1, EventPosted DEF Post, Requests
    <3>3. clicks' \in 0 .. MaxClicks
      BY <3>1 DEF Post
    <3>4. main' \in {"free", "stopping", "closing"}
      BY <2>1 DEF ClickStart, ClickStream, ClickStop, ClickClose
    <3> QED
      BY <3>1, <3>2, <3>3, <3>4 DEF Post
  <2>2. CASE TakeEvent
    BY <2>2, EventTaken DEF TakeEvent, Requests
  <2>3. CASE SetTraining \/ Start \/ StartCheck \/ StartSettle
    BY <2>3 DEF SetTraining, Start, StartCheck, StartSettle
  <2>4. CASE StartCreate \/ StartCreateFails
    BY <2>4 DEF StartCreate, StartCreateFails
  <2>5. CASE Stop \/ Join \/ Stopped \/ Destroy
    BY <2>5 DEF Stop, Join, Stopped, Destroy
  <2>6. CASE SetStream \/ Resubscribed \/ Ended
    BY <2>6 DEF SetStream, Resubscribed, Ended
  <2>7. CASE Enter \/ Open \/ OpenFails \/ Opened \/ Allocate
    BY <2>7 DEF Enter, Open, OpenFails, Opened, Allocate
  <2>8. CASE Loop
    BY <2>8 DEF Loop, LoopDrain, LoopAcquire, LoopExpire
  <2>9. CASE LoopStopped \/ LoopConsumed \/ Cleanup
    BY <2>9 DEF LoopStopped, LoopConsumed, Cleanup
  <2>10. ASSUME NEW w \in Channels, ReleaseStop(w) \/ ReleaseJoin(w)
         PROVE  Types'
    <3>1. stopping' \in Single /\ joinee' \in Single
      BY <2>10 DEF ReleaseStop, ReleaseJoin, Single
    <3>2. /\ wstop' \in [Channels -> BOOLEAN] /\ named' \in [Channels -> BOOLEAN]
          /\ left' \subseteq Channels
      BY <2>10 DEF ReleaseStop, ReleaseJoin
    <3>3. UNCHANGED <<mainVars, events, guiVars, flagVars, dpc, dret, wpc>>
      BY <2>10 DEF ReleaseStop, ReleaseJoin
    <3> QED
      BY <3>1, <3>2, <3>3
  <2>11. CASE Released \/ Free \/ Leave \/ Return
    BY <2>11 DEF Released, Free, Leave, Return
  <2>12. CASE PostEnded
    BY <2>12, EventPosted DEF PostEnded, Requests
  <2>13. ASSUME NEW w \in Channels, Decoding(w) PROVE Types'
    <3>1. UNCHANGED <<mainVars, events, guiVars, flagVars, detVars>>
      BY <2>13 DEF Decoding, Decode, Result, SendUpdate, TestReporter, UseReporter,
                   SpotCallback, BirdieStop, BirdieFree, Exit, DecodeRest
    <3>2. \E l \in {"off", "ready", "decoding", "callback", "decoded", "spot",
                    "spotted", "reset", "spinning"} : wpc' = [wpc EXCEPT ![w] = l]
      BY <2>13 DEF Decoding, Decode, Result, SendUpdate, TestReporter, UseReporter,
                   SpotCallback, BirdieStop, BirdieFree, Exit, At
    <3>3. wstop' \in [Channels -> BOOLEAN] /\ named' \in [Channels -> BOOLEAN]
      BY <2>13 DEF Decoding, Decode, Result, SendUpdate, TestReporter, UseReporter,
                   SpotCallback, BirdieStop, BirdieFree, Exit, DecodeRest
    <3>4. wpc' \in [Channels -> {"off", "ready", "decoding", "callback", "decoded",
                                 "spot", "spotted", "reset", "spinning"}]
      BY <3>2
    <3> QED
      BY <3>1, <3>3, <3>4
  <2>14. CASE UNCHANGED vars
    BY <2>14 DEF vars
  <2> QED
    BY <2>1, <2>2, <2>3, <2>4, <2>5, <2>6, <2>7, <2>8, <2>9, <2>10, <2>11,
       <2>12, <2>13, <2>14 DEF Next, Worker, Session
<1>4. Types /\ ThreadNamed /\ [Next]_vars => ThreadNamed'
  <2> SUFFICES ASSUME Types, ThreadNamed, [Next]_vars PROVE ThreadNamed'
    OBVIOUS
  <2> USE DEF ThreadNamed, mainVars, guiVars, flagVars, detVars, stopVars, workerVars, Gui, Det,
          DetRest
  <2>1. CASE ClickStart \/ ClickStream \/ ClickStop \/ ClickClose
    BY <2>1 DEF ClickStart, ClickStream, ClickStop, ClickClose, Post
  <2>2. CASE TakeEvent \/ SetTraining \/ Start \/ StartCheck \/ StartSettle
    BY <2>2 DEF TakeEvent, SetTraining, Start, StartCheck, StartSettle
  <2>3. CASE StartCreate \/ StartCreateFails \/ Stop \/ Join
    BY <2>3 DEF StartCreate, StartCreateFails, Stop, Join
  <2>4. CASE Stopped \/ Destroy \/ SetStream \/ Resubscribed \/ Ended
    BY <2>4 DEF Stopped, Destroy, SetStream, Resubscribed, Ended
  <2>5. CASE Enter \/ Open \/ OpenFails \/ Opened \/ Allocate
    BY <2>5 DEF Enter, Open, OpenFails, Opened, Allocate
  <2>6. CASE Loop \/ LoopStopped \/ LoopConsumed \/ Cleanup
    BY <2>6 DEF Loop, LoopDrain, LoopAcquire, LoopExpire, LoopStopped, LoopConsumed, Cleanup
  <2>7. ASSUME NEW w \in Channels,
               ReleaseStop(w) \/ ReleaseJoin(w) \/ Decoding(w)
        PROVE  ThreadNamed'
    BY <2>7 DEF ReleaseStop, ReleaseJoin, Decoding, Decode, Result, SendUpdate,
                TestReporter, UseReporter, SpotCallback, BirdieStop, BirdieFree,
                Exit, DecodeRest
  <2>8. CASE Released \/ Free \/ Leave \/ Return \/ PostEnded
    BY <2>8 DEF Released, Free, Leave, Return, PostEnded, Types
  <2>9. CASE UNCHANGED vars
    BY <2>9 DEF vars
  <2> QED
    BY <2>1, <2>2, <2>3, <2>4, <2>5, <2>6, <2>7, <2>8, <2>9
       DEF Next, Worker, Session
<1>5. Flags /\ [Next]_vars => Flags'
  <2> SUFFICES ASSUME Flags, [Next]_vars PROVE Flags'
    OBVIOUS
  <2> USE DEF Flags, mainVars, guiVars, flagVars, detVars, stopVars, workerVars, Gui, Det,
          DetRest
  <2>1. CASE ClickStart \/ ClickStream \/ ClickStop \/ ClickClose
    BY <2>1 DEF ClickStart, ClickStream, ClickStop, ClickClose, Post
  <2>2. CASE TakeEvent \/ SetTraining \/ Start \/ StartCheck \/ StartSettle
    BY ZenonT(60), <2>2 DEF TakeEvent, SetTraining, Start, StartCheck, StartSettle
  <2>3. CASE StartCreate \/ StartCreateFails \/ Stop \/ Join
    BY <2>3 DEF StartCreate, StartCreateFails, Stop, Join
  <2>4. CASE Stopped \/ Destroy \/ SetStream \/ Resubscribed \/ Ended
    BY <2>4 DEF Stopped, Destroy, SetStream, Resubscribed, Ended
  <2>5. CASE Enter \/ Open \/ OpenFails \/ Opened \/ Allocate
    BY ZenonT(60), <2>5, SessionAssumption DEF Enter, Open, OpenFails, Opened, Allocate
  <2>6. CASE Loop \/ LoopStopped \/ LoopConsumed \/ Cleanup
    BY <2>6 DEF Loop, LoopDrain, LoopAcquire, LoopExpire, LoopStopped, LoopConsumed, Cleanup
  <2>7. ASSUME NEW w \in Channels,
               ReleaseStop(w) \/ ReleaseJoin(w) \/ Decoding(w)
        PROVE  Flags'
    BY <2>7 DEF ReleaseStop, ReleaseJoin, Decoding, Decode, Result, SendUpdate,
                TestReporter, UseReporter, SpotCallback, BirdieStop, BirdieFree,
                Exit, DecodeRest
  <2>8. CASE Released \/ Free \/ Leave \/ Return \/ PostEnded
    BY <2>8 DEF Released, Free, Leave, Return, PostEnded
  <2>9. CASE UNCHANGED vars
    BY <2>9 DEF vars
  <2> QED
    BY <2>1, <2>2, <2>3, <2>4, <2>5, <2>6, <2>7, <2>8, <2>9
       DEF Next, Worker, Session
<1> QED
  BY <1>1, <1>2, <1>3, <1>4, <1>5, PTL DEF Spec, TypeOK

-------------------------------------------------------------------------------
\* Every step keeps SessionInv.
LEMMA SessionStep ==
  ASSUME TypeOK, SessionInv, [Next]_vars
  PROVE  SessionInv'
<1> USE DEF mainVars, guiVars, flagVars, detVars, stopVars, workerVars, Gui, Det, DetRest,
            InLoop, FinalRelease, Decoders, Strays
<1>1. CASE ClickStart \/ ClickStream \/ ClickStop \/ ClickClose
  BY <1>1 DEF SessionInv, ClickStart, ClickStream, ClickStop, ClickClose, Post
<1>2. CASE TakeEvent
  <2>1. gpc' \in Requests
    BY <1>2, EventTaken DEF TakeEvent, TypeOK, Types, Requests
  <2> QED
    BY <1>2, <2>1 DEF TakeEvent, SessionInv, Requests
<1>3. CASE SetTraining
  BY <1>3 DEF SetTraining, SessionInv
<1>4. CASE Start
  BY <1>4 DEF Start, SessionInv, TypeOK, Types, Flags, ThreadNamed
<1>5. CASE StartCheck \/ StartSettle
  BY <1>5 DEF StartCheck, StartSettle, SessionInv, TypeOK, Types, Flags, ThreadNamed
<1>6. CASE StartCreate \/ StartCreateFails
  BY <1>6 DEF StartCreate, StartCreateFails, SessionInv, TypeOK, Types, Flags, ThreadNamed
<1>7. CASE Stop
  BY <1>7 DEF Stop, SessionInv, TypeOK, Types, Flags, ThreadNamed
<1>8. CASE Join
  BY <1>8 DEF Join, SessionInv, TypeOK, Types, Flags, ThreadNamed
<1>9. CASE Stopped \/ Destroy
  BY <1>9 DEF Stopped, Destroy, SessionInv, TypeOK, Types, Flags, ThreadNamed
<1>10. CASE SetStream \/ Resubscribed \/ Ended
  BY <1>10 DEF SetStream, Resubscribed, Ended, SessionInv
<1>11. CASE Enter \/ Open \/ OpenFails
  BY <1>11 DEF Enter, Open, OpenFails, SessionInv, TypeOK, Types, Flags, ThreadNamed
<1>12. CASE Opened
  BY <1>12 DEF Opened, SessionInv, TypeOK, Types, Flags, ThreadNamed
<1>13. CASE Allocate
  BY <1>13 DEF Allocate, SessionInv, TypeOK, Types, Flags, ThreadNamed
<1>14. ASSUME NEW w \in Channels, LoopAcquire(w) PROVE SessionInv'
  BY <1>14 DEF LoopAcquire, SessionInv, TypeOK, Types, Flags, ThreadNamed
<1>15. ASSUME NEW w \in Channels, LoopExpire(w) PROVE SessionInv'
  BY <1>15 DEF LoopExpire, SessionInv, TypeOK, Types, Flags, ThreadNamed
<1>24. CASE LoopDrain
  BY <1>24 DEF LoopDrain, SessionInv
<1>16. CASE LoopStopped \/ LoopConsumed \/ Cleanup
  BY <1>16 DEF LoopStopped, LoopConsumed, Cleanup, SessionInv, TypeOK, Types, Flags, ThreadNamed
<1>17. ASSUME NEW w \in Channels, ReleaseStop(w) PROVE SessionInv'
  <2>1. /\ joinee' \subseteq stopping' /\ stopping' \subseteq left' /\ joinee \subseteq joinee'
        /\ \A v \in Channels : wstop'[v] => v \in stopping' \/ wpc'[v] = "reset"
    BY <1>17 DEF ReleaseStop, SessionInv, TypeOK, Types
  <2>2. \A v \in Decoders' : v \in Decoders /\ (named'[v] \/ v \in joinee')
    BY <1>17, <2>1 DEF ReleaseStop, SessionInv, TypeOK, Types
  <2>3. \A v \in stopping' : ~named'[v]
    BY <1>17 DEF ReleaseStop, SessionInv, TypeOK, Types
  <2> QED
    BY <1>17, <2>1, <2>2, <2>3 DEF ReleaseStop, SessionInv
<1>18. ASSUME NEW w \in Channels, ReleaseJoin(w) PROVE SessionInv'
  <2>1. w \notin Decoders
    BY <1>18 DEF ReleaseJoin, SessionInv, TypeOK, Types
  <2>2. Decoders' = Decoders /\ joinee \subseteq {w}
    BY <1>18 DEF ReleaseJoin, SessionInv
  <2>3. \A v \in Decoders' : /\ InLoop' \/ (FinalRelease' /\ v \in left')
                             /\ named'[v] \/ v \in joinee'
    BY <1>18, <2>1, <2>2 DEF ReleaseJoin, SessionInv
  <2>4. \A v \in Channels : wstop'[v] => v \in stopping' \/ wpc'[v] = "reset"
    BY <1>18 DEF ReleaseJoin, SessionInv, TypeOK, Types
  <2> QED
    BY <1>18, <2>3, <2>4 DEF ReleaseJoin, SessionInv
<1>19. CASE Released
  BY <1>19 DEF Released, SessionInv, TypeOK, Types, Flags, ThreadNamed
<1>20. CASE Free \/ Leave
  BY <1>20 DEF Free, Leave, SessionInv, TypeOK, Types, Flags, ThreadNamed
<1>21. CASE Return \/ PostEnded
  BY <1>21 DEF Return, PostEnded, SessionInv, TypeOK, Types, Flags, ThreadNamed
<1>22. ASSUME NEW w \in Channels, Decoding(w) PROVE SessionInv'
  <2>1. /\ UNCHANGED <<mainVars, events, guiVars, flagVars, detVars>>
        /\ \A v \in Channels : v # w => /\ wpc'[v] = wpc[v]
                                        /\ wstop'[v] = wstop[v] /\ named'[v] = named[v]
    BY <1>22 DEF Decoding, Decode, Result, SendUpdate, TestReporter, DecodeRest,
                 UseReporter, SpotCallback, BirdieStop, BirdieFree, Exit, At, TypeOK, Types
  <2>2. wpc'[w] \notin {"off", "reset", "spinning"} => w \in Decoders /\ UNCHANGED named
    BY <1>22 DEF Decoding, Decode, Result, SendUpdate, TestReporter, DecodeRest,
                 UseReporter, SpotCallback, BirdieStop, BirdieFree, Exit, At, TypeOK, Types
  <2>3. wstop'[w] => wpc'[w] = "reset" \/ w \in stopping
    BY <1>22 DEF Decoding, Decode, Result, SendUpdate, TestReporter, DecodeRest, SessionInv,
                 UseReporter, SpotCallback, BirdieStop, BirdieFree, Exit, At, TypeOK, Types
  <2>4. \A v \in Decoders' : v \in Decoders /\ named'[v] = named[v]
    BY <2>1, <2>2
  <2>5. \A v \in Channels : wstop'[v] => v \in stopping \/ wpc'[v] = "reset"
    BY <2>1, <2>3 DEF SessionInv
  <2>6. \A v \in Channels : named'[v] => named[v]
    BY <1>22, <2>1 DEF Decoding, Decode, Result, SendUpdate, TestReporter, DecodeRest,
                 UseReporter, SpotCallback, BirdieStop, BirdieFree, Exit, TypeOK, Types
  <2>7. \A v \in stopping : ~named'[v]
    BY <2>6 DEF SessionInv, TypeOK, Types, Single
  <2> QED
    BY <2>1, <2>4, <2>5, <2>7 DEF SessionInv
<1>23. CASE UNCHANGED vars
  BY <1>23 DEF vars, SessionInv
<1> QED
  BY <1>1, <1>2, <1>3, <1>4, <1>5, <1>6, <1>7, <1>8, <1>9, <1>10, <1>11,
     <1>12, <1>13, <1>14, <1>15, <1>16, <1>17, <1>18, <1>19, <1>20, <1>21,
     <1>22, <1>23, <1>24 DEF Next, Worker, Session, Loop

\* Where the detection thread is tells which resources, locks and decode
\* threads there are.
THEOREM SessionInvariant == Spec => []IInv
<1>1. Init => SessionInv
  BY DEF Init, SessionInv, InLoop, FinalRelease, Decoders, Strays
<1>2. TypeOK /\ SessionInv /\ [Next]_vars => SessionInv'
  BY SessionStep
<1>3. TypeOK /\ SessionInv => IInv
  BY DEF IInv
<1> QED
  BY <1>1, <1>2, <1>3, TypeCorrect, PTL DEF Spec

\* cwskimmer_start's loop always has its radio and decode threads run only
\* inside a session; a session that is over, by whichever exit, left no radio,
\* reporter, decode thread, lock or loop_active behind; and DetectorWorker
\* creates a detection thread only when none is there and nothing runs.
THEOREM SessionSafety == Spec => []SessionSafe
<1>1. TypeOK /\ SessionInv => SessionAlive
  BY DEF SessionInv, SessionAlive, InLoop, FinalRelease, Decoders, Strays, TypeOK, Types
<1>2. TypeOK /\ SessionInv => CleanAfter
  BY DEF SessionInv, CleanAfter, InLoop, FinalRelease, Decoders, Strays, TypeOK, Types
<1>3. TypeOK /\ SessionInv => CreateFresh
  BY DEF SessionInv, CreateFresh, TypeOK, Types
<1>4. IInv => SessionSafe
  BY <1>1, <1>2, <1>3 DEF IInv, SessionSafe
<1> QED
  BY <1>4, SessionInvariant, PTL

\* When the window gets Stop's return, the session is over.
THEOREM StopFinal == Spec => StopIsFinal
<1>1. /\ TypeOK /\ SessionInv
      /\ [Next]_vars
      => [main = "stopping" /\ main' = "free" =>
             dpc = "none" /\ ~loop_active /\ ~active]_vars
  <2> SUFFICES ASSUME TypeOK, SessionInv, Next, main = "stopping", main' = "free"
               PROVE  dpc = "none" /\ ~loop_active /\ ~active
    OBVIOUS
  <2>1. gpc = "stopped"
    BY DEF Next, ClickStart, ClickStream, ClickStop, ClickClose, Post, Worker,
           TakeEvent, SetTraining, Start, StartCheck, StartSettle, StartCreate,
           StartCreateFails, Stop, Join, Stopped, Destroy, SetStream,
           Resubscribed, Ended, Session, Enter, Open, OpenFails, Opened,
           Allocate, LoopStopped, LoopConsumed, Cleanup, ReleaseStop,
           ReleaseJoin, Released, Free, Leave, Return, PostEnded, Loop,
           LoopDrain, LoopAcquire, LoopExpire, Decoding, Decode, Result, SendUpdate,
           TestReporter, UseReporter, SpotCallback, BirdieStop, BirdieFree, Exit,
           DecodeRest, DetRest,
           mainVars
  <2> QED
    BY <2>1 DEF SessionInv
<1>2. IInv => TypeOK /\ SessionInv
  BY DEF IInv
<1> QED
  BY <1>1, <1>2, SessionInvariant, PTL DEF Spec, StopIsFinal
===============================================================================
