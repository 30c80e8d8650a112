---------------------------- MODULE DeepcwWindow ----------------------------
(***************************************************************************)
(* The DeepCW window (gui/deepcwmorsewindow.cpp): the GUI thread filters   *)
(* the samples of the clicked signal into a queue, an engine thread runs   *)
(* the model over them and posts its text back.  Clearing, retuning and    *)
(* taking over another copy must leave nothing behind of what was queued,  *)
(* in the model or on its way back; m_epoch numbers the tunings.           *)
(*                                                                         *)
(* Samples are numbered; a text is the samples it was read from.           *)
(***************************************************************************)
EXTENDS Integers, Sequences

CONSTANTS MaxShown,  \* longest text shown: 8000 characters
          Kept,      \* what is kept of a longer one: 6000
          Copies,    \* the copies a slice of the waterfall may hand over
          MaxFed,    \* bound: samples fed
          MaxAsks    \* bound: requests of the operator

DeepcwAssumption ==
    /\ {MaxShown, Kept, MaxFed, MaxAsks} \subseteq Nat /\ Kept <= MaxShown
    /\ \A c \in Copies : c \in Seq(Int) /\ Len(c) <= MaxShown

VARIABLES
    gui,                        \* what the GUI thread is doing
    tuned, front,               \* m_tuned; samples still inside m_front
    prefix, engineText, shown,  \* m_prefix, m_engineText, m_shown
    queue, reset, stop,         \* under m_mu: m_queue, m_reset, m_stop
    epoch,                      \* m_epoch
    events,                     \* engineText signals posted to the GUI thread
    engine, chunk, flags, took, \* engineMain: where it is, and its locals
    audio, text,                \* the model's samples and transcript
    fed, asks,
    since, cut                  \* history: what was queued since the last reset,
                                \* and whether the text was shortened since

window   == <<tuned, front, prefix, engineText, shown>>
shared   == <<queue, reset, stop>>
model    == <<audio, text>>
locals   == <<chunk, flags, took>>
history  == <<since, cut>>
vars     == <<gui, window, shared, epoch, events, engine, locals, model, fed, asks,
              history>>

Init == /\ gui = "idle" /\ tuned = FALSE /\ front = <<>>
        /\ prefix = <<>> /\ engineText = <<>> /\ shown = <<>>
        /\ queue = <<>> /\ reset = FALSE /\ stop = FALSE
        /\ epoch = 1 /\ events = <<>>
        /\ engine = "load" /\ chunk = <<>> /\ flags = [reset |-> FALSE, stop |-> FALSE]
        /\ took = 0
        /\ audio = <<>> /\ text = <<>>
        /\ fed = 0 /\ asks = 0
        /\ since = <<>> /\ cut = FALSE

-------------------------------------------------------------------------------
(* publish: what is too long is shortened and becomes the prefix.          *)
Right(s, n) == SubSeq(s, Len(s) - n + 1, Len(s))
TooLong(whole) == Len(whole) > MaxShown
publish(p, t) ==
    /\ shown'      = IF TooLong(p \o t) THEN Right(p \o t, Kept) ELSE p \o t
    /\ prefix'     = IF TooLong(p \o t) THEN Right(p \o t, Kept) ELSE p
    /\ engineText' = IF TooLong(p \o t) THEN <<>> ELSE t

(* clearDecode, resetTiming and adoptText up to bumpEpoch, whose increment *)
(* comes before it takes the lock: the prefix is replaced, the text of the *)
(* engine and the filter are emptied.                                      *)
FrontReset == front' = <<>>

StartAnew(p) ==
    /\ gui = "idle" /\ asks < MaxAsks
    /\ publish(p, <<>>)
    /\ FrontReset
    /\ epoch' = epoch + 1
    /\ gui' = "bump" /\ asks' = asks + 1
    /\ UNCHANGED <<shared, events, engine, locals, model, fed, history>>

clearDecode  == StartAnew(<<>>) /\ UNCHANGED tuned
resetTiming  == StartAnew(shown) /\ UNCHANGED tuned
adoptText(c) == StartAnew(c) /\ UNCHANGED tuned

(* setTune, when the rate, the tone or the kind of audio has changed       *)
setTune == StartAnew(shown) /\ tuned' = TRUE

\* mutant: the samples that wait are not dropped
ForgetKeepsQueue == reset' = TRUE /\ UNCHANGED queue

\* bumpEpoch under the lock
Forget == queue' = <<>> /\ reset' = TRUE

BumpEpoch == /\ gui = "bump"
             /\ Forget
             /\ gui' = "idle"
             /\ since' = <<>> /\ cut' = FALSE
             /\ UNCHANGED <<window, stop, epoch, events, engine, locals, model, fed,
                            asks>>

(* deepcw_front_process: the filter gives some of what it holds, its delay *)
(* line and the sample between two of the output staying inside.           *)
Held == Append(front, fed + 1)
FrontProcess(n) == [pcm |-> SubSeq(Held, 1, n), left |-> SubSeq(Held, n + 1, Len(Held))]

Feed(n) ==
    LET filtered == FrontProcess(n)
    IN  /\ gui = "idle" /\ tuned /\ fed < MaxFed
        /\ fed' = fed + 1
        /\ front' = filtered.left
        /\ queue' = queue \o filtered.pcm
        /\ since' = since \o filtered.pcm
        /\ UNCHANGED <<gui, tuned, prefix, engineText, shown, reset, stop, epoch, events,
                       engine, locals, model, asks, cut>>

(* The slot of engineText: a text of another tuning is not shown.          *)
Deliver ==
    /\ gui = "idle" /\ events # <<>>
    /\ events' = Tail(events)
    /\ IF Head(events).epoch = epoch
       THEN /\ publish(prefix, Head(events).text)
            /\ cut' = (cut \/ TooLong(prefix \o Head(events).text))
       ELSE UNCHANGED <<prefix, engineText, shown, cut>>
    /\ UNCHANGED <<gui, tuned, front, shared, epoch, engine, locals, model, fed, asks,
                   since>>

(* ~DeepcwMorseWindow: stop and join; posted texts are thrown away.        *)
Close == /\ gui = "idle"
         /\ stop' = TRUE /\ gui' = "joining"
         /\ UNCHANGED <<window, queue, reset, epoch, events, engine, locals, model,
                        fed, asks, history>>
Joined == /\ gui = "joining" /\ engine = "ended"
          /\ gui' = "closed" /\ events' = <<>>
          /\ UNCHANGED <<window, shared, epoch, engine, locals, model, fed, asks,
                         history>>

-------------------------------------------------------------------------------
(* engineMain: the model is loaded, or cannot be.                          *)
Load == /\ engine = "load"
        /\ engine' \in {"wait", "ended"}
        /\ UNCHANGED <<gui, window, shared, epoch, events, locals, model, fed, asks,
                       history>>

(* Under the lock: the flags and all that waits.                           *)
Take == /\ engine = "wait" /\ (stop \/ reset \/ queue # <<>>)
        /\ flags' = [reset |-> reset, stop |-> stop]
        /\ reset' = FALSE
        /\ chunk' = queue /\ queue' = <<>>
        /\ engine' = "taken"
        /\ UNCHANGED <<gui, window, stop, epoch, events, took, model, fed, asks,
                       history>>

(* After the unlock: the epoch is read, and a stop ends the thread.        *)
ReadEpoch == /\ engine = "taken"
             /\ took' = epoch
             /\ engine' = IF flags.stop THEN "ended" ELSE "work"
             /\ UNCHANGED <<gui, window, shared, epoch, events, chunk, flags, model,
                            fed, asks, history>>

Emit(t) == events' = Append(events, [epoch |-> took, text |-> t])

(* deepcw_decoder_reset, and an empty text.                                *)
Reset == /\ engine = "work" /\ flags.reset
         /\ audio' = <<>> /\ text' = <<>>
         /\ Emit(<<>>)
         /\ flags' = [flags EXCEPT !.reset = FALSE]
         /\ UNCHANGED <<gui, window, shared, epoch, engine, chunk, took, fed, asks,
                        history>>

(* deepcw_decoder_process: the transcript may grow, and only then is       *)
(* posted, as a whole.                                                     *)
Process ==
    /\ engine = "work" /\ ~flags.reset
    /\ audio' = audio \o chunk
    /\ \E n \in Len(text) .. Len(audio') :
        /\ chunk = <<>> => n = Len(text)
        /\ text' = SubSeq(audio', 1, n)
        /\ IF n > Len(text) THEN Emit(text') ELSE UNCHANGED events
    /\ chunk' = <<>> /\ engine' = "wait"
    /\ UNCHANGED <<gui, window, shared, epoch, flags, took, fed, asks, history>>

Engine == Load \/ Take \/ ReadEpoch \/ Reset \/ Process

Next == \/ clearDecode \/ resetTiming \/ setTune \/ \E c \in Copies : adoptText(c)
        \/ \E n \in 0 .. Len(Held) : Feed(n)
        \/ BumpEpoch \/ Deliver \/ Close \/ Joined \/ Engine

Spec == Init /\ [][Next]_vars

(* The operating system runs the engine's thread, and Qt the GUI's events. *)
FairSpec == Spec /\ WF_vars(Engine) /\ WF_vars(BumpEpoch) /\ WF_vars(Deliver)
                 /\ WF_vars(Joined)

-------------------------------------------------------------------------------
TypeOK ==
    /\ gui \in {"idle", "bump", "joining", "closed"}
    /\ engine \in {"load", "wait", "taken", "work", "ended"}
    /\ Len(shown) <= MaxShown /\ shown = prefix \o engineText
    /\ took <= epoch /\ \A i \in DOMAIN events : events[i].epoch <= epoch

\* nothing is left to do
Quiet == /\ gui = "idle" /\ engine = "wait"
         /\ ~stop /\ ~reset /\ queue = <<>> /\ events = <<>>

(* When everything has been worked off, the text behind the prefix is the  *)
(* whole transcript of the model, and the model has heard what the filter  *)
(* gave since the last clearing, tuning or adopted copy, all of it in      *)
(* order and nothing from before, wherever the engine was at that moment;  *)
(* unless a text that had become too long was shortened since.             *)
CaughtUp == Quiet /\ ~cut => engineText = text /\ audio = since

(* Nothing is left to do, or nothing more can be done.                     *)
WorkedOff == Quiet \/ engine = "ended" \/ gui # "idle"

(* Everything is worked off as often as the operator lets it, and closing  *)
(* the window ends the engine's thread: the join, which only that ends, is *)
(* left again.                                                             *)
CatchesUp == []<>WorkedOff /\ []<>(gui # "joining")
===============================================================================
