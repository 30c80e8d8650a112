----------------------------- MODULE Decoders ---------------------------------
(* What decodes several signals at once: the channel pool as the detection    *)
(* loop uses it, the replay of a capture through the same channels, the       *)
(* slices of the waterfall with a decoder each, and the window whose decoder  *)
(* runs in a thread of its own.  They share no state, so which of the four a  *)
(* behaviour is about is chosen at its beginning.                             *)
EXTENDS Replay, PeakSearch

CONSTANTS
    \* ChannelPool
    TIMEOUT,
    \* MultiChannelDecoder
    kMaxChannels, kSlotHz, kFollowHz, kSwitchMarginDb, kMinSnrDb, Columns, MaxLetters,
    \* DeepcwWindow
    MaxShown, Kept, Copies, MaxFed, MaxAsks

VARIABLES
    part,
    \* ChannelPool
    bucket, chans, pat, spec, mode, pcands, next, pfed, slot, joinee,
    \* MultiChannelDecoder
    span, maxActive, slices, seen,
    \* DeepcwWindow
    gui, tuned, front, prefix, engineText, shown, queue, reset, stop, epoch, events,
    engine, chunk, flags, took, audio, text, sampled, asks, since, cut

replay == vars
pool   == <<bucket, chans, pat, spec, mode, pcands, next, pfed, slot, joinee>>
multi  == <<span, maxActive, slices, seen>>
deepcw == <<gui, tuned, front, prefix, engineText, shown, queue, reset, stop, epoch,
            events, engine, chunk, flags, took, audio, text, sampled, asks, since, cut>>

Pool == INSTANCE ChannelPool WITH at <- pat, cands <- pcands, fed <- pfed, Table <- Candidates

Multi == INSTANCE MultiChannelDecoder WITH ch <- slices

Deepcw == INSTANCE DeepcwWindow WITH fed <- sampled

ASSUME DecodersAssumption ==
    Pool!PoolAssumption /\ Multi!MultiAssumption /\ Deepcw!DeepcwAssumption

\* the parts a behaviour is not about have one initial state
ChannelsInit ==
    /\ part \in {"pool", "replay", "multi", "deepcw"}
    /\ Init /\ Pool!Init /\ Multi!Init /\ Deepcw!Init
    /\ part # "pool" => bucket = 1 /\ mode = Iq
    /\ part # "replay" => offline = [t \in {0, 1} |-> "none"] /\ mark = 0 /\ ~expected

ChannelsNext ==
    \/ part = "pool" /\ Pool!Next /\ UNCHANGED <<part, replay, multi, deepcw>>
    \/ part = "replay" /\ Next /\ UNCHANGED <<part, pool, multi, deepcw>>
    \/ part = "multi" /\ Multi!Next /\ UNCHANGED <<part, pool, replay, deepcw>>
    \/ part = "deepcw" /\ Deepcw!Next /\ UNCHANGED <<part, pool, replay, multi>>

all == <<part, pool, replay, multi, deepcw>>

(* The fairness of ChannelPool, Replay and DeepcwWindow, each asked of its    *)
(* own behaviours.  One of the steps of the pool's loop is always enabled but *)
(* in a join, so that its weak fairness is that it goes on or waits there for *)
(* ever.                                                                      *)
OfPool(A)   == part = "pool" /\ A /\ UNCHANGED <<part, replay, multi, deepcw>>
OfReplay(A) == part = "replay" /\ A /\ UNCHANGED <<part, pool, multi, deepcw>>
OfDeepcw(A) == part = "deepcw" /\ A /\ UNCHANGED <<part, pool, replay, multi>>

ChannelsSpec ==
    /\ ChannelsInit /\ [][ChannelsNext]_all
    /\ SF_all(OfPool(Pool!Tick)) /\ WF_all(OfPool(Pool!Unwind))
    /\ []<><<OfPool(Pool!Loop)>>_all \/ []<>(part = "pool" => Pool!Joins)
    /\ WF_all(OfReplay(Main))
    /\ WF_all(OfReplay(Thread(1))) /\ WF_all(OfReplay(Thread(2)))
    /\ WF_all(OfDeepcw(Deepcw!Engine)) /\ WF_all(OfDeepcw(Deepcw!BumpEpoch))
    /\ WF_all(OfDeepcw(Deepcw!Deliver)) /\ WF_all(OfDeepcw(Deepcw!Joined))

-------------------------------------------------------------------------------
(* On a sparse band of an IQ stream every station is given to one channel,    *)
(* once, or finds the pool full: merging, refining, sorting and looking for a *)
(* channel between them lose none and feed none twice.                        *)
StationsServed == Pool!TypeOK /\ Pool!BlockServedOnce

(* A channel belongs to its station: on a sparse band of an IQ stream it is   *)
(* not retuned to another one, and once the band stays quiet it is freed in   *)
(* the end, unless the loop hangs in the join of a thread that resets itself. *)
ChannelsFreed == Pool!NoSteal /\ Pool!SilenceFrees

(* Every replay ends and leaves no channel in use, unless it waits for ever   *)
(* for a decode thread that resets itself for a steady carrier.               *)
EveryReplayEnds == ReplayEnds \/ []<>(part # "replay")

(* A slice of the waterfall leaves the signal it follows only for one that    *)
(* was the strongest of the slice in two columns of the slice, one after the  *)
(* other, and whatever it follows, silence and takeovers leave its copy whole.*)
SlicesFollow == Multi!SlicesFollow

(* However the engine's thread and the clearing, retuning and handing over of *)
(* copies interleave, when all is worked off the text is that of the samples  *)
(* since the last of them, all of it and nothing older; that happens again    *)
(* and again, and closing the window ends the thread.                         *)
DeepcwCatchesUp ==
    /\ [](Deepcw!TypeOK /\ Deepcw!CaughtUp)
    /\ Deepcw!CatchesUp \/ []<>(part # "deepcw")
===============================================================================
