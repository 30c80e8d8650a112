----------------------------- MODULE ChannelPool -----------------------------
(* The pool of decode channels (src/cw-skimmer/src/cwskimmer_api.c): one pass *)
(* of the detection loop over a block of samples gives each candidate that    *)
(* PeakSearch finds in its spectrum a channel and the channel the block, and  *)
(* frees the channels nothing was heard on.  The stream may be switched while *)
(* a block is worked on.                                                      *)
(*                                                                            *)
(* What a channel's thread decodes is in DecodeWorker; here are the steps in  *)
(* which it ends or, at a steady carrier, frees its channel itself.  Once     *)
(* that is done it goes on without its channel: of a channel that is then     *)
(* used again (DecodeWorker's run worker_birdie_two_threads) only the newer   *)
(* thread is modelled, and of the older one the end of its reset.             *)
EXTENDS PeakSearch, Sequences

CONSTANTS TIMEOUT,   \* DECODE_CHANNEL_TIMEOUT_SEC, in ticks
          Table      \* Candidates: a parameter, so that it is computed once

Slots == 1 .. MAX_DECODE_CHANNELS

PoolAssumption == SearchAssumption /\ TIMEOUT \in Nat /\ Table = Candidates

VARIABLES bucket,  \* config.decode_bucket_hz
          chans,   \* decode_channels[]
          at,      \* where the detection loop is
          spec,    \* the power spectrum of the block
          mode,    \* real_audio_mode when it was computed, when the signals were
                   \* looked for, and when more candidates were
          cands,   \* the merged candidates, the strongest first
          next,    \* the candidate to serve next
          fed,     \* who got the block: [slot, tone], slot 0 for nobody
          slot,    \* the channel to look at next for its age
          joinee   \* the channel whose thread the loop joins, or 0

block == <<spec, mode, cands>>
vars  == <<bucket, chans, at, block, next, fed, slot, joinee>>

(* Of a channel's worker: stop, thread_running (named), and its thread, which *)
(* decodes, has found a steady carrier (marked), resets its worker, or spins. *)
(* late: an older thread still has to end its reset.                          *)
Free == [active |-> FALSE, centre |-> Dc, tone |-> Dc, age |-> TIMEOUT + 1,
         thread |-> "none", stop |-> FALSE, named |-> FALSE, late |-> FALSE]

TypeOK ==
    /\ bucket \in Buckets
    /\ chans \in [Slots -> [active : BOOLEAN, centre : Int, tone : Int,
                            age : 0 .. TIMEOUT + 1,
                            thread : {"none", "decodes", "marked", "resets", "spins"},
                            stop : BOOLEAN, named : BOOLEAN, late : BOOLEAN]]
    /\ at \in {"wait", "serve", "expire"}
    /\ spec \in Spectra /\ mode \in EveryMode
    /\ cands \in Seq(Candidate) /\ Len(cands) <= MAX_DECODE_CHANNELS
    /\ next \in 1 .. Len(cands) + 1
    /\ fed \in Seq([slot : 0 .. MAX_DECODE_CHANNELS, tone : Int])
    /\ slot \in Slots /\ joinee \in 0 .. MAX_DECODE_CHANNELS

Init == /\ bucket \in Buckets
        /\ chans = [c \in Slots |-> Free]
        /\ at = "wait"
        /\ spec \in {s \in Spectra : \A t \in Bins : s[t] = 0}
        /\ mode = Iq
        /\ cands = <<>> /\ next = 1 /\ fed = <<>> /\ slot = 1 /\ joinee = 0

-------------------------------------------------------------------------------
(* Blocks.                                                                   *)

\* a block arrives: cwskimmer_process_decode_channels up to the first channel
NewBlock == /\ at = "wait"
            /\ spec' \in Spectra /\ mode' \in Modes
            /\ cands' = Table[spec'][bucket][mode']
            /\ next' = 1 /\ fed' = <<>>
            /\ at' = "serve"
            /\ UNCHANGED <<bucket, chans, slot, joinee>>

-------------------------------------------------------------------------------
(* Channels.                                                                 *)

\* cwskimmer_find_channel: the first channel in the bucket, not the closest
Matching(t) == {c \in Slots : chans[c].active
                              /\ SameBucket(chans[c].centre, t, bucket)}

FreeSlots == {c \in Slots : ~chans[c].active}

\* decode_worker_set_metadata stores the strength that the test after it
\* compares with itself: the bucket always moves to the tone
Recentre(ch, r) == [ch EXCEPT !.tone = r.tone, !.age = 0, !.centre = r.tone]

Opened(ch, r) == [active |-> TRUE, centre |-> r.tone, tone |-> r.tone,
                  age |-> 0, thread |-> "decodes", stop |-> FALSE,
                  named |-> TRUE, late |-> ch.late \/ ch.thread = "resets"]

\* a channel that is no longer active: nobody reads any more what it is tuned to
Inactive(ch) == [Free EXCEPT !.thread = ch.thread, !.stop = ch.stop,
                             !.named = ch.named, !.late = ch.late]

\* decode_worker_stop takes the thread of channel c to join it
StopOf(c) == /\ joinee' = c
             /\ chans' = [chans EXCEPT ![c] = [Inactive(@) EXCEPT !.stop = TRUE,
                                                                 !.named = FALSE]]

\* the channel keeps the block, or there is no channel for the tone
Feed(c, t) == fed' = Append(fed, [slot |-> c, tone |-> t])

\* cwskimmer_acquire_channel for a refined tone, and the block it is then fed;
\* a worker that does not start leaves the tone without a channel
Acquire(r) ==
    \/ /\ r.snr < MinSnr
       /\ UNCHANGED <<chans, fed>>
    \/ /\ r.snr >= MinSnr /\ Matching(r.tone) # {}
       /\ chans' = [chans EXCEPT ![Min(Matching(r.tone))] = Recentre(@, r)]
       /\ Feed(Min(Matching(r.tone)), r.tone)
    \/ /\ r.snr >= MinSnr /\ Matching(r.tone) = {} /\ FreeSlots # {}
       /\ ~chans[Min(FreeSlots)].named
       /\ chans' = [chans EXCEPT ![Min(FreeSlots)] = Opened(@, r)]
       /\ Feed(Min(FreeSlots), r.tone)
    \/ /\ r.snr >= MinSnr /\ Matching(r.tone) = {}
       /\ FreeSlots # {} => ~chans[Min(FreeSlots)].named
       /\ UNCHANGED chans /\ Feed(0, r.tone)

\* one candidate of cwskimmer_process_decode_channels
Refined == Refine(spec, mode.single, cands[next].tone, RateRatio)

Serve == /\ at = "serve" /\ next <= Len(cands) /\ joinee = 0
         /\ Acquire(Refined)
         /\ next' = next + 1
         /\ UNCHANGED <<bucket, at, block, slot, joinee>>

\* decode_worker_start joins the thread of a slot that has one: that is a thread
\* on its way to reset its worker, which takes back the stop and does not end
ServeStop == /\ at = "serve" /\ next <= Len(cands) /\ joinee = 0
             /\ Refined.snr >= MinSnr /\ Matching(Refined.tone) = {} /\ FreeSlots # {}
             /\ chans[Min(FreeSlots)].named
             /\ StopOf(Min(FreeSlots))
             /\ UNCHANGED <<bucket, at, block, next, fed, slot>>

Served == /\ at = "serve" /\ next > Len(cands)
          /\ at' = "expire" /\ slot' = 1
          /\ UNCHANGED <<bucket, chans, block, next, fed, joinee>>

\* mutant: nothing expires when the block had no candidate
DueIfCandidates == {c \in Slots : /\ c >= slot /\ cands # <<>>
                                  /\ chans[c].active /\ chans[c].age > TIMEOUT}

\* cwskimmer_expire_channels, with the time the block began
Due == {c \in Slots : c >= slot /\ chans[c].active /\ chans[c].age > TIMEOUT}

ExpireStop == /\ at = "expire" /\ joinee = 0 /\ Due # {}
              /\ StopOf(Min(Due)) /\ slot' = Min(Due)
              /\ UNCHANGED <<bucket, at, block, next, fed>>

\* the thread has ended
ExpireJoin == /\ at = "expire" /\ joinee # 0 /\ chans[joinee].thread = "none"
              /\ chans' = [chans EXCEPT ![joinee] = [Free EXCEPT !.late = chans[joinee].late]]
              /\ joinee' = 0
              /\ UNCHANGED <<bucket, at, block, next, fed, slot>>

Expired == /\ at = "expire" /\ joinee = 0 /\ Due = {}
           /\ at' = "wait" /\ slot' = 1
           /\ cands' = <<>> /\ next' = 1 /\ fed' = <<>>
           /\ mode' = Iq
           /\ UNCHANGED <<bucket, chans, spec, joinee>>

\* the clock, which a block reads once
Tick == /\ at = "wait"
        /\ chans' = [c \in Slots |-> IF chans[c].active
                                        /\ chans[c].age <= TIMEOUT
                                     THEN [chans[c] EXCEPT !.age = @ + 1]
                                     ELSE chans[c]]
        /\ UNCHANGED <<bucket, at, block, next, fed, slot, joinee>>

-------------------------------------------------------------------------------
(* The threads of the channels.                                              *)
Thread(c, ch) == /\ chans' = [chans EXCEPT ![c] = ch]
                 /\ UNCHANGED <<bucket, at, block, next, fed, slot, joinee>>

\* the thread sees the stop
Exit(c) == /\ chans[c].thread = "decodes" /\ chans[c].stop
           /\ Thread(c, [chans[c] EXCEPT !.thread = "none"])

\* cw_decoder_is_birdie: the decoder found a steady carrier
Steady(c) == /\ chans[c].thread = "decodes"
             /\ Thread(c, [Inactive(chans[c]) EXCEPT !.thread = "marked"])

\* cwskimmer_decode_worker_result releases the channel: decode_worker_stop takes
\* its own thread, which it cannot join
ReleaseBirdie(c) == /\ chans[c].thread = "marked"
                    /\ Thread(c, [chans[c] EXCEPT !.thread = "resets", !.stop = TRUE,
                                                  !.named = FALSE])

\* ... and takes back the stop; the thread goes on
Zeroed(ch) == [ch EXCEPT !.stop = FALSE, !.centre = Dc, !.tone = Dc,
                         !.age = TIMEOUT + 1]

Released(c) == /\ chans[c].thread = "resets"
               /\ Thread(c, [Zeroed(chans[c]) EXCEPT !.thread = "spins"])

\* ... also when the channel has been opened again in the meantime
ReleasedLate(c) == /\ chans[c].late
                   /\ Thread(c, [Zeroed(chans[c]) EXCEPT !.late = FALSE])

\* cwskimmer_config_set("decode_bucket_hz"): cwskimmer_release_all_channels.
\* Nothing in the repository calls it on a running detector; that it meets a
\* thread that resets itself, or the loop in a join, is left out.
SetBucket(b) ==
    /\ joinee = 0
    /\ \A c \in Slots : chans[c].thread \notin {"marked", "resets"} /\ ~chans[c].late
    /\ bucket' = b
    /\ chans' = [c \in Slots |-> IF chans[c].thread = "spins"
                                 THEN [Free EXCEPT !.thread = "spins"] ELSE Free]
    /\ UNCHANGED <<at, block, next, fed, slot, joinee>>

Loop == \/ NewBlock \/ Serve \/ ServeStop \/ Served
        \/ ExpireStop \/ ExpireJoin \/ Expired

\* what a thread does without a new block to decode
Unwind == \E c \in Slots : Exit(c) \/ ReleaseBirdie(c) \/ Released(c) \/ ReleasedLate(c)

Next == \/ Loop \/ Tick \/ Unwind
        \/ \E c \in Slots : Steady(c)
        \/ \E b \in Buckets : SetBucket(b)

Spec == Init /\ [][Next]_vars

\* the loop waits for a thread to end; it waits for ever if the thread took back
\* the stop that should end it
Joins     == joinee # 0 /\ chans[joinee].thread # "none"
JoinHangs == Joins /\ ~chans[joinee].stop

-------------------------------------------------------------------------------
(* Properties.                                                               *)

SparseIq == mode = Iq /\ Sparse(spec)

\* On a sparse band of an IQ stream every peak of the block is given to one
\* channel, once, or finds the pool full: merging, refining, sorting and finding
\* a channel between them lose no station and feed none twice.  Of real audio
\* that does not hold, because Refine looks for a station in another place.
BlockServedOnce ==
    at = "expire" /\ SparseIq =>
        \A p \in Peaks(spec) : Cardinality({k \in DOMAIN fed : fed[k].tone = p}) = 1

\* On a sparse band of an IQ stream a channel tuned to one peak is never retuned
\* to another while candidates are served.
NoSteal == [][(Serve \/ ServeStop) /\ SparseIq =>
                 \A c \in Slots : chans[c].active /\ chans[c].tone \in Peaks(spec)
                                  => chans'[c].tone = chans[c].tone]_vars

\* Once the band stays quiet every channel is freed in the end, also one whose
\* signal moved to another channel: the expiry runs for blocks without a
\* candidate too.  Unless the loop joins a thread that resets itself at the same
\* time and takes back the stop: then it waits for ever.
SilenceFrees == <>[](\A t \in Bins : spec[t] < MinSnr) =>
                    <>[](FreeSlots = Slots) \/ <>[]JoinHangs

===============================================================================
