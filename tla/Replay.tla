-------------------------------- MODULE Replay ---------------------------------
(***************************************************************************)
(* The offline test of a saved capture: cwskimmer_replay_capture_file      *)
(* (cwskimmer_api.c) loads a file, looks for tones near the mark, opens a  *)
(* decode worker for each, feeds them the file block by block, flushes     *)
(* them and compares what they read with the text the operator expected.   *)
(*                                                                         *)
(* A tone is a number, 0 the centre; a mark of 0 is no mark.  A text is    *)
(* "match", "part" (some text without a match) or "none".  offline is what *)
(* decoding the whole file at a tone gives; a worker that has heard every  *)
(* block of the file before it is read gives the same, any other may give  *)
(* any text.  The choice of tones by their envelope is left open within    *)
(* the ranges searched.  A worker's thread is DecodeWorker's, in short:    *)
(* it takes a block from its queue and decodes it without the lock, and    *)
(* at a steady carrier resets its own worker and goes on without it, which *)
(* no join survives.                                                       *)
(***************************************************************************)
EXTENDS Integers, Sequences, FiniteSets, FiniteSetsExt

CONSTANTS Tones,     \* tone offsets
          Reach,     \* TONE_SEARCH_RANGE_HZ, in tones
          Bucket,    \* the decode bucket, in tones
          Channels,  \* 1..n: the decode channels
          Depth,     \* DECODE_WORKER_QUEUE_DEPTH
          MaxCands,  \* candidates of the prescan
          Blocks     \* blocks of the file

ASSUME ReplayAssumption ==
    /\ Tones \subseteq Int /\ 0 \in Tones
    /\ Reach \in Nat /\ Bucket \in Nat /\ Depth \in Nat \ {0} /\ Blocks \in Nat \ {0}
    /\ MaxCands \in Nat

VARIABLES
    offline,   \* the file: its text at every tone
    mark, expected,  \* hdr.mark_freq_offset_hz; is there an expected_text?
    pc, at,    \* where the replay is, and at which channel or candidate
    cands,     \* what the prescan found
    fed,       \* blocks fed so far
    ch,        \* decode_channels
    matched,   \* matched_expected
    decodes,   \* replay_decodes
    verdict,   \* what is returned
    compared   \* history: the texts that were compared

fileVars == <<offline, expected>>
vars == <<fileVars, mark, pc, at, cands, fed, ch, matched, decodes, verdict, compared>>

Texts == {"match", "part", "none"}
Idle  == [active |-> FALSE, tone |-> 0, centre |-> 0, queue |-> << >>, busy |-> 0,
          heard |-> << >>, thread |-> "none", stop |-> FALSE, named |-> FALSE]

(* Of the worker of a channel: stop, thread_running (named), and where its *)
(* thread is, which waits or works ("runs"), has found a steady carrier    *)
(* (marked), resets its worker, or goes round without one (spins).         *)

\* cw_capture_load and the setup of the processors
Init == /\ offline \in [Tones -> Texts]
        /\ mark \in Tones /\ expected \in BOOLEAN
        /\ pc = "load" /\ at = 1 /\ cands = << >> /\ fed = 0
        /\ ch = [c \in Channels |-> Idle]
        /\ matched = FALSE /\ decodes = {} /\ verdict = "running"
        /\ compared = {}

-------------------------------------------------------------------------------
(* Tones and texts.                                                        *)
Dist(a, b) == IF a > b THEN a - b ELSE b - a

\* the tones cwskimmer_search_tone_envelope may return for t
Near(t) == {u \in Tones : Dist(u, t) <= Reach}

\* cwskimmer_text_matches_ci; without an expected text nothing matches
matches(t) == expected /\ t = "match"

\* mutant: any text is as good as a match
scoreByLength(t) == IF t = "none" THEN 0 ELSE 1

\* cwskimmer_score_expected_match: a match beats every other text
score(t) == CASE t = "match" -> 2 [] t = "part" -> 1 [] OTHER -> 0

\* a text is compared with the expected one
Compare(t) == /\ matched' = (matched \/ matches(t))
              /\ compared' = compared \cup {t}

\* the whole file is decoded at the tones of S; the best of the texts, if it is
\* better than floor, is compared; r is its tone
Best(S, floor) == {u \in S : /\ offline[u] # "none" /\ score(offline[u]) > floor
                             /\ \A v \in S : score(offline[v]) <= score(offline[u])}
Trial(S, r) == /\ matched' = (matched \/ matches(offline[r]))
               /\ compared' = compared \cup {offline[v] : v \in S}

-------------------------------------------------------------------------------
(* The replay.                                                             *)
Step(l) == pc' = l /\ at' = 1

\* the file does not load, or the processors cannot be made
Fails == /\ pc = "load"
         /\ verdict' = "error" /\ Step("done")
         /\ UNCHANGED <<fileVars, mark, cands, fed, ch, matched, decodes, compared>>

Loads == /\ pc = "load"
         /\ Step(IF mark # 0 /\ expected THEN "tune" ELSE "prescan")
         /\ UNCHANGED <<fileVars, mark, cands, fed, ch, matched, decodes, verdict,
                        compared>>

\* cwskimmer_find_best_decode_tone: tones near the mark are tried on the whole file
Tune == /\ pc = "tune"
        /\ \E S \in SUBSET Near(mark) :
           \/ /\ Best(S, -1) = {} /\ UNCHANGED <<mark, matched, compared>>
           \/ \E u \in Best(S, -1) : mark' = u /\ Trial(S, u)
        /\ Step("prescan")
        /\ UNCHANGED <<fileVars, cands, fed, ch, decodes, verdict>>

\* the candidates that are kept: at most n of the tones S
Lists(S, n) == UNION {[1..k -> S] : k \in 0..n}

\* around a mark the coarse tones are searched, and then the tones around each
AroundMark == UNION {Near(t) : t \in Near(mark)}

\* cwskimmer_prescan_capture_signals; without a mark the peaks of the spectrum
Found == Lists(IF mark # 0 THEN AroundMark ELSE Tones, MaxCands)

\* the mark moves to the candidate nearest to it
Nearest(m, s) == CHOOSE i \in 1..Len(s) :
                     /\ \A j \in 1..Len(s) : Dist(s[i], m) <= Dist(s[j], m)
                     /\ \A j \in 1..(i - 1) : Dist(s[i], m) < Dist(s[j], m)

Prescan == /\ pc = "prescan"
           /\ \E s \in Found :
              /\ cands' = s
              /\ mark' = IF mark # 0 /\ s # << >> THEN s[Nearest(mark, s)] ELSE mark
           /\ Step("acquire")
           /\ UNCHANGED <<fileVars, fed, ch, matched, decodes, verdict, compared>>

\* the first channel whose bucket has tone t, or else the first free one
First(S) == IF S = {} THEN {} ELSE {Min(S)}
InBucket(t) == {c \in Channels : ch[c].active /\ Dist(ch[c].centre, t) <= Bucket}
Free == {c \in Channels : ~ch[c].active}

\* cwskimmer_acquire_channel; decode_worker_start may fail
Acquire ==
    /\ pc = "acquire" /\ at <= Len(cands)
    /\ LET t == cands[at]
           c == IF InBucket(t) # {} THEN First(InBucket(t)) ELSE First(Free)
       IN  \/ ch' = [d \in Channels |-> IF d \in c
                        THEN [ch[d] EXCEPT !.active = TRUE, !.tone = t, !.centre = t,
                                           !.thread = "runs", !.named = TRUE]
                        ELSE ch[d]]
           \/ InBucket(t) = {} /\ UNCHANGED ch
    /\ at' = at + 1
    /\ UNCHANGED <<fileVars, mark, pc, cands, fed, matched, decodes, verdict, compared>>

\* the candidates are not needed any more
Acquired == /\ pc = "acquire" /\ at > Len(cands)
            /\ Step("feed")
            /\ cands' = << >>
            /\ UNCHANGED <<fileVars, mark, fed, ch, matched, decodes, verdict,
                           compared>>

\* cwskimmer_feed_all_active_channels: decode_worker_submit_iq refuses a block
\* when the queue is full, and the replay does not wait
Submit(w, b) == IF w.active /\ Len(w.queue) < Depth
                THEN [w EXCEPT !.queue = Append(@, b)] ELSE w

Feed == /\ pc = "feed" /\ fed < Blocks
        /\ fed' = fed + 1
        /\ ch' = [c \in Channels |-> Submit(ch[c], fed')]
        /\ IF fed' = Blocks THEN Step("flush") ELSE UNCHANGED <<pc, at>>
        /\ UNCHANGED <<fileVars, mark, cands, matched, decodes, verdict, compared>>

\* mutant: the blocks the queue refused are waited for
FlushAll == /\ pc = "flush"
            /\ ch[at].active => Len(ch[at].heard) = Blocks
            /\ IF at + 1 \in Channels THEN at' = at + 1 /\ UNCHANGED pc ELSE Step("collect")
            /\ UNCHANGED <<fileVars, mark, cands, fed, ch, matched, decodes, verdict,
                           compared>>

\* decode_worker_flush_decode waits until the queue is empty
Flush == /\ pc = "flush"
         /\ ch[at].active => ch[at].queue = << >>
         /\ IF at + 1 \in Channels THEN at' = at + 1 /\ UNCHANGED pc ELSE Step("collect")
         /\ UNCHANGED <<fileVars, mark, cands, fed, ch, matched, decodes, verdict,
                        compared>>

\* cw_decoder_get_plain_text: every block was heard, or nothing is sure
Read(w) == IF w.heard = [b \in 1..Blocks |-> b] THEN {offline[w.tone]} ELSE Texts

\* the texts of the channels are compared and kept, each once
Collect ==
    /\ pc = "collect"
    /\ IF ~ch[at].active THEN UNCHANGED <<matched, decodes, compared>>
       ELSE \E t \in Read(ch[at]) :
            /\ Compare(t)
            /\ decodes' = decodes \cup ({t} \ {"none"})
    /\ IF at + 1 \in Channels THEN at' = at + 1 /\ UNCHANGED pc ELSE Step("mark")
    /\ UNCHANGED <<fileVars, mark, cands, fed, ch, verdict>>

\* cwskimmer_find_closest_channel
Closest == {c \in Channels : /\ ch[c].active /\ Dist(ch[c].centre, mark) <= Bucket
                             /\ \A d \in Channels : ch[d].active =>
                                    Dist(ch[c].centre, mark) <= Dist(ch[d].centre, mark)}

\* the channel of the mark is compared once more
Mark == /\ pc = "mark"
        /\ IF mark = 0 \/ Closest = {} THEN UNCHANGED <<matched, compared>>
           ELSE \E t \in Read(ch[Min(Closest)]) : Compare(t)
        /\ Step("sweep")
        /\ UNCHANGED <<fileVars, mark, cands, fed, ch, decodes, verdict>>

\* without a mark the tones around the centre are tried on the whole file
Sweep == /\ pc = "sweep"
         /\ IF ~expected \/ matched \/ mark # 0 THEN UNCHANGED <<matched, compared>>
            ELSE \E S \in SUBSET UNION {Near(t) : t \in Near(0)} :
                 LET floor == Max({-1} \cup {score(t) : t \in decodes}) IN
                 \/ Best(S, floor) = {} /\ UNCHANGED <<matched, compared>>
                 \/ \E u \in Best(S, floor) : Trial(S, u)
         /\ Step("release")
         /\ UNCHANGED <<fileVars, mark, cands, fed, ch, decodes, verdict>>

\* of a channel in no use the thread alone matters
Freed(w) == [Idle EXCEPT !.thread = w.thread, !.busy = w.busy]

\* cwskimmer_release_all_channels: decode_worker_stop of a channel takes its
\* thread, if it still has one, to join it
Release == /\ pc = "release"
           /\ ch' = [ch EXCEPT ![at] = [Freed(@) EXCEPT !.stop = TRUE]]
           /\ pc' = IF ch[at].named THEN "join" ELSE "stopped"
           /\ UNCHANGED <<fileVars, mark, at, cands, fed, matched, decodes, verdict,
                          compared>>

\* ... and the thread has ended, or there was none to join
Released == /\ pc = "stopped" \/ (pc = "join" /\ ch[at].thread = "none")
            /\ ch' = [ch EXCEPT ![at] = Freed(@)]
            /\ IF at + 1 \in Channels THEN at' = at + 1 /\ pc' = "release"
                                      ELSE Step("return")
            /\ UNCHANGED <<fileVars, mark, cands, fed, matched, decodes, verdict,
                           compared>>

Return == /\ pc = "return"
          /\ verdict' = IF (IF expected THEN matched ELSE decodes # {})
                        THEN "pass" ELSE "fail"
          /\ Step("done")
          /\ UNCHANGED <<fileVars, mark, cands, fed, ch, matched, decodes, compared>>

-------------------------------------------------------------------------------
(* The threads of the decode workers.                                      *)
ThreadRest == UNCHANGED <<fileVars, mark, pc, at, cands, fed, matched, decodes,
                          verdict, compared>>

Work(c, w) == ch' = [ch EXCEPT ![c] = w] /\ ThreadRest

Take(c) == /\ ch[c].active /\ ch[c].thread = "runs" /\ ch[c].busy = 0
           /\ ch[c].queue # << >>
           /\ Work(c, [ch[c] EXCEPT !.busy = Head(ch[c].queue), !.queue = Tail(@)])

Decode(c) == /\ ch[c].busy # 0
             /\ Work(c, [ch[c] EXCEPT !.heard = Append(@, ch[c].busy), !.busy = 0])

\* a steady carrier: the channel is no longer active ...
Birdie(c) == /\ ch[c].busy # 0
             /\ Work(c, [Idle EXCEPT !.thread = "marked", !.stop = ch[c].stop,
                                     !.named = ch[c].named])

\* ... and cwskimmer_decode_worker_result releases it: decode_worker_stop takes
\* its own thread, which it cannot join
ReleaseBirdie(c) == /\ ch[c].thread = "marked"
                    /\ Work(c, [ch[c] EXCEPT !.stop = TRUE, !.named = FALSE,
                                             !.thread = "resets"])

\* ... takes back the stop, and the thread goes on
BirdieReleased(c) == /\ ch[c].thread = "resets"
                     /\ Work(c, [Idle EXCEPT !.thread = "spins"])

\* the thread sees a stop
Exit(c) == /\ ch[c].thread \in {"runs", "spins"} /\ ch[c].busy = 0 /\ ch[c].stop
           /\ Work(c, [ch[c] EXCEPT !.thread = "none"])

Thread(c) == \/ Take(c) \/ Decode(c) \/ Birdie(c)
             \/ ReleaseBirdie(c) \/ BirdieReleased(c) \/ Exit(c)

Main == \/ Fails \/ Loads \/ Tune \/ Prescan \/ Acquire \/ Acquired \/ Feed \/ Flush
        \/ Collect \/ Mark \/ Sweep \/ Release \/ Released \/ Return

Next == Main \/ \E c \in Channels : Thread(c)

Spec == Init /\ [][Next]_vars

\* the threads and the replay are scheduled
FairSpec == /\ Spec /\ WF_vars(Main)
            /\ \A c \in Channels : WF_vars(Thread(c))

-------------------------------------------------------------------------------
(* Properties.                                                             *)

(* "Returns 0 if expected_text appears in output": with an expected text   *)
(* the replay passes exactly when some text it decoded matched, by a       *)
(* channel, at the mark or in the trials of a sweep, and without one when  *)
(* a channel decoded something; a match is never lost because another      *)
(* tone's text was longer or came first.                                   *)
VerdictOfTexts ==
    verdict \in {"pass", "fail"} =>
        (verdict = "pass" <=> IF expected THEN "match" \in compared ELSE decodes # {})

\* the join of a thread that has taken back the stop
JoinHangs == pc = "join" /\ ch[at].thread = "spins" /\ ~ch[at].stop

(* Every replay ends, whatever the threads do: decode_worker_flush_decode  *)
(* and the joins do not wait for ever, every channel is released and its   *)
(* thread ended, but for those that released themselves.  Unless a thread  *)
(* finds a steady carrier in the block it works on when its channel is     *)
(* released, and takes back the stop it is joined with.                    *)
ReplayEnds ==
    \/ []<>(pc = "done" /\ \A c \in Channels :
                ch[c] = Freed(ch[c]) /\ ch[c].thread \in {"none", "spins"})
    \/ <>[]JoinHangs

===============================================================================
