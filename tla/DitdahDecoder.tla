---------------------------- MODULE DitdahDecoder -----------------------------
(***************************************************************************)
(* The dit/dah decoder of one decode worker (ditdah_decoder.c behind       *)
(* cw_decoder.c) and what becomes of its readings: the decode update with  *)
(* the new letter, the callsign and the spot (decode_worker_thread and the *)
(* result callback of cwskimmer_api.c).                                    *)
(*                                                                         *)
(* The decoder keeps the last seconds of audio and reads ALL of them anew  *)
(* after every chunk.  Audio is the keying of the station in tune, one     *)
(* Boolean per sample of the power signal; a station keys its text once    *)
(* and is silent afterwards.  The worker feeds, analyses and judges without  *)
(* its lock, so that the detection thread may tune it to another frequency *)
(* at any time (decode_worker_set_metadata) and then resets the decoder    *)
(* under the steps of the worker; only the result is a step of its own.    *)
(***************************************************************************)
EXTENDS MessageValidator, SequencesExt

CONSTANTS Stations,     \* stations that can be tuned in
          Texts,        \* what a station may key: sets of words
          Modes,        \* values of validation_mode
          NoiseReads,   \* envelopes that a threshold inside the noise can give
          Dot,          \* length of a dot, in samples
          Breakpoint,   \* breakpoint: a lone mark longer than this is a dash
          Half,         \* samples of half a second: least analysed, and dropped
          Cap,          \* audio_cap: samples the decoder keeps
          Chunk,        \* samples of one IQ chunk
          BirdieSec,    \* BIRDIE_MIN_ACTIVE_SEC
          MaxFed,       \* bound: samples fed
          MaxRetunes,   \* bound: retunes and restarts
          MaxSec        \* bound: seconds on the clock

ASSUME DecoderAssumption ==
    /\ {Dot, Half, Chunk, BirdieSec} \subseteq Nat \ {0}
    /\ {Breakpoint, MaxFed, MaxRetunes, MaxSec} \subseteq Nat
    /\ Cap \in Nat /\ Cap > Half /\ Half >= Chunk
    /\ Modes \subseteq DOMAIN accept_min
    /\ NoiseReads \subseteq Seq(BOOLEAN)

VARIABLES
    mode,                \* config.validation_mode
    keyed,               \* keyed[s]: the text station s keys
    clock, created_at,   \* time(NULL), in seconds, and when listening began
    tuned,               \* the station at tone_hz and at worker->frequency_hz
    fed, from,           \* the audio kept is sample from + 1 .. fed
    left, former,        \* the samples up to left are of the former station
    reading, late,       \* of the worker's thread: what it has read of a window,
                         \* and whether it found the time of a birdie over
    plain_text, pending, last_emitted_plain, has_keying,
    callsign_ready,
    last_completed_word, \* of the worker: the last accepted word
    shown, spots,        \* the last decode update, and the spots submitted
    retunes, pc,
    heard,               \* history: the texts read from the station in tune, those
                         \* read from one tuned before and not written yet, or
                         \* from a window with its samples, the marks in the last
                         \* reading, and since when the station is tuned
    torn                 \* history: retuned since the time for a birdie was read

station == <<mode, keyed>>
buffer  == <<fed, from, left, former>>
reader  == <<plain_text, pending, last_emitted_plain, has_keying, created_at>>
thread  == <<reading, late>>
output  == <<callsign_ready, last_completed_word, shown, spots>>
history == <<heard, torn>>
vars    == <<station, clock, tuned, buffer, reader, thread, output, retunes, pc,
             history>>

-------------------------------------------------------------------------------
(* Morse: 0 is a dot, 1 a dash.                                            *)
LetterCodes ==
    [A |-> <<0,1>>, B |-> <<1,0,0,0>>, C |-> <<1,0,1,0>>, D |-> <<1,0,0>>,
     E |-> <<0>>, F |-> <<0,0,1,0>>, G |-> <<1,1,0>>, H |-> <<0,0,0,0>>,
     I |-> <<0,0>>, J |-> <<0,1,1,1>>, K |-> <<1,0,1>>, L |-> <<0,1,0,0>>,
     M |-> <<1,1>>, N |-> <<1,0>>, O |-> <<1,1,1>>, P |-> <<0,1,1,0>>,
     Q |-> <<1,1,0,1>>, R |-> <<0,1,0>>, S |-> <<0,0,0>>, T |-> <<1>>,
     U |-> <<0,0,1>>, V |-> <<0,0,0,1>>, W |-> <<0,1,1>>, X |-> <<1,0,0,1>>,
     Y |-> <<1,0,1,1>>, Z |-> <<1,1,0,0>>]
DigitCode(d) ==
    LET v == CHOOSE v \in 0 .. 9 : ToString(v) = d
    IN  [i \in 1 .. 5 |-> IF v <= 5 THEN IF i <= v THEN 0 ELSE 1
                          ELSE IF i <= v - 5 THEN 1 ELSE 0]
Morse == [c \in Alpha \cup Digits |-> IF c \in Alpha THEN LetterCodes[c] ELSE DigitCode(c)]

morse_to_char(code) == IF \E c \in DOMAIN Morse : Morse[c] = code
                       THEN CHOOSE c \in DOMAIN Morse : Morse[c] = code
                       ELSE Unread

(* The station: each mark with the silence in front of it.                 *)
MarksOf(text) ==
    FlattenSeq([i \in DOMAIN text |->
        IF text[i] = Space THEN <<>>
        ELSE [j \in DOMAIN Morse[text[i]] |->
                [at |-> i, elem |-> j,
                 mark |-> Dot * (1 + 2 * Morse[text[i]][j]),
                 gap |-> Dot * (CASE j > 1 -> 1
                                  [] j = 1 /\ i > 1 /\ text[i - 1] = Space -> 7
                                  [] OTHER -> 3)]]])
Samples(n, value) == [i \in 1 .. n |-> value]
Keying(marks) == FlattenSeq([k \in DOMAIN marks |->
                     Samples(marks[k].gap, FALSE) \o Samples(marks[k].mark, TRUE)])
Marks  == [t \in Texts |-> MarksOf(t)]
Signal == [t \in Texts |-> Keying(Marks[t]) \o Samples(MaxFed, FALSE)]

-------------------------------------------------------------------------------
(* get_raw_intervals: marks and gaps in turn, each as long as its samples.  *)
Longer(runs) == [runs EXCEPT ![Len(runs)].len = @ + 1]
Runs(w) ==
    LET runs[i \in 0 .. Len(w)] ==
            IF i = 0 THEN <<>>
            ELSE IF i > 1 /\ w[i] = w[i - 1] THEN Longer(runs[i - 1])
            ELSE Append(runs[i - 1], [on |-> w[i], len |-> 1])
    IN  runs[Len(w)]

OnLengths(runs) ==
    SortSeq([k \in DOMAIN runs |-> runs[k].len], LAMBDA a, b : a < b)

(* Three times actual_dot_len: the lower quartile of the marks when they   *)
(* differ, else the median, a third of it if that is long.                 *)
DotLen3(lens) ==
    IF lens[Len(lens)] > 2 * lens[1] THEN 3 * lens[(Len(lens) \div 2) \div 2 + 1]
    ELSE IF lens[Len(lens) \div 2 + 1] > Breakpoint THEN lens[Len(lens) \div 2 + 1]
    ELSE 3 * lens[Len(lens) \div 2 + 1]

\* debounce_samples: three tenths of a dot, rounded
Bounce(dot3) == IF dot3 < 5 THEN 1 ELSE (dot3 + 5) \div 10

\* mutant: the gap of one dot already ends a letter
LetterGapShort(len, dot3) == 3 * len >= dot3

\* LETTER_SPACE_BOUNDARY, WORD_SPACE_BOUNDARY and DIT_DAH_BOUNDARY
LetterGap(len, dot3) == 3 * len > 2 * dot3
WordGap(len, dot3) == 3 * len > 5 * dot3
Dash(len, dot3) == 3 * len >= 2 * dot3

\* the letter is appended to the text; a space to a text that has none at its end
Ended(text, code) == IF code = <<>> THEN text ELSE Append(text, morse_to_char(code))
Spaced(text) == IF text = <<>> \/ Last(text) = Space THEN text ELSE Append(text, Space)

(* decode_with_params: the text, and the letter that is open, after a run  *)
(* that is longer than the debounce.                                       *)
Take(r, run, dot3) ==
    CASE run.on -> [r EXCEPT !.code = Append(@, IF Dash(run.len, dot3) THEN 1 ELSE 0)]
      [] ~run.on /\ WordGap(run.len, dot3) ->
            [text |-> Spaced(Ended(r.text, r.code)), code |-> <<>>]
      [] ~run.on /\ LetterGap(run.len, dot3) /\ ~WordGap(run.len, dot3) ->
            [text |-> Ended(r.text, r.code), code |-> <<>>]
      [] OTHER -> r

ReadRuns(runs, dot3) ==
    LET read[k \in 0 .. Len(runs)] ==
            IF k = 0 THEN [text |-> <<>>, code |-> <<>>]
            ELSE IF runs[k].len <= Bounce(dot3) THEN read[k - 1]
            ELSE Take(read[k - 1], runs[k], dot3)
    IN  read[Len(runs)]

(* The text of a window, the elements of a letter that no gap has ended,   *)
(* and the number of marks.  A gap at the end is never looked at.          *)
Finished(read, marks) == [text |-> Ended(read.text, read.code),
                          pending |-> read.code, marks |-> marks]
NoReading == [text |-> <<>>, pending |-> <<>>, marks |-> 0]
ReadingOf(runs, on) ==
    IF on = <<>> THEN NoReading
    ELSE Finished(ReadRuns(IF Last(runs).on THEN runs ELSE Front(runs),
                           DotLen3(OnLengths(on))), Len(on))
Marked(runs) == SelectSeq(runs, LAMBDA r : r.on)
ReadingRuns(runs) == ReadingOf(runs, Marked(runs))
Reading(w) == ReadingRuns(Runs(w))

(* find_best_params: the threshold lies between the quartiles of the       *)
(* power, so it parts marks from gaps only when the lower quartile is a    *)
(* gap and the upper one a mark.                                           *)
Contrast(w) ==
    LET gaps == Cardinality({i \in DOMAIN w : ~w[i]})
    IN  gaps > Len(w) \div 4 /\ gaps <= (3 * Len(w)) \div 4

Envelopes(w) == IF Contrast(w) THEN {w} ELSE NoiseReads

-------------------------------------------------------------------------------
Audio == [i \in 1 .. fed - from |->
              Signal[keyed[IF from + i <= left THEN former ELSE tuned]][from + i]]

HeardSince(time, stray) ==
    [texts |-> {}, stray |-> stray, marks |-> 0, since |-> time]

Nothing == [text |-> <<>>, partial |-> <<>>, letter |-> ""]

(* A worker started for a station (decode_worker_start, cw_decoder_create, *)
(* ditdah_decoder_create).                                                 *)
Init == /\ mode \in Modes
        /\ keyed \in [Stations -> Texts]
        /\ tuned \in Stations
        /\ clock = 0 /\ created_at = 0
        /\ fed = 0 /\ from = 0 /\ left = 0 /\ former = tuned
        /\ plain_text = <<>> /\ pending = <<>> /\ last_emitted_plain = <<>>
        /\ has_keying = FALSE
        /\ reading = NoReading /\ late = FALSE
        /\ callsign_ready = FALSE /\ last_completed_word = <<>>
        /\ shown = Nothing /\ spots = {}
        /\ retunes = 0 /\ pc = "feed"
        /\ heard = HeardSince(0, {}) /\ torn = FALSE

\* mutant: the texts of the former station stay
ResetKeepsText ==
    /\ pending' = <<>> /\ last_emitted_plain' = <<>>
    /\ has_keying' = FALSE
    /\ created_at' = clock
    /\ UNCHANGED plain_text

(* ditdah_decoder_reset, but for the audio                                 *)
ditdah_decoder_reset ==
    /\ plain_text' = <<>> /\ pending' = <<>> /\ last_emitted_plain' = <<>>
    /\ has_keying' = FALSE
    /\ created_at' = clock

\* its audio_len = 0 while no chunk is being fed
Emptied(s) == from' = fed /\ left' = 0 /\ former' = s /\ UNCHANGED fed

(* cw_decoder_process_iq: samples are appended; half a second is dropped   *)
(* whenever the buffer is full.                                            *)
Dropped == IF fed + Chunk - from > Cap THEN from + Half ELSE from
Feed == /\ pc = "feed" /\ fed + Chunk <= MaxFed
        /\ fed' = fed + Chunk /\ from' = Dropped
        /\ left' = IF Dropped >= left THEN 0 ELSE left
        /\ pc' = "update"
        /\ UNCHANGED <<station, clock, tuned, former, reader, thread, output,
                       retunes, history>>

(* ditdah_run_pipeline reads the window, unless it is shorter than half a  *)
(* second or digital silence, and keeps what it has read to itself.        *)
Heard(r) == [texts |-> IF from >= left THEN heard.texts \cup {r.text} ELSE heard.texts,
             stray |-> IF from >= left THEN heard.stray ELSE heard.stray \cup {r.text},
             marks |-> r.marks, since |-> heard.since]
Skipped(window) == Len(window) < Half \/ ~Has(window, {TRUE})
Readings(window) == IF Len(window) < Half THEN {}
                    ELSE {Reading(env) : env \in Envelopes(window)}

Analyse == /\ pc = "update"
           /\ \/ \E r \in Readings(Audio) :
                      reading' = r /\ heard' = Heard(r) /\ pc' = "read"
              \/ Skipped(Audio) /\ pc' = "judge" /\ UNCHANGED <<reading, heard>>
           /\ UNCHANGED <<station, clock, tuned, buffer, reader, late, output,
                          retunes, torn>>

(* It writes whether there is keying (BIRDIE_MIN_ON_INTERVALS),            *)
Keyed(r) == has_keying' = (r.marks >= 3)
WriteKeying == /\ pc = "read"
          /\ Keyed(reading)
          /\ pc' = "keyed"
          /\ UNCHANGED <<station, clock, tuned, buffer, plain_text, pending,
                         last_emitted_plain, created_at, thread, output, retunes,
                         history>>

(* then, unless it reads the same as before, the text.                     *)
Differs(r) == r.text # <<>> /\ r.text # plain_text
Written(r) ==
    /\ plain_text' = IF Differs(r) THEN r.text ELSE plain_text
    /\ pending' = IF Differs(r) \/ r.pending # <<>> THEN r.pending ELSE pending
    /\ UNCHANGED <<last_emitted_plain, created_at>>
WriteText == /\ pc = "keyed"
         /\ Written(reading)
         /\ reading' = NoReading
         /\ pc' = "judge"
         /\ UNCHANGED <<station, clock, tuned, buffer, has_keying, late, output,
                        retunes, history>>

(* ditdah_decoder_update and, when asked again, ditdah_decoder_is_birdie   *)
(* look at the time and then whether there is keying.                      *)
Elapsed == /\ pc = "judge"
           /\ late' = (clock - created_at >= BirdieSec)
           /\ pc' = "verdict"
           /\ UNCHANGED <<station, clock, tuned, buffer, reader, reading, output,
                          retunes, history>>

\* mutant: listening time alone makes a birdie
IsBirdieByTime == late

IsBirdie == late /\ ~has_keying

Verdict == /\ pc = "verdict"
           /\ pc' = IF IsBirdie THEN "birdie" ELSE "result"
           /\ torn' = (torn /\ IsBirdie)
           /\ late' = FALSE
           /\ UNCHANGED <<station, clock, tuned, buffer, reader, reading, output,
                          retunes, heard>>

(* decode_worker_flush_decode, after which the worker is stopped: all of   *)
(* the analysis under the lock, with the queue worked off.                 *)
Flush == /\ pc = "feed"
         /\ \/ \E r \in Readings(Audio) :
                    Keyed(r) /\ Written(r) /\ heard' = Heard(r)
            \/ Skipped(Audio) /\ UNCHANGED <<reader, heard>>
         /\ callsign_ready' = TRUE /\ pc' = "flushed"
         /\ UNCHANGED <<station, clock, tuned, buffer, thread, last_completed_word,
                        shown, spots, retunes, torn>>

-------------------------------------------------------------------------------
(* ditdah_decoder_take_new_letter: the character behind as many as have    *)
(* been taken before, and the one behind it if that is a space.            *)
NewLetter ==
    LET old == Len(last_emitted_plain)
        at  == IF old < Len(plain_text) /\ plain_text[old + 1] = Space
               THEN old + 2 ELSE old + 1
    IN  IF at <= Len(plain_text) THEN plain_text[at] ELSE ""

(* cw_decoder_copy_word *)
FirstWord(text) == SelectInSeq(text, LAMBDA c : c = Space)
Word(text) == IF FirstWord(text) = 0 THEN text
              ELSE SubSeq(text, 1, FirstWord(text) - 1)

\* cw_decoder_on_word_gap, which a space in the text calls
WordIsOut == callsign_ready \/ Has(plain_text, {Space})

(* cw_decoder_get_callsign: the first word, none as long as none is out    *)
Callsign == IF WordIsOut THEN Word(plain_text) ELSE <<>>

(* cwskimmer_sanitize_decode_text drops the question marks.                *)
Clean(text) == SelectSeq(text, LAMBDA c : c # Unread)

(* cwskimmer_send_decode_update: no update when there is nothing to show,  *)
(* and no letter when the text scores low.                                 *)
SendUpdate(letter) ==
    LET text == Clean(plain_text)
    IN  shown' = IF text = <<>> /\ pending = <<>> /\ letter = "" THEN shown
                 ELSE [text |-> text, partial |-> pending,
                       letter |-> IF Score(text, last_completed_word)
                                       < display_min[mode] THEN "" ELSE letter]

(* cwskimmer_decode_worker_result and cwskimmer_submit_spot_from_decode    *)
Submit(word) ==
    IF Accepts(word, mode, last_completed_word)
    THEN /\ last_completed_word' = word
         /\ spots' = spots \cup {[call |-> word, of |-> tuned]}
    ELSE UNCHANGED <<last_completed_word, spots>>

(* decode_worker_thread under the lock: the display, and the first word as *)
(* soon as the text has a space.                                           *)
Result ==
    /\ pc = "result"
    /\ last_emitted_plain' =
           IF Len(plain_text) > Len(last_emitted_plain) THEN plain_text
           ELSE last_emitted_plain
    /\ SendUpdate(NewLetter)
    /\ IF Callsign # <<>> THEN Submit(Callsign)
       ELSE UNCHANGED <<last_completed_word, spots>>
    /\ callsign_ready' = FALSE
    /\ pc' = "feed"
    /\ UNCHANGED <<station, clock, tuned, buffer, plain_text, pending, has_keying,
                   created_at, thread, retunes, history>>

(* decode_worker_set_metadata with a tone more than 2 Hz away.  What the   *)
(* thread has in hand it has still: a reading to be written, the time that *)
(* was over for the former station.                                        *)
InHand == IF pc \in {"read", "keyed"} THEN {reading.text} ELSE {}
Tuned(s) == /\ s # tuned /\ retunes < MaxRetunes
            /\ tuned' = s /\ retunes' = retunes + 1
            /\ heard' = HeardSince(clock, InHand)
            /\ torn' = (pc \in {"verdict", "birdie"})
Retune(s) ==
    /\ pc # "flushed"
    /\ Tuned(s) /\ ditdah_decoder_reset /\ Emptied(s)
    /\ UNCHANGED <<station, clock, thread, output, pc>>

(* The same while a chunk is fed: what of it comes behind audio_len = 0 is *)
(* audio of the former station, and so is everything if audio_len was read *)
(* before and written after it.                                            *)
RetuneWhileFed(s) ==
    /\ pc = "feed" /\ fed + Chunk <= MaxFed
    /\ Tuned(s) /\ ditdah_decoder_reset
    /\ fed' = fed + Chunk /\ from' \in {Dropped} \cup fed .. fed + Chunk
    /\ left' = fed + Chunk /\ former' = tuned
    /\ pc' = "update"
    /\ UNCHANGED <<station, clock, thread, output>>

(* The worker of a birdie is released (decode_worker_reset) and its slot   *)
(* started again for another signal.                                       *)
Restart(s) ==
    /\ pc = "birdie" /\ retunes < MaxRetunes
    /\ tuned' = s /\ retunes' = retunes + 1
    /\ ditdah_decoder_reset /\ Emptied(s)
    /\ callsign_ready' = FALSE /\ last_completed_word' = <<>>
    /\ heard' = HeardSince(clock, {}) /\ torn' = FALSE
    /\ pc' = "feed"
    /\ UNCHANGED <<station, clock, thread, shown, spots>>

Tick == /\ clock < MaxSec
        /\ clock' = clock + 1
        /\ UNCHANGED <<station, tuned, buffer, reader, thread, output, retunes, pc,
                       history>>

Next == \/ Feed \/ Analyse \/ WriteKeying \/ WriteText \/ Elapsed \/ Verdict
        \/ Flush \/ Result \/ Tick
        \/ \E s \in Stations : Retune(s) \/ RetuneWhileFed(s) \/ Restart(s)

Spec == Init /\ [][Next]_vars

-------------------------------------------------------------------------------
(* What the station has keyed when n marks are out.                        *)
DoneOf(t, n, i) ==
    Cardinality({k \in 1 .. n : Marks[t][k].at = i})
KeyedBy(t, n) ==
    FlattenSeq([i \in DOMAIN t |->
        IF t[i] = Space \/ DoneOf(t, n, i) = 0 THEN <<>>
        ELSE (IF i > 1 /\ t[i - 1] = Space THEN <<Space>> ELSE <<>>)
               \o <<morse_to_char(SubSeq(Morse[t[i]], 1, DoneOf(t, n, i)))>>])

\* marks begun by now: each begins where a mark follows a gap
Begun(t) == Cardinality({i \in 1 .. fed : Signal[t][i] /\ (i = 1 \/ ~Signal[t][i - 1])})

\* the last mark begun is over
KeyUp(t) == fed > 0 /\ (Signal[t][fed] => ~Signal[t][fed + 1])

\* more than a quarter of the marks are dots, or they are all of one kind
Mixed(t, n) ==
    LET dots == Cardinality({k \in 1 .. n : Marks[t][k].mark = Dot})
    IN  dots = n \/ (dots = 0 /\ 3 * Dot > Breakpoint) \/ dots > n \div 4

(* A station heard from its beginning, with its mix of dots and dashes and *)
(* of marks and gaps such that the speed and the threshold can be told,    *)
(* reads exactly as it is keyed, to the last element: no letter is split,  *)
(* run together or cut off by the gaps, the debounce or the rereading.     *)
ReadsWhatIsKeyed ==
    LET t == keyed[tuned]
        n == Begun(t)
    IN  (/\ pc = "result" /\ retunes = 0 /\ from = 0 /\ n > 0
         /\ Len(Audio) >= Half /\ KeyUp(t) /\ Contrast(Audio) /\ Mixed(t, n))
        => plain_text = KeyedBy(t, n)

(* The text shown, the text that new letters are counted against, and so   *)
(* the word that is spotted with the worker's frequency, were read from    *)
(* the station in tune and not from one tuned before, whenever the         *)
(* detection thread retunes.  The code allows two exceptions: the reading  *)
(* that the thread had in hand and writes after the reset, and windows     *)
(* with samples that it was feeding.                                       *)
StationsApart ==
    {plain_text, last_emitted_plain} \subseteq heard.texts \cup {<<>>} \cup heard.stray

(* A worker is given up as a birdie only after it has listened to this     *)
(* signal for four seconds and has not found three marks in the window it  *)
(* read last; the exception is a retune behind the look at the time.       *)
BirdieEarned ==
    pc = "birdie" /\ ~torn => /\ clock - heard.since >= BirdieSec
                              /\ ~(heard.marks >= 3)

(* What is spotted is a callsign or a keyword, also when the same word was *)
(* accepted before and scores higher for it; only the minimal mode accepts *)
(* more, and that at least begins like a callsign.  In paranoid mode, where *)
(* only a repeated word could score enough, nothing is ever spotted.       *)
SpotsAreMessages ==
    \A s \in spots :
        /\ mode # "paranoid"
        /\ \/ looks_like_callsign(s.call) \/ s.call \in Keywords
           \/ mode = "minimal" /\ itu_prefix_plausible(s.call)

===============================================================================
