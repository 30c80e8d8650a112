----------------------------- MODULE SamplePath ------------------------------
(* From a block of samples to the columns of the waterfall: the audio        *)
(* processor (src/cw-skimmer/src/audio_processor.c) and the part of the      *)
(* detection loop that feeds it and drains it (cwskimmer_api.c).             *)
(*                                                                           *)
(* The loop owns the processor and takes no lock for it; a change of the     *)
(* span (config_set "spectrum_span_hz") writes the same fields on another    *)
(* thread.  An action of either is one group of statements the other cannot  *)
(* tell apart.  The unit of length is AP_NARROW_HOP decimated samples, so a  *)
(* block is Chunk raw units and one narrow column needs one decimated unit;  *)
(* a spectrum is known by the number of its FFT, the samples it took and     *)
(* their rate.                                                               *)
EXTENDS Integers, Sequences, FiniteSets

CONSTANTS SampleRate,           \* config.sample_rate
          Narrow,               \* the span of the narrow mode, in the same unit
          Chunk,                \* IQ_PROCESS_CHUNK
          AP_WIDE_FFT_N, AP_NARROW_FFT_N, AP_NARROW_RING, AP_MAX_PENDING_SPEC,
          MaxBlocks,            \* bound: blocks read
          MaxChanges            \* bound: changes of the span while running

PathAssumption ==
    /\ {SampleRate, Narrow, Chunk, AP_WIDE_FFT_N, AP_NARROW_FFT_N,
        AP_NARROW_RING, AP_MAX_PENDING_SPEC} \subseteq Nat \ {0}
    /\ MaxBlocks \in Nat /\ MaxChanges \in Nat
    /\ Narrow < SampleRate /\ SampleRate % Narrow = 0
    /\ AP_NARROW_FFT_N < AP_WIDE_FFT_N /\ AP_WIDE_FFT_N = Chunk
    /\ AP_WIDE_FFT_N <= AP_NARROW_RING
    \* both lengths are powers of two, and the queue has room for a block
    /\ AP_NARROW_FFT_N % 2 = 0 /\ AP_WIDE_FFT_N % AP_NARROW_FFT_N = 0
    /\ Chunk \div (SampleRate \div Narrow) <= AP_MAX_PENDING_SPEC

VARIABLES proc,     \* audio_processor_t
          loop,     \* the detection loop: where it is, and its locals
          setter,   \* the thread in audio_processor_set_spectrum_span
          audio,    \* tci_stream_is_audio_only: demodulated audio, not IQ
          cb,       \* a spectrum callback is set
          blocks,   \* blocks read
          changes,  \* changes of the span begun
          cut,      \* a change and a block have overlapped
          made,     \* spectra computed
          shown     \* what the callback got

vars == <<proc, loop, setter, audio, cb, blocks, changes, cut, made, shown>>

NoSpectrum == [no |-> 0, bins |-> 0, fs |-> 0, real |-> FALSE]
Spectrum   == [no : Nat, bins : 0 .. AP_WIDE_FFT_N, fs : {0, Narrow, SampleRate},
               real : BOOLEAN]
Slots      == 0 .. AP_MAX_PENDING_SPEC - 1

Processor ==
    [span : {Narrow, SampleRate}, fft : {AP_WIDE_FFT_N, AP_NARROW_FFT_N},
     fs : {Narrow, SampleRate}, real : BOOLEAN, bins : 1 .. AP_WIDE_FFT_N,
     fill : 0 .. AP_NARROW_RING, pend : [Slots -> Spectrum],
     head : Slots, tail : Slots, cnt : -1 .. AP_MAX_PENDING_SPEC, power : Spectrum]
Turn ==
    [at : {"idle", "process", "wide", "narrow", "fft", "push", "tail", "count",
           "pop", "head", "taken", "show", "showFresh"},
     left : 0 .. Chunk, wide : BOOLEAN, n : 0 .. AP_WIDE_FFT_N,
     spec : Spectrum, frames : 0 .. AP_MAX_PENDING_SPEC, first : Nat]
Change == [at : {"idle", "sizes", "clear"}, span : {0, Narrow, SampleRate}]
Column == [spec : Spectrum, fresh : BOOLEAN, axis : Nat]

\* audio_processor_create, and the span the session starts with
Init ==
    /\ \E span \in {Narrow, SampleRate} :
          proc = [span |-> span,
                  fft  |-> IF span = SampleRate THEN AP_WIDE_FFT_N ELSE AP_NARROW_FFT_N,
                  fs   |-> span, real |-> FALSE, bins |-> AP_WIDE_FFT_N,
                  fill |-> 0, pend |-> [s \in Slots |-> NoSpectrum],
                  head |-> 0, tail |-> 0, cnt |-> 0, power |-> NoSpectrum]
    /\ loop = [at |-> "idle", left |-> 0, wide |-> FALSE, n |-> 0,
               spec |-> NoSpectrum, frames |-> 0, first |-> 0]
    /\ setter = [at |-> "idle", span |-> 0]
    /\ audio \in BOOLEAN /\ cb \in BOOLEAN
    /\ blocks = 0 /\ changes = 0 /\ cut = FALSE /\ made = 0 /\ shown = <<>>

(* The indices stay within the queue, also while the span is changed under   *)
(* the running loop; the count alone leaves its range, downwards and by one. *)
TypeOK ==
    /\ proc \in Processor /\ loop \in Turn /\ setter \in Change
    /\ audio \in BOOLEAN /\ cb \in BOOLEAN /\ cut \in BOOLEAN
    /\ blocks \in 0 .. MaxBlocks /\ changes \in 0 .. MaxChanges /\ made \in Nat
    /\ shown \in Seq(Column)

-------------------------------------------------------------------------------
(* A change of the span.                                                     *)
IsNarrow(span) == span > 0 /\ span < SampleRate

Overlap == cut' = (cut \/ loop.at # "idle")

\* audio_processor_set_spectrum_span: first the span ...
SetSpan(span) ==
    /\ setter.at = "idle" /\ changes < MaxChanges
    /\ proc' = [proc EXCEPT !.span = span]
    /\ setter' = [at |-> "sizes", span |-> span]
    /\ changes' = changes + 1 /\ Overlap
    /\ UNCHANGED <<loop, audio, cb, blocks, made, shown>>

\* ... then the length of the FFT and the rate ...
SetSizes ==
    /\ setter.at = "sizes"
    /\ proc' = [proc EXCEPT !.fs = setter.span,
                            !.fft = IF IsNarrow(setter.span) THEN AP_NARROW_FFT_N
                                                             ELSE AP_WIDE_FFT_N]
    /\ setter' = [setter EXCEPT !.at = "clear"]
    /\ Overlap
    /\ UNCHANGED <<loop, audio, cb, blocks, changes, made, shown>>

\* ... and last the queue and the ring; spectrum_bins stays
\* mutant: the head stays where it was
ClearKeepsHead(p) == [p EXCEPT !.tail = 0, !.cnt = 0]

ClearQueue(p) == [p EXCEPT !.head = 0, !.tail = 0, !.cnt = 0]

SetClear ==
    /\ setter.at = "clear"
    /\ proc' = [ClearQueue(proc) EXCEPT !.fill = 0]
    /\ setter' = [at |-> "idle", span |-> 0]
    /\ Overlap
    /\ UNCHANGED <<loop, audio, cb, blocks, changes, made, shown>>

-------------------------------------------------------------------------------
(* The loop: one block.                                                      *)
\* the radio turns from IQ to audio or back; somebody registers the callback
Stream == /\ loop.at = "idle" /\ audio' = ~audio
          /\ UNCHANGED <<proc, loop, setter, cb, blocks, changes, cut, made, shown>>

SetCallback == /\ ~cb /\ cb' = TRUE
               /\ UNCHANGED <<proc, loop, setter, audio, blocks, changes, cut, made, shown>>

\* audio_processor_set_real_audio_mode
SetRealAudio(p) == IF p.real = audio THEN p ELSE [ClearQueue(p) EXCEPT !.real = audio]

(* cwskimmer_start: a block, or the short tail after a training file.  A     *)
(* turn of the stream empties the queue, not the ring.                       *)
ReadBlock(count) ==
    /\ loop.at = "idle" /\ blocks < MaxBlocks
    /\ count = Chunk \/ blocks = MaxBlocks - 1
    /\ proc' = SetRealAudio(proc)
    /\ loop' = [loop EXCEPT !.at = "process", !.left = count, !.frames = 0,
                            !.first = made + 1]
    /\ blocks' = blocks + 1 /\ cut' = (cut \/ setter.at # "idle")
    /\ UNCHANGED <<setter, audio, cb, changes, made, shown>>

\* audio_processor_process, ap_process_wide: FFT_N is read once
Process ==
    /\ loop.at = "process"
    /\ loop' = IF IsNarrow(proc.span) THEN [loop EXCEPT !.at = "narrow", !.wide = FALSE]
               ELSE [loop EXCEPT !.at = "wide", !.wide = TRUE, !.n = proc.fft]
    /\ UNCHANGED <<proc, setter, audio, cb, blocks, changes, cut, made, shown>>

\* mutant: the mirror image of audio is shown too
BothSides(n) == n

\* ap_compute_fft_power: audio has one side only
Bins(n) == IF proc.real THEN n \div 2 ELSE n


Transform(n) ==
    LET spec == [no |-> made + 1, bins |-> Bins(n), fs |-> proc.fs,
                 real |-> proc.real]
    IN  /\ made' = made + 1
        /\ proc' = [proc EXCEPT !.bins = spec.bins]
        /\ loop' = [loop EXCEPT !.at = "push", !.spec = spec, !.n = n]

\* ap_process_wide: a block shorter than the FFT blanks the latest spectrum
Wide ==
    /\ loop.at = "wide"
    /\ IF loop.left < loop.n
       THEN /\ proc' = [proc EXCEPT !.power = NoSpectrum]
            /\ loop' = [loop EXCEPT !.at = "pop"]
            /\ made' = made
       ELSE Transform(loop.n)
    /\ UNCHANGED <<setter, audio, cb, blocks, changes, cut, shown>>

(* ap_process_narrow: the units of the block are decimated into the ring,    *)
(* and every one of them that finds the ring full enough is a hop.           *)
Decim == SampleRate \div Narrow

NarrowUnit ==
    /\ loop.at = "narrow"
    /\ IF loop.left < Decim
       THEN /\ loop' = [loop EXCEPT !.at = "pop"] /\ UNCHANGED proc
       ELSE LET fill == IF proc.fill < AP_NARROW_RING THEN proc.fill + 1 ELSE proc.fill
            IN  /\ proc' = [proc EXCEPT !.fill = fill]
                /\ loop' = [loop EXCEPT !.left = @ - Decim,
                                        !.at = IF fill >= proc.fft THEN "fft" ELSE "narrow"]
    /\ UNCHANGED <<setter, audio, cb, blocks, changes, cut, made, shown>>

\* ap_narrow_try_fft: ring and length are tested again
CanTransform(n) == proc.fill >= n /\ n <= AP_NARROW_FFT_N

NarrowFft ==
    /\ loop.at = "fft"
    /\ IF CanTransform(proc.fft) THEN Transform(proc.fft)
       ELSE loop' = [loop EXCEPT !.at = "narrow"] /\ UNCHANGED <<proc, made>>
    /\ UNCHANGED <<setter, audio, cb, blocks, changes, cut, shown>>

\* ap_push_spectrum: drop the oldest of a full queue, fill the slot at the tail
After(i) == (i + 1) % AP_MAX_PENDING_SPEC

DropOldest(p) == IF p.cnt >= AP_MAX_PENDING_SPEC
                 THEN [p EXCEPT !.head = After(@), !.cnt = @ - 1] ELSE p

PushSlot ==
    /\ loop.at = "push"
    /\ proc' = [DropOldest(proc) EXCEPT !.pend[proc.tail] = loop.spec]
    /\ loop' = [loop EXCEPT !.at = "tail"]
    /\ UNCHANGED <<setter, audio, cb, blocks, changes, cut, made, shown>>

PushTail ==
    /\ loop.at = "tail"
    /\ proc' = [proc EXCEPT !.tail = After(@)]
    /\ loop' = [loop EXCEPT !.at = "count"]
    /\ UNCHANGED <<setter, audio, cb, blocks, changes, cut, made, shown>>

\* the latest spectrum is kept beside the queue
PushCount ==
    /\ loop.at = "count"
    /\ proc' = [proc EXCEPT !.cnt = @ + 1, !.power = loop.spec]
    /\ loop' = [loop EXCEPT !.at = IF loop.wide THEN "pop" ELSE "narrow"]
    /\ UNCHANGED <<setter, audio, cb, blocks, changes, cut, made, shown>>

-------------------------------------------------------------------------------

(* The loop: cwskimmer_emit_spectrum drains the queue into the callback, and *)
(* shows the latest spectrum, with as many bins as the last FFT made, if it  *)
(* found the queue empty.                                                    *)
ShowsLatest == loop.frames = 0

\* audio_processor_get_power_spectrum
Latest == [proc.power EXCEPT !.bins = proc.bins]

Pop ==
    /\ loop.at = "pop"
    /\ loop' = IF ~cb THEN [loop EXCEPT !.at = "idle"]
               ELSE IF proc.cnt > 0
               THEN [loop EXCEPT !.at = "head", !.spec = proc.pend[proc.head]]
               ELSE IF ShowsLatest
               THEN [loop EXCEPT !.at = "show", !.spec = Latest]
               ELSE [loop EXCEPT !.at = "idle"]
    /\ UNCHANGED <<proc, setter, audio, cb, blocks, changes, cut, made, shown>>

\* audio_processor_pop_spectrum: head and count after the copy
PopHead ==
    /\ loop.at = "head"
    /\ proc' = [proc EXCEPT !.head = After(@)]
    /\ loop' = [loop EXCEPT !.at = "taken"]
    /\ UNCHANGED <<setter, audio, cb, blocks, changes, cut, made, shown>>

PopCount ==
    /\ loop.at = "taken"
    /\ proc' = [proc EXCEPT !.cnt = @ - 1]
    /\ loop' = [loop EXCEPT !.at = "showFresh"]
    /\ UNCHANGED <<setter, audio, cb, blocks, changes, cut, made, shown>>

\* cwskimmer_emit_one_spectrum: the width of a bin is that of the mode in force
Axis(bins) == bins * ((proc.fs * AP_WIDE_FFT_N) \div proc.fft)

Show ==
    /\ loop.at \in {"show", "showFresh"}
    /\ shown' = Append(shown, [spec |-> loop.spec, fresh |-> loop.at = "showFresh",
                               axis |-> Axis(loop.spec.bins)])
    /\ loop' = [loop EXCEPT !.frames = @ + 1,
                            !.at = IF loop.at = "show" \/ loop.frames + 1 >= AP_MAX_PENDING_SPEC
                                   THEN "idle" ELSE "pop"]
    /\ UNCHANGED <<proc, setter, audio, cb, blocks, changes, cut, made>>

LoopStep == \/ Process \/ Wide \/ NarrowUnit \/ NarrowFft \/ PushSlot \/ PushTail
            \/ PushCount \/ Pop \/ PopHead \/ PopCount \/ Show

Next == \/ Stream \/ SetCallback
        \/ \E count \in 1 .. Chunk : ReadBlock(count)
        \/ \E span \in {Narrow, SampleRate} : SetSpan(span)
        \/ SetSizes \/ SetClear \/ LoopStep

Spec == Init /\ [][Next]_vars

-------------------------------------------------------------------------------
(* Whatever the length of the FFT becomes while a block is in work, no       *)
(* transform takes more samples than its frame holds: 256 on the narrow      *)
(* path, a block on the wide one.                                            *)
FrameFits ==
    loop.at = "push" => IF loop.wide THEN loop.n <= Chunk ELSE loop.n <= AP_NARROW_FFT_N

(* As long as no change of the span has met a block in work, the waterfall   *)
(* shows the spectra in the order they were computed and, once it has begun, *)
(* without a gap, through every change between two blocks, every turn of the *)
(* stream and a queue that overflowed before anybody listened.               *)
Neighbours(k, l) ==
    /\ k < l /\ shown[k].fresh /\ shown[l].fresh
    /\ \A m \in k + 1 .. l - 1 : ~shown[m].fresh
ShownInOrder ==
    cut \/ \A k, l \in DOMAIN shown :
              Neighbours(k, l) => shown[l].spec.no = shown[k].spec.no + 1

(* With the same exception, a spectrum from the queue is drawn over the span *)
(* it was computed for: its bins times their width are that span, or half of *)
(* it for audio.                                                             *)
Span(spec) == (spec.fs * AP_WIDE_FFT_N) \div (IF spec.real THEN 2 ELSE 1)
FreshFitsAxis ==
    cut \/ \A k \in DOMAIN shown :
              shown[k].fresh => shown[k].axis = Span(shown[k].spec)

(* With the same exception, a block that made a spectrum shows no old one    *)
(* again.                                                                    *)
LatestOnlyForNothing ==
    cut \/ (loop.at = "show" => made < loop.first)

=============================================================================
