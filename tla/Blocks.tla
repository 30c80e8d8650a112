-------------------------------- MODULE Blocks --------------------------------
(* What the detection loop does with a block of samples besides decoding it:  *)
(* it goes into the pre-trigger ring of the capture, and through the audio    *)
(* processor to the waterfall.  The two share nothing but the block, so which *)
(* one a behaviour is about is chosen at its beginning.                       *)
EXTENDS IqCapture, Integers

CONSTANTS SampleRate, Narrow, Chunk, AP_WIDE_FFT_N, AP_NARROW_FFT_N,
          AP_NARROW_RING, AP_MAX_PENDING_SPEC, MaxPathBlocks, MaxChanges

VARIABLES part,
          proc, loop, setter, audio, cb, blocks, changes, cut, made, columns

capture == vars
path    == <<proc, loop, setter, audio, cb, blocks, changes, cut, made, columns>>

Path == INSTANCE SamplePath WITH shown <- columns, MaxBlocks <- MaxPathBlocks

ASSUME BlocksAssumption == Path!PathAssumption

\* the part a behaviour is not about has one initial state
BlocksInit == /\ part \in {"capture", "path"} /\ Init /\ Path!Init
              /\ part = "capture" => proc.span = SampleRate /\ ~audio /\ ~cb

BlocksNext ==
    \/ part = "capture" /\ Next /\ UNCHANGED <<part, path>>
    \/ part = "path" /\ Path!Next /\ UNCHANGED <<part, capture>>

BlocksSpec == BlocksInit /\ [][BlocksNext]_<<part, capture, path>>

-------------------------------------------------------------------------------
(* As long as no change of the span has met a block in work, the waterfall    *)
(* gets the spectra in the order they were computed and without a gap, and a  *)
(* block that made a spectrum shows no old one again.                         *)
ShownInOrder == Path!TypeOK /\ Path!ShownInOrder /\ Path!LatestOnlyForNothing

(* With the same exception a spectrum from the queue is drawn over the span   *)
(* it was computed for; and whatever the span becomes meanwhile, no transform *)
(* takes more samples than its frame holds.                                   *)
FreshFitsAxis == Path!FrameFits /\ Path!FreshFitsAxis
===============================================================================
