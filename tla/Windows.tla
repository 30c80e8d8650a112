-------------------------------- MODULE Windows --------------------------------
(* The windows of the GUI that listen to the clicked signal: the signal       *)
(* trace, and the two Morse decoders, of which m_morseBackend names the one   *)
(* that gets the columns.  They share nothing but the columns, so which of    *)
(* them a behaviour is about is chosen at its beginning.                      *)
EXTENDS SignalTrace

CONSTANTS Units, MaxMarks, MaxButtons,
          \* ThresholdMorse
          SeedUnit, UncalLetter, UncalWord, Quiet, MaxOpen, MaxScroll, Columns,
          LongMark,
          \* MaskMorse
          SeedWidth, MaskElement, MaskLetter, MaskWord, LongPulse, MinPulse,
          MaxPending, WordDits, kMaxScrollChars, LongMask

VARIABLES part,
          win, heard, buttons,        \* ThresholdMorse
          mwin, mheard, masks         \* MaskMorse

trace     == vars
threshold == <<win, heard, buttons>>
mask      == <<mwin, mheard, masks>>
all       == <<part, threshold, mask, trace>>

Threshold == INSTANCE ThresholdMorse WITH asks <- buttons, MaxAsks <- MaxButtons

Mask == INSTANCE MaskMorse WITH
    win <- mwin, heard <- mheard, asks <- masks, MaxAsks <- MaxButtons,
    SeedUnit <- SeedWidth, UncalElement <- MaskElement, UncalLetter <- MaskLetter,
    UncalWord <- MaskWord, LongMark <- LongMask

ASSUME WindowsAssumption ==
    TraceAssumption /\ Threshold!ThresholdAssumption /\ Mask!MaskAssumption

WindowsInit == /\ part \in {"threshold", "mask", "trace"}
               /\ Init /\ Threshold!Init /\ Mask!Init

WindowsNext ==
    \/ part = "threshold" /\ Threshold!Next /\ UNCHANGED <<part, mask, trace>>
    \/ part = "mask" /\ Mask!Next /\ UNCHANGED <<part, threshold, trace>>
    \/ part = "trace" /\ Next /\ UNCHANGED <<part, threshold, mask>>

(* The fairness of the modules, each asked of the behaviours about its       *)
(* window: columns arrive or time goes on, and a playback injects what is    *)
(* due.                                                                      *)
Settled == CASE part = "threshold" -> win.high \/ ~win.has \/ win.run = Threshold!Cap
             [] part = "mask"      -> mwin.high \/ ~mwin.has \/ mwin.run = Mask!Cap
             [] part = "trace"     -> wall = MaxWall
GoesOn  == \/ part = "threshold" /\ ~win'.high /\ win'.run > win.run
           \/ part = "mask" /\ ~mwin'.high /\ mwin'.run > mwin.run
           \/ part = "trace" /\ wall' > wall
Fair ==
    /\ []<>Settled \/ []<><<GoesOn>>_all
    /\ []<>(part # "trace" \/ NothingDue) \/ []<><<scope'.index > scope.index>>_scope

WindowsSpec == WindowsInit /\ [][WindowsNext]_all /\ Fair

-------------------------------------------------------------------------------
(* Both decoders show what was keyed in the order it was keyed: no mark or    *)
(* element twice, the threshold window never two spaces in a row, and in the  *)
(* mask window no letter that holds elements a letter gap apart.              *)
LettersInOrder == /\ Threshold!TypeOK /\ Threshold!MarksInOrder
                  /\ Mask!TypeOK /\ Mask!LettersApart

(* What either decoder recognised becomes text and is lost only to a request, *)
(* to the closing squelch, to noise, to a letter that is too long to be one,  *)
(* or by scrolling away.                                                      *)
MarksShown == Threshold!MarksBecomeText /\ Mask!ElementsBecomeText

(* When the key stays up, either decoder shows the last letter: it is not     *)
(* kept waiting for the next mark.                                            *)
LettersWait == Threshold!Waiting \/ Mask!Waiting
LastShown   == LettersWait ~> ~LettersWait

(* The trace gives the decoder each sample with the time it came at, and what *)
(* is recorded is every sample since the recording began, was cleared or was  *)
(* retuned, without a gap.                                                    *)
TraceWhole == TypeOK /\ FedAtItsTime /\ RecordingWhole
===============================================================================
