SPECIFICATION FairSpec
CONSTANTS
    Channels = {w1, w2}
    w1 = w1
    w2 = w2
    MaxClicks = 3
    Playback = TRUE
    SpotEnabled = TRUE
    Callbacks = TRUE
INVARIANTS IInv SessionSafe
PROPERTIES StopIsFinal Ends
CHECK_DEADLOCK FALSE
