SPECIFICATION Spec
CONSTANTS
    Channels = {w1}
    w1 = w1
    MaxClicks = 3
    Playback = FALSE
    SpotEnabled = FALSE
    Callbacks = TRUE
INVARIANTS NoLockCycle
CHECK_DEADLOCK FALSE
