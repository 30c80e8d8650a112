SPECIFICATION BlocksSpec
CONSTANTS
    Cap = 2
    Batch = 2
    Depth = 3
    Centres = {"c1", "c2"}
    ConfigCentre = "conf"
    MaxBlocks = 3
    MaxStarts = 2
    MaxClicks = 1
    SampleRate = 4
    Narrow = 1
    Chunk = 8
    AP_WIDE_FFT_N = 8
    AP_NARROW_FFT_N = 4
    AP_NARROW_RING = 8
    AP_MAX_PENDING_SPEC = 3
    MaxPathBlocks = 4
    MaxChanges = 1
INVARIANTS SavedIsTheClick DisplayRight  
CHECK_DEADLOCK FALSE
