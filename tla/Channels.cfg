SPECIFICATION ChannelsSpec
CONSTANTS
    Tones = {0, 1}
    Reach = 1
    Bucket = 0
    Channels = {1, 2}
    Depth = 1
    MaxCands = 2
    Blocks = 2
    MAX_DECODE_CHANNELS = 2
    MAX_SIGNALS = 2
    NumBins = 11
    DcGuard = 0
    LowGuard = 0
    Spectra <- AllSpectra
    SearchRange = 2
    SearchMin = 1
    NoiseBins = 2
    Modes <- AllModes
    Buckets = {1, 3}
    MinSnr = 2
    WorstSnr = 1
    NoPeakSnr = 3
    RateRatio = 1
    TIMEOUT = 0
    kMaxChannels = 3
    kSlotHz = 6
    kFollowHz = 1
    kSwitchMarginDb = 1
    kMinSnrDb = 2
    Columns <- AllColumns
    MaxLetters = 1
    MaxShown = 3
    Kept = 2
    Copies <- OneCopy
    MaxFed = 3
    MaxAsks = 2
INVARIANTS VerdictOfTexts StationsServed
PROPERTIES ChannelsFreed EveryReplayEnds SlicesFollow DeepcwCatchesUp
CHECK_DEADLOCK FALSE
