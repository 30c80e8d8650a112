SPECIFICATION WindowsSpec
CONSTANTS
    Units = {1, 2}
    MaxMarks = 3
    MaxButtons = 1
    SeedUnit = 2
    UncalLetter = 3
    UncalWord = 4
    Quiet = 6
    MaxOpen = 2
    MaxScroll = 4
    Columns = {0, 1, 8}
    LongMark = 2
    SeedWidth = 1
    MaskElement = 4
    MaskLetter = 5
    MaskWord = 7
    LongPulse = 4
    MinPulse = 2
    MaxPending = 2
    WordDits = 5
    kMaxScrollChars = 3
    LongMask = 4
    Spans = {2, 4}
    FirstSpan = 2
    Histories = {0, 3}
    Files <- TwoFiles
    MaxPerTick = 2
    kMaxCaptureSamples = 3
    MaxSamples = 6
    MaxAsks = 3
    MaxStart = 2
    MaxWall = 5
INVARIANTS LettersInOrder TraceWhole
PROPERTIES MarksShown LastShown FrozenStays PlaybackEnds
CHECK_DEADLOCK FALSE
