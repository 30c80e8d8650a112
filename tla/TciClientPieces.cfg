SPECIFICATION Spec
CONSTANTS
    Transports = {"ws"}
    StartModes = {"iq"}
    FrameLen = 2
    MaxFrames = 2
    RecvMax = 2
    StageMax = 5
    RingSize = 3
    Room = 2
    Need = 2
    MaxChunks = 2
    MaxSwitches = 0
PROPERTY IncompleteKept
CHECK_DEADLOCK FALSE
