SPECIFICATION Spec
CONSTANTS
    Transports = {"tcp", "ws", "training"}
    StartModes = {"iq"}
    FrameLen = 2
    MaxFrames = 2
    RecvMax = 2
    StageMax = 5
    RingSize = 3
    Room = 2
    Need = 2
    MaxChunks = 2
    MaxSwitches = 1
INVARIANTS InOrder TrainingComplete OneStream
PROPERTIES RingIsFifo SessionEnds
CHECK_DEADLOCK FALSE
