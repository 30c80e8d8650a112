SPECIFICATION LinksSpec
CONSTANTS
    RC_QUEUE = 3
    RC_BACKLOG = 2
    KY_CHUNK = 1
    Speeds = {1, 2}
    MaxIssued = 3
    MaxChanges = 2
    LinkDrops = FALSE
    ReliableCat = TRUE
    Decoders = {d1}
    d1 = d1
    RETRY_QUEUE_MAX = 2
    MaxSpots = 3
    OneThread = TRUE
    LossySend = TRUE
INVARIANTS TciSpeedCurrent SpotsAccounted
PROPERTIES RadioServed SubmittedIsSent
CHECK_DEADLOCK FALSE
