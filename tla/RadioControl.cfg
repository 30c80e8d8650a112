SPECIFICATION Spec
CONSTANTS
    RC_QUEUE = 2
    RC_BACKLOG = 2
    KY_CHUNK = 1
    Speeds = {1, 2}
    MaxIssued = 3
    MaxChanges = 2
    LinkDrops = TRUE
    ReliableCat = FALSE
INVARIANT KySocket
PROPERTY CommandsInOrder
