SPECIFICATION Spec
CONSTANTS
    Threads = {t1, t2}
    Callers = {c1}
    Nobody = Nobody
    DEPTH = 2
    MaxChunk = 2
    SteadyCarrier = TRUE
INVARIANT OneDecoderThread
CHECK_DEADLOCK FALSE
