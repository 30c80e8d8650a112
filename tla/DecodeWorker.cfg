SPECIFICATION WorkersSpec
CONSTANTS
    Threads = {t1, t2}
    Callers = {c1}
    Nobody = Nobody
    DEPTH = 2
    MaxChunk = 4
    SteadyCarrier = FALSE
INVARIANTS IInv WorkerSafe
PROPERTIES WorkersFifo CallsReturn EveryChunkServed
