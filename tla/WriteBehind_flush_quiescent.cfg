CONSTANTS
    SeedEvents = 0
    MaxEvents = 1
    MaxAppenders = 1
    Callers = {c1}
    MaxFlushes = 1
    Writes = {w1, w2}
    NoWrite = NoWrite
    MaxFailures = 1
SPECIFICATION Spec
INVARIANTS
    FlushIsQuiescent
CHECK_DEADLOCK FALSE
