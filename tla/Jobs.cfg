CONSTANTS
    Jobs = {j1, j2}
    NoJob = NoJob
    Limit = 1
    Waiters = {w1}
    WakeBudget = 1
    Teardowns = {"owner", "service"}
SPECIFICATION FairSpec
INVARIANTS
    TypeOK
    QuotaKept
    CompletionKnown
    WakesBounded
    DrainedStore
PROPERTIES
    TeardownsEnd
CHECK_DEADLOCK FALSE
