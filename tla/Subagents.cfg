CONSTANTS
    outer = outer
    inner = inner
    Children = {outer, inner}
    Root = Root
    Parent <- Chain
    Callers = {k1, k2}
    NoCaller = NoCaller
    MaxDeliveries = 3
    MaxOthers = 1
SPECIFICATION FairSpec
INVARIANTS
    ParentOutlivesChild
    NoticeBeforeSettlement
    SettlesQuiet
    ResumesIntoNone
    DrainedForest
PROPERTIES
    Released
CHECK_DEADLOCK FALSE
