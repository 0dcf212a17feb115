CONSTANTS
    outer = outer
    inner = inner
    Children = {outer, inner}
    Root = Root
    Parent <- Chain
    Callers = {k1, k2}
    NoCaller = NoCaller
    MaxDeliveries = 3
    MaxOthers = 0
SPECIFICATION Spec
INVARIANTS
    SettlesAtRest
CHECK_DEADLOCK FALSE
