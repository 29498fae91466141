CONSTANTS
    Agents = {a1, a2, a3}
    Callers = {c1, c2}
    Idle = Idle
    MaxAgents = 2
    Burst = 3
    Token = 2
    IdleTTL = 5
    MaxDelay = 1
    MaxTime = 5
SYMMETRY Symmetry
SPECIFICATION Spec
INVARIANTS TypeOK CapacityBound RateBound
PROPERTIES ThrottleJustified EvictsIdleUpToDelay
CHECK_DEADLOCK FALSE
