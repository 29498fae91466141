CONSTANTS
    Agents = {a1, a2}
    Namespaces = {n1, n2}
    Names = {x}
    Legacy = Legacy
    InitialClusters <- MCAllServers
    PollInterval = 1
    ListTimeout = 2
    PolicyMaxAge = 1
    ApiLatency = 1
    MaxTime = 1
    MaxEdits = 0
    MaxAgents = 1
    Burst = 1
    Token = 1
    IdleTTL = 2
    Requests = {r1, r2}
    NoCredential = NoCredential
    BadPath = BadPath
    NoBackend = NoBackend
    BackendStatuses = {200, 302}
    MaxReviews = 1
    MaxServerLabels = 1
    MaxAgentLabels = 1
SYMMETRY RequestSymmetry
SPECIFICATION Spec
INVARIANTS FreshAuthentication ReviewSlotsConserved Accounting LabelStability
CHECK_DEADLOCK FALSE
