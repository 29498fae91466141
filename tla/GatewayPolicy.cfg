CONSTANTS
    Agents = {a1}
    Namespaces = {n1, n2}
    Names = {x}
    Legacy = Legacy
    InitialClusters <- MCOneServer
    PollInterval = 2
    ListTimeout = 2
    PolicyMaxAge = 1
    ApiLatency = 1
    MaxTime = 2
    MaxEdits = 2
    MaxAgents = 1
    Burst = 1
    Token = 1
    IdleTTL = 2
    Requests = {r1}
    NoCredential = NoCredential
    BadPath = BadPath
    NoBackend = NoBackend
    BackendStatuses = {200}
    MaxReviews = 1
    MaxServerLabels = 1
    MaxAgentLabels = 1
SPECIFICATION Spec
INVARIANTS TypeOK JustifiedForward
PROPERTY ImplementsContract
CHECK_DEADLOCK FALSE
