CONSTANTS
    Agents = {a1}
    Namespaces = {n1}
    Names = {x}
    Legacy = Legacy
    InitialClusters <- MCAllServers
    PollInterval = 1
    ListTimeout = 2
    PolicyMaxAge = 1
    ApiLatency = 1
    MaxTime = 0
    MaxEdits = 0
    MaxAgents = 1
    Burst = 1
    Token = 1
    IdleTTL = 2
    Requests = {r1}
    NoCredential = NoCredential
    BadPath = BadPath
    NoBackend = NoBackend
    BackendStatuses = {200}
    MaxReviews = 1
    MaxServerLabels = 1
    MaxAgentLabels = 1
SPECIFICATION Spec
PROPERTY VerifiedIsMetered
CHECK_DEADLOCK FALSE
