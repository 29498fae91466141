CONSTANTS
    Agents = {a1}
    Namespaces = {n1}
    Names = {x}
    Legacy = Legacy
    InitialClusters <- MCInitialClusters
    PollInterval = 2
    ListTimeout = 4
    PolicyMaxAge = 6
    ApiLatency = 3
    MaxTime = 14
    MaxEdits = 2
SPECIFICATION TimelySpec
INVARIANT FreshWhenHealthy
CHECK_DEADLOCK FALSE
