CONSTANTS
    Agents = {a1}
    Namespaces = {n1, n2}
    Names = {x}
    Legacy = Legacy
    InitialClusters <- MCInitialClusters
    PollInterval = 1
    ListTimeout = 2
    PolicyMaxAge = 3
    ApiLatency = 1
    MaxTime = 4
    MaxEdits = 2
SPECIFICATION RegistrySpec
INVARIANTS RegistryTypeOK SnapshotIsReal
CHECK_DEADLOCK FALSE
