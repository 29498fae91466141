SPECIFICATION MCSpec
CONSTANTS
    Default <- MCDefault
    Limit <- MCLimit
    Configs <- MCConfigs
    FlagSets <- MCFlagSets
    Addresses = {0, 1, 2}
    Statuses = {429}
    CallTimes = {1}
    MaxFaults = 2
INVARIANTS
    DemoTypeOK
    ProgressIsOwn
    StatusIsOwn
    BackendAgrees
    ReportMatchesBackend
    PlanIsSound
    PercentilesAreNearestRank
    IsolationIsEarned
PROPERTY
    Terminates
CHECK_DEADLOCK FALSE
