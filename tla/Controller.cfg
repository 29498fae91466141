CONSTANTS
    Specs = {s1, s2}
    Foreign = Foreign
    Absent = Absent
    MaxEdits = 2
    MaxErrors = 2
SYMMETRY SpecSymmetry
SPECIFICATION MCEstablishedSpec
INVARIANTS TypeOK ReadyWasEarned
PROPERTIES OwnershipRespected LifecycleRespected
CHECK_DEADLOCK FALSE
