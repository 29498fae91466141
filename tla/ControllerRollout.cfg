CONSTANTS
    Specs = {s1, s2}
    Foreign = Foreign
    Absent = Absent
    MaxEdits = 2
    MaxErrors = 0
SPECIFICATION MCServerEditsSpec
INVARIANT ReadyEarnedThisGeneration
CHECK_DEADLOCK FALSE
