CONSTANTS
    Specs = {s1, s2}
    Foreign = Foreign
    Absent = Absent
    MaxEdits = 2
    MaxErrors = 1
SPECIFICATION MCLiveSpec
PROPERTIES Converges Quiesces
CHECK_DEADLOCK FALSE
