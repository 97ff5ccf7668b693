SPECIFICATION Spec
CONSTANTS
    m1 = m1
    m2 = m2
    Absent = Absent
    Messages <- OneMessage
    Saves <- FullNames
    MaxArrivals = 1
    MaxRestarts = 1
INVARIANTS
    OwnNameCleared
CHECK_DEADLOCK FALSE
