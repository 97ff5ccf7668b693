SPECIFICATION Spec
CONSTANTS
    Changes = {c1, c2}
    Operations = {"send", "message"}
    Flushers = {f1}
    MaxKills = 0
INVARIANTS
    SentStaysOnDisk
CHECK_DEADLOCK FALSE
