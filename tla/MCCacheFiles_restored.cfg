SPECIFICATION Spec
CONSTANTS
    Changes = {c1, c2}
    Operations = {"send", "message"}
    Flushers = {f1}
    MaxKills = 1
INVARIANTS
    CacheIsRestored
CHECK_DEADLOCK FALSE
