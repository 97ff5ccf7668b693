SPECIFICATION FairSpec
CONSTANTS
    Changes = {c1, c2}
    Operations = {"receipt", "reaction", "message", "setting"}
    Flushers = {f1}
    MaxKills = 1
INVARIANTS
    RefreshWillSave
PROPERTIES
    PushReachesScreen
CHECK_DEADLOCK FALSE
