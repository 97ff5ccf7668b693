SPECIFICATION FairSpec
CONSTANTS
    English = "en"
    Spanish = "es"
    NoLanguage = "none"
    Others = {"pt"}
    Window = 2
    MinForeign = 2
    Arrivals <- MixedChat
    Workers = {w1, w2}
    Loop = Loop
    AsTyped = "typed"
    Uses <- ReadForceSend
    MaxMessages = 3
INVARIANTS
    TypeOK
    ForcedKept
    TargetHasGrounds
PROPERTIES
    ForeignIsTold
CHECK_DEADLOCK FALSE
