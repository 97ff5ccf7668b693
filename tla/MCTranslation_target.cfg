SPECIFICATION Spec
CONSTANTS
    English = "en"
    Spanish = "es"
    NoLanguage = "none"
    Others = {"pt"}
    Window = 2
    MinForeign = 2
    Arrivals <- PlainChat
    Workers = {w1, w2}
    Loop = Loop
    AsTyped = "typed"
    Uses <- JustSend
    MaxMessages = 7
INVARIANT TargetIsNamed
CHECK_DEADLOCK FALSE
