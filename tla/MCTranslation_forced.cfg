SPECIFICATION Spec
CONSTANTS
    English = "en"
    Spanish = "es"
    NoLanguage = "none"
    Others = {"pt"}
    Window = 2
    MinForeign = 2
    Arrivals <- MixedChat
    Workers = {w1, w2}
    Loop = Loop
    AsTyped = "typed"
    Uses <- JustForce
    MaxMessages = 3
INVARIANT ForcedStands
CHECK_DEADLOCK FALSE
