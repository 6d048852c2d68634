SPECIFICATION Spec
CONSTANTS
    LowLatency = TRUE
    PointerPosts = FALSE
    FocusMayBeLost = TRUE
    SessionMayLeave = TRUE
    RuntimeMayFail = TRUE
    MenuButtonUsed = TRUE
    WalkKeys <- OneWalk
    ButtonKeys <- OneButton
    TapKey = "ESCAPE"
    KeyCap = 9
    TapCap = 2
    MaxAhead = 1
    Maps <- AnyMap
INVARIANTS
    NoKeyIsStuck
    LeftModesHoldNothing
