SPECIFICATION FairSpec
CONSTANTS
    LowLatency = FALSE
    PointerPosts = TRUE
    FocusMayBeLost = FALSE
    SessionMayLeave = TRUE
    RuntimeMayFail = FALSE
    MenuButtonUsed = FALSE
    WalkKeys <- NoWalk
    ButtonKeys <- OneButton
    TapKey = "ESCAPE"
    KeyCap = 8
    TapCap = 0
    MaxAhead = 1
    Maps <- OnlyGame
PROPERTIES
    LatchesAreLetGoOverAWorld
