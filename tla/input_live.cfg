SPECIFICATION FairSpec
CONSTANTS
    LowLatency = TRUE
    PointerPosts = TRUE
    FocusMayBeLost = FALSE
    SessionMayLeave = TRUE
    RuntimeMayFail = FALSE
    MenuButtonUsed = TRUE
    WalkKeys <- OneWalk
    ButtonKeys <- OneButton
    TapKey = "ESCAPE"
    KeyCap = 8
    TapCap = 2
    MaxAhead = 1
    Maps <- MenuAndGame
INVARIANTS
    ButtonHasItsLatch
PROPERTIES
    ViewerIsNotStuck
