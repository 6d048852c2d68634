SPECIFICATION Spec
CONSTANTS
    LowLatency = FALSE
    DebounceMs = 3
    FrameMs <- Steps
    Maps <- AnyMap
INVARIANTS
    FreeLookIsRestored
PROPERTIES
    CursorMovesOnceSteady
    RaisedOncePerModal
