SPECIFICATION FairSpec
CONSTANTS
    LowLatency = TRUE
    DebounceMs = 3
    FrameMs <- Steps
    Maps <- AnyMap
PROPERTIES
    AlignsOnceThereIsACamera
