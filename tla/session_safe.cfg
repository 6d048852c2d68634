SPECIFICATION FairSpec
CONSTANTS
    MenuFrames = 1
    MaxAttempts = 2
    RetryTime = 1
    ChainCount = 2
    Sizes <- OneSize
    Backlog = 1
    MaxInstances = 1
    MaxSessions = 2
    MaxRearms = 1
INVARIANTS
    HandlesAreOfTheSession
    BegunOnBothSides
    SwapchainsAreKnown
    TriesWhileItShould
    FirstSessionHasItsControllers
PROPERTIES
    AutoStartSettles
    ReadyIsAnswered
