SPECIFICATION FairSpec
CONSTANTS
    Methods = {"hand", "stick"}
    Delays = {1, 3}
    Worths = {1, 2, 4}
    Directions <- FarAndLevel
    Throws <- SomeThrows
    Reach = 8
    MaxCalls = 8
    MaxWait = 4
    MaxCounts = 5
    Tolerance = 4
    Deadband = 2
    Deadzone = 3
    Snap = 4
    Beat = 1
    MaxDisturbances = 2
INVARIANTS
    KnowsWhatIsUnderWay
    NeverWorseNorPast
PROPERTIES
    BackInTheCone
    AimComesToTheHand
CHECK_DEADLOCK FALSE
