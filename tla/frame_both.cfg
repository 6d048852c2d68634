SPECIFICATION Spec
CONSTANTS
    FrameRing = 3
    MaxAhead = 1
    Arrangements = {TRUE, FALSE}
    PanelEnabled = TRUE
    StopTimesOut = FALSE
    PassesMayBeLost = FALSE
    Offered <- AnyDecision
    MaxSerial = 2
    MaxBegins = 1
INVARIANTS
    TypeOK
    PosesBelongToTheImages
    LayersAreReleased
    EndsAtItsOwnTime
PROPERTIES
    ShowsOneDecision
CHECK_DEADLOCK FALSE
