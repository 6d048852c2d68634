SPECIFICATION FairSpec
CONSTANTS
    FrameRing = 2
    MaxAhead = 1
    Arrangements = {TRUE}
    PanelEnabled = FALSE
    StopTimesOut = FALSE
    PassesMayBeLost = TRUE
    Offered <- WorldDecision
    MaxSerial = 3
    MaxBegins = 1
INVARIANTS
    BeginHasItsWait
    TicketsAreFound
PROPERTIES
    EngineLeavesTheWait
CHECK_DEADLOCK FALSE
