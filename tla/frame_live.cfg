SPECIFICATION FairSpec
CONSTANTS
    FrameRing = 1
    MaxAhead = 2
    Arrangements = {TRUE, FALSE}
    PanelEnabled = FALSE
    StopTimesOut = TRUE
    PassesMayBeLost = FALSE
    Offered <- SheetsPlaced
    MaxSerial = 2
    MaxBegins = 1
PROPERTIES
    ShowsOneDecision
    OpenFramesAreEnded
CHECK_DEADLOCK FALSE
