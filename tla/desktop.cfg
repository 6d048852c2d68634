SPECIFICATION FairSpec
CONSTANTS
    Clients <- ThreeClients
    Nobody = "nobody"
    Server = "server"
    Script = "script"
    Me = "launcher"
    Texts <- SomeTexts
    Opens = "mirv_vr_pipe 1"
    Closes = "mirv_vr_pipe 0"
    Blank = ""
    Overlong = "overlong"
    QueueLimit = 2
    Tries = 2
    MaxLines = 3
    Commands <- SomeCommands
INVARIANTS
    ClosedIsClosed
    LaunchIsWhole
CHECK_DEADLOCK FALSE
PROPERTIES
    KeepsTheOrder
    StoppedThreadEnds
    ClientsAreServed
    NothingQueuedIsLost

