SPECIFICATION FairSpec
CONSTANTS
    Cap = 3
    MinChunk = 2
    MaxChunk = 5
    Servers = {"mio", "tokio"}
    Sizes = {2, 3, 5}
    MaxCommands = 3
    WithQuit = {"tokio"}
INVARIANTS
    TypeOK
    CleanSlate
    OwnClock
    NoStandoff
    NeverErr
PROPERTIES
    Answered
CHECK_DEADLOCK FALSE
