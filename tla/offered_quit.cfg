SPECIFICATION Spec
CONSTANTS
    Cap = 3
    MinChunk = 2
    MaxChunk = 5
    Servers = {"mio"}
    Sizes = {3, 4, 5}
    MaxCommands = 1
    WithQuit = {"mio"}
INVARIANTS
    OfferedIsTaken
CHECK_DEADLOCK FALSE
