SPECIFICATION FairSpec
CONSTANTS
    Kinds = {"tcp", "tls", "ws", "wss"}
    Script <- MCScript
    Rooms = {1, 2, 3, 4, 5}
    Limit = 2
INVARIANTS
    TypeOK
    InOrder
    ToldIsSent
    NeverReset
    NothingKept
PROPERTIES
    BytesInOrder
    DialogueEnds
CHECK_DEADLOCK FALSE
