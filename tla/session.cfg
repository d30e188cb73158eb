SPECIFICATION FairSpec
CONSTANTS
    Cap = 3
    MinChunk = 2
    MaxChunk = 8
    MaxChunksBefore = 4
    MaxPings = 3
    MaxUpload = 3
INVARIANTS
    TypeOK
    HalfDuplex
    NoStandoff
    QuietBetweenPhases
    ChunkSizesAgree
    LinesGoWhole
    EveryChunkCounted
PROPERTIES
    SessionCompletes
CHECK_DEADLOCK FALSE
