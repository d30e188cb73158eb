SPECIFICATION Spec
CONSTANTS
    Cap = 3
    MinChunk = 2
    MaxChunk = 8
    MaxChunksBefore = 4
    MaxPings = 3
    MaxUpload = 3
INVARIANTS
    UploadReported
CHECK_DEADLOCK FALSE
