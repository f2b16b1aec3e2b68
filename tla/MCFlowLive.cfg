CONSTANTS
    Capacity = 2
    LeaseBuffer = 3
    LowWatermark = 1
    AckOnAttach = TRUE
    Cursors = {1}
    Allowed = {"die"}
    Tokens = {}
    Readers = {r1, r2}
    ChunkSizes = {2}
    RestoredThrough = {0}
    RestoredSizes = {0}
    MaxSeq = 4
SPECIFICATION FlowSpec
PROPERTY PausedPumpResumes
CHECK_DEADLOCK FALSE
