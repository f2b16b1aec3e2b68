CONSTANTS
    Capacity = 2
    LeaseBuffer = 3
    LowWatermark = 1
    AckOnAttach = TRUE
    Cursors = {3}
    Allowed = {"die", "detach", "seek", "miscount", "close", "exit"}
    Tokens = {}
    Readers = {r1}
    ChunkSizes = {1, 2}
    RestoredThrough = {0}
    RestoredSizes = {0}
    MaxSeq = 3
SPECIFICATION FlowSpec
PROPERTY ReapReleasesEveryone
CHECK_DEADLOCK FALSE
