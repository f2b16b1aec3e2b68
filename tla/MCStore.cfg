CONSTANTS
    SegmentBound = 2
    FeedDepth = 3
    HighWatermark = 3
    ChunkSizes = {1, 2}
    MaxSeq = 5
    MaxStarts = 2
    Allowed = {"crash", "close", "exit"}
SPECIFICATION Safety
INVARIANTS
    StoredOutputIsInPlace
    EveryByteIsOnItsWay
    
CHECK_DEADLOCK FALSE
