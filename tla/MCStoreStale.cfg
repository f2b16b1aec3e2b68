CONSTANTS
    SegmentBound = 2
    FeedDepth = 2
    HighWatermark = 3
    ChunkSizes = {1}
    MaxSeq = 4
    MaxStarts = 1
    Allowed = {"stop"}
SPECIFICATION Safety
INVARIANT StoredOutputIsInPlace
CHECK_DEADLOCK FALSE
