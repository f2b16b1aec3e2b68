CONSTANTS
    SegmentBound = 2
    FeedDepth = 2
    HighWatermark = 3
    ChunkSizes = {2}
    MaxSeq = 3
    MaxStarts = 2
    Allowed = {"crash", "stop", "exit", "fail", "timeout"}
SPECIFICATION Spec
PROPERTIES
    FullMeansNothingIsMissing
    StopFinishes
CHECK_DEADLOCK FALSE
