CONSTANTS
    Capacity = 2
    LeaseBuffer = 2
    LowWatermark = 1
    AckOnAttach = TRUE
    Cursors = {0}
    Allowed = {"die"}
    Tokens = {t1}
    Readers = {r1, r2}
    ChunkSizes = {1, 2}
    RestoredThrough = {0}
    RestoredSizes = {0}
    MaxSeq = 3
SPECIFICATION FlowSafety
SYMMETRY Symmetric
INVARIANTS
    RendererMarkIsExact
    WaitingPumpHasAReason
    PumpHoldsForTheRenderer
CHECK_DEADLOCK FALSE
