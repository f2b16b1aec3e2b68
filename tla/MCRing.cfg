CONSTANTS
    Capacity = 3
    LeaseBuffer = 4
    Tokens = {t1, t2}
    Readers = {r1, r2}
    ChunkSizes = {1, 3}
    RestoredThrough = {0, 2}
    RestoredSizes = {0, 4}
    MaxSeq = 8
SPECIFICATION Spec
SYMMETRY Symmetric
INVARIANTS
    TypeOK
    BytesKeepTheirCoordinate
    HeldLeaseIsRetained
    RetentionIsBounded
    ParkedReaderHasNothingToRead
    CursorIsWhatWasDrawn
    TrimOrderIsIrrelevant
PROPERTIES
    RingIsAnOutput
CHECK_DEADLOCK FALSE
