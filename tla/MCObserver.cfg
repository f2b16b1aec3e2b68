CONSTANTS
    ObserverBuffer = 2
    RingCapacity = 2
    ChunkSizes = {1, 2}
    MaxSeq = 4
    MaxEvents = 4
    Allowed = {"prepare", "observe", "resize", "die", "restart"}
SPECIFICATION Spec
INVARIANTS
    EveryByteIsAccountedFor
    EventsAdvance
    QueueHoldsItsBudget
    WaitingHandlerHasNothing
PROPERTIES
    EndReachesTheObserver
    DeadPreparedPeerLetsGo
CHECK_DEADLOCK FALSE
