CONSTANTS
    p1 = p1
    p2 = p2
    Last = o2
    Wants <- AnyPane
    Openers = {o1, o2}
    Closers = {c1}
    Seeds = {0}
    MaxId = 3
    MaxShells = 2
    MaxStarts = 2
    MaxEvents = 2
    Allowed = {"crash", "stop", "close", "window", "sweep", "exit", "early", "fail"}
SPECIFICATION Spec
INVARIANTS
    NoOrphanShell
    EndedStaysEnded
    StopIsNotAClose
    LostMeansGone
    OneShellPerPane
PROPERTIES
    TakenShellsEnd
CHECK_DEADLOCK FALSE
