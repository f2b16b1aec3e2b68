CONSTANTS
    Sessions = {2}
    Pids = {4, 5}
    Fds = {1}
    Streams = {o1}
    EventBuffer = 2
    MaxMoves = 2
    MaxFailures = 1
    Allowed = {"exec", "front", "shell", "end", "die"}
SPECIFICATION Spec
INVARIANTS
    StreamFollowsTheLedger
    NoGhostsAtRest
    DescendantsAreTheAncestry
PROPERTIES
    EndedSessionsLeave
CHECK_DEADLOCK FALSE
