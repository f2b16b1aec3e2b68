SPECIFICATION Safety
CONSTANTS
    r1 = r1
    r2 = r2
    TtyDefaults <- MCDefaults
    Resizers = {r1, r2}
    Sizes = {1, 2}
    Values = {1}
    ShellPaths <- OneWord
    MaxStarts = 2
    MaxWrites = 3
    MaxEvents = 2
    Allowed = {"crash", "power", "stop", "close", "fail"}
CHECK_DEADLOCK FALSE
INVARIANTS
    NoLostUpdate
    SizesAgreeAtRest
    StopMarkIsDurable
    EnvironmentIsTheReference
