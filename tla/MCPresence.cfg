CONSTANTS
    Renderers = {r1, r2}
    Observers = {o1}
    Window = 2
    MaxOutputs = 2
    Allowed = {"renderer", "prepare", "observe", "adopt", "die", "leave"}
SPECIFICATION Spec
PROPERTIES
    SweepSparesTheShown
    
CHECK_DEADLOCK FALSE
