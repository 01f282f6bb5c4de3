SPECIFICATION Spec
CONSTANTS
    Writers = {w1}
    Size = 3
    MaxSize = 4
    MaxFiles = 1
    MaxLog = 1
    Ops = {"shutdown"}
INVARIANTS ShutdownLosesNothing
CHECK_DEADLOCK FALSE
