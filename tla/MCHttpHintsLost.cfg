SPECIFICATION Spec
CONSTANTS
    Cons = {a}
    MaxReq = 1
    MaxHints = 1
    TextLen = 1
    Kinds = {"eval"}
    Closes = {FALSE}
    Faults = {}
INVARIANTS NoResponseLost
CHECK_DEADLOCK FALSE
