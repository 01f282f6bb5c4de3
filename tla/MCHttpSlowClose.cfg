SPECIFICATION Spec
CONSTANTS
    Cons = {a, b}
    MaxReq = 1
    MaxHints = 0
    TextLen = 1
    Kinds = {"eval"}
    Closes = {FALSE}
    Faults = {"hangup", "raise"}
INVARIANTS WireInOrder
CHECK_DEADLOCK FALSE
