SPECIFICATION Spec
CONSTANTS
    Cons = {a}
    MaxReq = 2
    MaxHints = 0
    TextLen = 1
    Kinds = {"eval"}
    Closes = {FALSE}
    Faults = {"late"}
INVARIANTS WireInOrder
CHECK_DEADLOCK FALSE
