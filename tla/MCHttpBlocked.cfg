SPECIFICATION Spec
CONSTANTS
    Cons = {a}
    MaxReq = 2
    MaxHints = 0
    TextLen = 2
    Kinds = {"page"}
    Closes = {FALSE}
    Faults = {"eagain"}
INVARIANTS WireInOrder
CHECK_DEADLOCK FALSE
