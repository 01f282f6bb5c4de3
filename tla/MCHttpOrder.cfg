SPECIFICATION FairSpec
CONSTANTS
    Cons = {a, b}
    MaxReq = 2
    MaxHints = 0
    TextLen = 2
    Kinds = {"eval", "page"}
    Closes = {FALSE}
    Faults = {"error", "hangup"}
INVARIANTS EvalOwnsRes PlacedOnce WireInOrder
PROPERTIES DeadIsRemoved
CHECK_DEADLOCK FALSE
