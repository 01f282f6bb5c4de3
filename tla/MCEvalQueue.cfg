SPECIFICATION Spec
CONSTANTS
    Producers = {p1, p2}
    Consumers = {c1, c2}
    Loops = {}
    Size = 4
    MultiPush = TRUE
    MultiPop = TRUE
    PollCount = 1
    MaxPush = 2
    NULL = NULL
INVARIANTS WriteIsSafe TakeIsSafe Inductive
PROPERTIES ImplementsFifo
