SPECIFICATION FairSpec
CONSTANTS
    u1 = u1
    u2 = u2
    l1 = l1
    l2 = l2
    NULL = NULL
    Ups = {u1}
    Loops = {l1}
    Owner <- OneLoop
    Proto <- AllWs
    Callers = {c1}
    Evals = {e1}
    Ops = {"write"}
    Hooks = {"on_close"}
    MaxPending = 0
    MaxCalls = 1
    MaxReads = 0
    Faults = {"early"}
PROPERTIES OnCloseCalled
CHECK_DEADLOCK FALSE
