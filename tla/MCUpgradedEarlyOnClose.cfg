SPECIFICATION Spec
CONSTANTS
    u1 = u1
    u2 = u2
    l1 = l1
    l2 = l2
    NULL = NULL
    Ups = {u1}
    Loops = {l1}
    Owner <- OneLoop
    Proto <- AllWs
    Callers = {c1}
    Evals = {e1}
    Ops = {"close"}
    Hooks = {"on_close", "on_message"}
    MaxPending = 0
    MaxCalls = 1
    MaxReads = 1
    Faults = {"ping"}
INVARIANTS OnCloseAfterClosed
CHECK_DEADLOCK FALSE
