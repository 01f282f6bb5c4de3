SPECIFICATION FairSpec
CONSTANTS
    u1 = u1
    u2 = u2
    l1 = l1
    l2 = l2
    NULL = NULL
    Ups = {u1}
    Loops = {l1}
    Owner <- OneLoop
    Proto <- AllWs
    Callers = {c1, c2}
    Evals = {e1, e2}
    Ops = {"write", "close"}
    Hooks = {"on_message", "on_close", "on_drained", "on_error"}
    MaxPending = 0
    MaxCalls = 2
    MaxReads = 1
    Faults = {"hangup", "error", "quiet"}
INVARIANTS RefsExact NothingWild
PROPERTIES Reclaimed OnCloseCalled CloseCloses WritesSent
CHECK_DEADLOCK FALSE
