SPECIFICATION Spec
CONSTANTS
    u1 = u1
    u2 = u2
    l1 = l1
    l2 = l2
    NULL = NULL
    Ups = {u1}
    Loops = {l1, l2}
    Owner <- OneLoop
    Proto <- AllWs
    Callers = {c1, c2}
    Evals = {e1}
    Ops = {"write", "close", "open", "subscribe", "unsubscribe", "publish", "env"}
    Hooks = {"on_close"}
    MaxPending = 1
    MaxCalls = 3
    MaxReads = 1
    Faults = {"early", "hangup", "error", "raise", "ping"}
INVARIANTS RefsCover PendingHonest WireAsCalled
CHECK_DEADLOCK FALSE
