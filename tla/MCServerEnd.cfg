SPECIFICATION Spec
CONSTANTS
    l1 = l1
    l2 = l2
    e1 = e1
    e2 = e2
    Loops = {l1, l2}
    First = l1
    Evals = {e1, e2}
    Pools <- AllPools
    Main = Main
    Listener = Listener
    NULL = NULL
    MaxCons = 1
    MaxReq = 2
    MaxPub = 1
    EvalSize = 1
    PubSize = 1
    EndSets <- AllEnds
    Slow = FALSE
INVARIANTS RunningCounts NothingWild
CHECK_DEADLOCK FALSE
