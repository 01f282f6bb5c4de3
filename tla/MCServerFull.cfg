SPECIFICATION FairSpec
CONSTANTS
    l1 = l1
    l2 = l2
    e1 = e1
    e2 = e2
    Loops = {l1}
    First = l1
    Evals = {e1, e2}
    Pools <- OnePool
    Main = Main
    Listener = Listener
    NULL = NULL
    MaxCons = 1
    MaxReq = 3
    MaxPub = 2
    EvalSize = 1
    PubSize = 1
    EndSets <- NoEnds
    Slow = FALSE
PROPERTIES AllAnswered
CHECK_DEADLOCK FALSE
