SPECIFICATION FairSpec
CONSTANTS
    l1 = l1
    l2 = l2
    e1 = e1
    e2 = e2
    Loops = {l1}
    First = l1
    Evals = {e1, e2}
    Pools <- OnePool
    Main = Main
    Listener = Listener
    NULL = NULL
    MaxCons = 1
    MaxReq = 2
    MaxPub = 1
    EvalSize = 1
    PubSize = 1
    EndSets <- Deaf
    Slow = FALSE
PROPERTIES EndsWhenAsked
CHECK_DEADLOCK FALSE
