SPECIFICATION FairSpec
CONSTANTS
    Producers = {p1}
    Consumers = {c1, c2}
    Loops = {c1, c2}
    Size = 4
    MultiPush = FALSE
    MultiPop = TRUE
    PollCount = 0
    MaxPush = 4
    NULL = NULL
PROPERTIES PushReturns Delivered
