SPECIFICATION FairSpec
CONSTANTS
    Cons = {a}
    MaxReq = 3
    MaxHints = 1
    TextLen = 2
    Kinds = {"eval", "page", "bad"}
    Closes = {TRUE, FALSE}
    Faults = {"eagain", "error", "hangup", "extra", "late", "raise"}
INVARIANTS AnsweredThenClosed
PROPERTIES AllAnswered CloseIsHeeded
CHECK_DEADLOCK FALSE
