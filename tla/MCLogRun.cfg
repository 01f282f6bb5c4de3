SPECIFICATION FairSpec
CONSTANTS
    Writers = {w1, w2}
    Size = 3
    MaxSize = 2
    MaxFiles = 1
    MaxLog = 3
    Ops = {"flush", "shutdown"}
INVARIANTS FilesInOrder ShutdownFlushes
PROPERTIES LogReturns EntriesWritten
CHECK_DEADLOCK FALSE
