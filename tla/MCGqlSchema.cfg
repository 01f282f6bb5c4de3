CONSTANTS
    SmallInts <- SmallIntsDef
    LongInts <- LongIntsDef
    HugeInts <- HugeIntsDef
    Floats <- FloatsDef
    Rounded <- RoundedDef
    Truncated <- TruncatedDef
    TimeText <- TimeTextDef
    Nanos <- NanosDef
    Seconds <- SecondsDef
    Uuids <- UuidsDef
    SpecialTexts <- SpecialTextsDef
    Sdls <- SdlsDef
    Docs <- NoDocs
    Requests = {}
    Events = {}
    SubCons = {}
    Errnos = {FALSE}
    MaxLoads = 3
    MaxRequests = 0
    MaxEvents = 0
    MAX_DEPTH = 100
    Arity <- ArityDef
    Answer <- AnswerDef
    PartsOf <- PartsOfDef
SPECIFICATION Spec
CHECK_DEADLOCK FALSE
INVARIANTS TypeOK AcceptedIsWhole DumpLoads
PROPERTIES DefinitionsStay
