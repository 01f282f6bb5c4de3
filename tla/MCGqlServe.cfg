CONSTANTS
    SmallInts <- SmallIntsDef
    LongInts <- LongIntsDef
    HugeInts <- HugeIntsDef
    Floats <- FloatsDef
    Rounded <- RoundedDef
    Truncated <- TruncatedDef
    TimeText <- TimeTextDef
    Nanos <- NanosDef
    Seconds <- SecondsDef
    Uuids <- UuidsDef
    SpecialTexts <- SpecialTextsDef
    Sdls <- AppSdlsDef
    Docs <- AppDocsDef
    Requests <- AppRequestsDef
    Events <- AppEventsDef
    SubCons = {c1, c2}
    Errnos = {FALSE, TRUE}
    MaxLoads = 1
    MaxRequests = 2
    MaxEvents = 2
    MAX_DEPTH = 100
    Arity <- ArityDef
    Answer <- AnswerDef
    PartsOf <- PartsOfDef
SPECIFICATION Spec
SYMMETRY SubConsSymmetry
CHECK_DEADLOCK FALSE
INVARIANTS AnswersAsSpecified ArgsTyped ResponseReads Introspected EventsReach DocDumpLoads
