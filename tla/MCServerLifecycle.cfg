SPECIFICATION RunLiveSpec
CONSTANTS
    NPlugins = 3
    Config <- MCConfigs
    Startups <- MCStartups
    Handler = {h1}
    Trimmed <- MCTrimmed
    NoErr = none
    Proto <- MCProto
    Hytale <- MCHytale
    AnyHytale = "hytale/*"
    HytaleTwo = "hytale/2"
    HytaleOne = "hytale/1"
    Version <- MCVersion
    Text <- MCText
    Unparsed = unparsed
    Blank = blank
    Refused = refused
INVARIANTS RunTypeOK OrderRespected RefusedForCycle AskedInOrder NothingLeftOpen
    ServesWhole AcceptedIsBuilt HighestNegotiated
PROPERTY Returns
CHECK_DEADLOCK FALSE
