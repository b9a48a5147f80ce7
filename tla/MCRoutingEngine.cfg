SPECIFICATION LiveSpec
CONSTANTS
    NoValue = NoValue
    NaN = NaN
    NoPool = NoPool
    Down = Down
    a = a
    b = b
    d = d
    ann = ann
    bob = bob
    alpha = alpha
    beta = beta
    SecondsBelow = 5
    PerSecond = 2
    MaxInt = 7
    MaxNow = 4
    Call = {c1, c2, c3}
    Config <- AllConfigs
    Crowded <- EngineConfigs
    Request <- Requests
    Listing <- SelectionListings
INVARIANTS TypeOK FallbackOrder LimitKeepsBest WeightedShares RoundRobinEven KeyMissingOnlyByFallback
PROPERTIES DiscoveredWins ConfigImmutable Decided
CHECK_DEADLOCK FALSE
