SPECIFICATION Spec
CONSTANTS
    Workers = {w1}
    Profiles = {"production", "beta"}
    Models = {"m"}
    Providers = {"direct", "reseller", "costly", "fallback"}
    Routes <- MCRoutes
    Price <- MCPrice
    Constraints <- MCConstraints
    Rank <- MCRank
    PriceCeiling = 5
    ShareNum = 1
    ShareDen = 3
    ShareWindow = 3
    HysteresisNum = 1
    HysteresisDen = 2
    Requests <- MixedRequests
    Samples <- MixedSamples
    MaxLevel = 2
    NotMeasured = NotMeasured
INVARIANTS
    TypeOK
    CountsMatchHistory
    DefaultTrafficIsCapped
    EnoughProvidersNeverWedge
PROPERTIES
    ChainIsRanked
