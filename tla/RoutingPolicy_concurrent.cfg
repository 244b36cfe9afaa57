SPECIFICATION Spec
CONSTANTS
    Workers = {w1, w2}
    Profiles = {"production", "beta"}
    Models = {"m"}
    Providers = {"direct", "reseller"}
    Routes <- MCRoutes
    Price <- MCPrice
    Constraints <- MCConstraints
    Rank <- MCRank
    PriceCeiling = 5
    ShareNum = 2
    ShareDen = 3
    ShareWindow = 3
    HysteresisNum = 1
    HysteresisDen = 2
    Requests <- DefaultRequests
    Samples <- SpeedSamples
    MaxLevel = 4
    NotMeasured = NotMeasured
INVARIANTS
    WeightsAreMonotone
PROPERTIES
    ProfilesAreIsolated
