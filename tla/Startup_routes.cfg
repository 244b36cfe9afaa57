SPECIFICATION Spec
CONSTANTS
    Profiles = {"production", "beta"}
    IdRank <- MCIdRank
    MaxPrice = 10
    Nothing = Nothing
    Junk = Junk
    Reviewed <- MCReviewed
    Catalogs <- MCCatalogs
    MaxChanges = 2
    MaxFaults = 0
INVARIANT
    RoutedHasSidecarRoute
