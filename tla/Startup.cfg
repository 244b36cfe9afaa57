SPECIFICATION FairSpec
CONSTANTS
    Profiles = {"production", "beta"}
    IdRank <- MCIdRank
    MaxPrice = 10
    Nothing = Nothing
    Junk = Junk
    Reviewed <- MCReviewed
    Catalogs <- MCCatalogs
    MaxChanges = 2
    MaxFaults = 2
INVARIANTS
    ReviewedIsServed
    TablesAgree
    OutputIsWhole
PROPERTY
    ComesUpWithoutUpstream
