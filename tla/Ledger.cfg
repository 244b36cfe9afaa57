SPECIFICATION LedgerSpec
CONSTANTS
    Tasks = {t1, t2}
    MaxDoublings = 0
    g1 = g1
    g2 = g2
    g3 = g3
    i1 = i1
    Generations = {g1, g2, g3}
    NoRow = NoRow
    Ids <- MCIds
    Profiles = {"production", "beta"}
    IdOf <- MCIdOf
    ProfileOf <- MCProfileOf
INVARIANTS
    AcknowledgedIsStored
    AnswersAreScoped
PROPERTIES
    RowsAreFinal
    LossIsReported
