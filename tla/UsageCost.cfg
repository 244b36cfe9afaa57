SPECIFICATION Spec
CONSTANTS
    Denominator = 4
    MaxTokens = 2
    Nothing = Nothing
    Junk = Junk
    PriceSets <- MCPriceSets
    Documents <- MCDocuments
INVARIANTS
    DoubtIsNotBilled
    CostIsAsPublished
    ShownCostIsStable
    NoTraceIsLeft
