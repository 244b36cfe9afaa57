SPECIFICATION FairSpec
CONSTANTS
    Providers <- MCProviders
    Chains <- MCChains
    Aliased = {"hidden"}
    Priced = {"plain", "hidden", "deepinfra"}
    Estimated = {"deepinfra"}
    Costs = {1, 2}
    MaxEvents = 4
    Unresolved = Unresolved
    Nothing = Nothing
INVARIANTS
    FailoverIsSafe
    OneProviderPerResponse
    RowAgreesWithResponse
    AliasesAreHidden
PROPERTIES
    CleanEndIsBilled
    ImplementsContract
    EveryRequestIsAnswered
