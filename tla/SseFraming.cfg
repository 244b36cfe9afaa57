SPECIFICATION FairSpec
CONSTANTS
    Nothing = Nothing
    MaxBytes = 5
    MaxEvents = 3
    Usages <- MCUsages
    Sources <- MCSources
INVARIANTS
    ChunkingIsInvisible
    EveryEndIsAccounted
PROPERTY
    EveryBodyEnds
