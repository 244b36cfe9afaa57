SPECIFICATION FairSpec
CONSTANTS
    Tasks = {t1, t2}
    MaxDoublings = 7
INVARIANTS
    TypeOK
    NoLostWakeup
    BackoffFollowsFailures
PROPERTIES
    RecoversOnlyOnReport
    DegradedIsAttended
    ReadyAgain
