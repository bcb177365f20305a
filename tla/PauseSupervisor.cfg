SPECIFICATION FairSpec
CONSTANTS
    MaxSignals = 2
    MaxKills = 2
INVARIANTS
    Covered
    CompletedReleased
    SupervisorReleases
    CompletedTruthful
    PauseInv
PROPERTIES
    RefusesOwnership
    ReleaseAfterWorker
    Released
    Settled
CHECK_DEADLOCK FALSE
