SPECIFICATION FairSpec
CONSTANTS
    None = None
    p1 = p1
    p2 = p2
    Procs <- TwoProcs
    Stages <- FourStages
    Envs <- ThreeEnvs
    Homes <- OwnEnvs
    MaxCrashes = 1
    MaxExtras = 1
INVARIANTS
    TypeOK
    RegistrationsStay
    OneChain
    LineageTrue
    BuiltStaysWhole
    OwnRerunsHarmless
    BoundConfiguration
PROPERTIES
    Settles
CHECK_DEADLOCK FALSE
