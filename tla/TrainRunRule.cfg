SPECIFICATION Spec
CONSTANTS
    Models <- MCModels
    R1 <- MCR1
    R5 <- MCR5
    Configs <- MCConfigs
    InitModel <- MCInitModel
    Epochs = 2
    Batches = 3
    Accum = 2
    MaxCrashes = 1
    NoFile = NoFile
    Truncated = Truncated
INVARIANTS
    SelectsRegistered
