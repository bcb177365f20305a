SPECIFICATION FairSpec
CONSTANTS
    Models <- MCModels
    R1 <- MCR1
    R5 <- MCR5
    Configs <- MCConfigs
    InitModel <- MCInitModel
    Epochs = 3
    Batches = 3
    Accum = 2
    MaxCrashes = 2
    NoFile = NoFile
    Truncated = Truncated
INVARIANTS
    SelectionFaithful
    BestOnPath
    StepsExact
    OneConfiguration
    RunInv
PROPERTIES
    BestNeverRegresses
    WindowsFilled
    SelectedRunFrozen
    ImplementsSelection
    Settles
