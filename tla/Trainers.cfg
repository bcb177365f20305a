CONSTANTS
    Epochs = 4
    Scores = {1, 2}
    None = None
    MaxKills = 2
    SnapshotInterval = 2
    Batches = 2
    EveryEpochs = 2
    CheckpointEvery = 3
SPECIFICATION Spec
INVARIANT
    Whole
PROPERTY
    KeepsPromise
    Completes
\* A published run, and one that is refused, stop.
CHECK_DEADLOCK FALSE
