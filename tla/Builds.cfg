CONSTANTS
    Inputs = {1, 2}
    Accepted = {1}
    None = None
    Torn = Torn
    Broken = Broken
    MaxKills = 2
    MaxChanges = 2
    Caches = {1, 2}
    Batches = {1, 2}
    Vectors = {1, 2}
    NumChunks = 3
SPECIFICATION Spec
INVARIANT
    Whole
PROPERTY
    BuildsAtomically
    Completes
\* A registered artifact, and a build that is refused, stop.
CHECK_DEADLOCK FALSE
