SPECIFICATION Spec
CONSTANTS
    Jobs = {"a1", "a2", "b1"}
    Roots <- MCRoots
    Videos <- MCVideos
    Root <- MCRoot
    Label <- MCLabel
    Plan <- RecipePlan
    Ckpt <- MCCkpt
    Recipe <- TwoRecipes
    Miscounted = {}
    Tags = {1, 2}
    Interval = 2
    MaxFailures = 1
    NoFile = NoFile
INVARIANTS
    OneExtractor
    SidecarTruthful
    CompleteReport
    ExtractionInv
