SPECIFICATION Spec
CONSTANTS
    Jobs = {"a1", "w1"}
    Roots <- MCRoots
    Videos <- MCVideos
    Root <- MCRoot
    Label <- MCLabel
    Plan <- MCPlan
    Ckpt <- MCCkpt
    Recipe <- MCRecipe
    Miscounted = {}
    Tags = {1}
    Interval = 2
    MaxFailures = 0
    NoFile = NoFile
INVARIANTS
    OneExtractor
