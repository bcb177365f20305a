SPECIFICATION FairSpec
CONSTANTS
    Jobs = {"a1", "a2", "b1"}
    Roots <- MCRoots
    Videos <- MCVideos
    Root <- MCRoot
    Label <- MCLabel
    Plan <- MCPlan
    Ckpt <- SameCkpt
    Recipe <- MCRecipe
    Miscounted = {}
    Tags = {1}
    Interval = 2
    MaxFailures = 1
    NoFile = NoFile
PROPERTIES
    EventuallyExtracted
