SPECIFICATION Spec
CONSTANTS
    Jobs = {"a1"}
    Roots <- MCRoots
    Videos <- MCVideos
    Root <- MCRoot
    Label <- MCLabel
    Plan <- MCPlan
    Ckpt <- MCCkpt
    Recipe <- MCRecipe
    Miscounted = {"v"}
    Tags = {1}
    Interval = 2
    MaxFailures = 1
    NoFile = NoFile
PROPERTIES
    Resumable
