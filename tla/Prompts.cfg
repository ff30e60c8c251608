SPECIFICATION MCSpec
CONSTANTS
    Workers = {w1, w2, w3}
    Ids = {p1}
    Names = {n1}
    Envs = {prod}
    MaxVersion = 3
    MayCrash = TRUE
    None = None
SYMMETRY Symmetry
INVARIANTS VersionsContiguous DeployedExists FreeUnlessDied
PROPERTIES LatestOnlyGrows FallbackOnlyDuringDeploy
CHECK_DEADLOCK FALSE
