SPECIFICATION Spec
CONSTANTS
    Components = {c1, c2}
    MaxVersion = 2
    Dirs = {"root", "landscapes/first"}
    Root = "root"
    Target <- AtRoot
    Downgrades = FALSE
SYMMETRY ComponentSymmetry
INVARIANTS TypeOK LandscapeFollowsBase CurrentVersionIsInstalled UpgradeSkipsOnlyExcluded
