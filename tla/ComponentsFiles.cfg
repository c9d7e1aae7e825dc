SPECIFICATION Spec
CONSTANTS
    Unset = Unset
    None = None
    NoFile = NoFile
    Marshal <- MarshalYaml
    Unmarshal <- UnmarshalYaml
    Merge <- MergeYaml
    WithPin <- PinnedYaml
    WithoutEntry <- WithoutItem
    WithEntry <- WithItem
    Chart = Chart
    Files = {"base", "landscape"}
    Releases <- MCReleases
    Resolved <- MCResolved
    Pin = "mine"
    Custom = {"own", "gardener"}
    Mode = "Hint"
    MaxEdits = 2
INVARIANTS TypeOK PinsTakeEffect ReferencesFollowPins UntouchedFollowDefault LayersDecide
