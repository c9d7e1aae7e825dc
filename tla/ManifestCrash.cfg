SPECIFICATION PinsSpec
CONSTANTS
    f1 = f1
    f2 = f2
    Files = {f1}
    Contents <- MCContents
    Renderings <- Releases
    NoFile = NoFile
    EmptyFile <- MCEmptyFile
    Merge <- MergeInMode
    Unparsable <- MCUnparsable
    Equivalent <- SameManifests
    Edits <- MCEdits
    Places <- PlacesIn
    Above <- PlacesAbove
    Value <- ValueAt
    NoValue = NoValue
    Comments <- CommentsAt
    Hints <- HintsAt
    Mode = "Hint"
    TornWrites = TRUE
    MaxEdits = 1
    MaxUpgrades = 2
    MaxInterrupts = 1
CHECK_DEADLOCK FALSE
INVARIANTS HandworkSurvives RepeatedRunAgrees
