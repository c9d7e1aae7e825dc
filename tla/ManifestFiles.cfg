SPECIFICATION PinsSpec
CONSTANTS
    f1 = f1
    f2 = f2
    Files = {f1, f2}
    Contents <- MCContents
    Renderings <- RenamingReleases
    NoFile = NoFile
    EmptyFile <- MCEmptyFile
    Merge <- MergeInMode
    Unparsable <- MCUnparsable
    Equivalent <- SameManifests
    Edits <- BreakingEdits
    Places <- PlacesIn
    Above <- PlacesAbove
    Value <- ValueAt
    NoValue = NoValue
    Comments <- CommentsAt
    Hints <- HintsAt
    Mode = "Silent"
    TornWrites = TRUE
    MaxEdits = 2
    MaxUpgrades = 1
    MaxInterrupts = 1
CHECK_DEADLOCK FALSE
INVARIANTS RemovedStayRemoved SuccessIsComplete HandworkIsCarriedOver
