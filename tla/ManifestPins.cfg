SPECIFICATION PinsSpec
CONSTANTS
    f1 = f1
    f2 = f2
    Files = {f1}
    Contents <- MCContents
    Renderings <- Releases
    NoFile = NoFile
    EmptyFile <- MCEmptyFile
    Merge <- MergeInMode
    Unparsable <- MCUnparsable
    Equivalent <- SameManifests
    Edits <- MCEdits
    Places <- PlacesIn
    Above <- PlacesAbove
    Value <- ValueAt
    NoValue = NoValue
    Comments <- CommentsAt
    Hints <- HintsAt
    Mode = "Hint"
    TornWrites = FALSE
    MaxEdits = 2
    MaxUpgrades = 2
    MaxInterrupts = 0
CHECK_DEADLOCK FALSE
INVARIANTS TypeOK PinsSurvive DroppedStayDropped NotesSurvive RefusalsHinted UntouchedFollowsDefault
