SPECIFICATION Spec
CONSTANTS
    Order <- MCOrder
    Root = "components"
    Parent <- MCParent
    Components = {"operator"}
    Customs = {"own"}
    NoFile = NoFile
    MaxEdits = 4
INVARIANTS TypeOK ListsMatchTheTree ComponentsKeepTheirs OwnEntriesSurvive
PROPERTIES ComponentsAreLeftAlone
