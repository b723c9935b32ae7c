SPECIFICATION AssortmentSpec
CONSTANTS
    a1 = a1
    Admins = {a1}
    InitialEvents <- TwoEvents
    Files <- SomeFiles
    Names = {"cake"}
    MaxEvents = 3
    MaxStations = 2
    MaxRows = 3
    MaxEdits = 2
    MaxSelections = 1
    MaxDialogs = 1
    MaxTransfers = 2
INVARIANT RoutedInOwnEvent
INVARIANT ImportedGroupsAccepted
PROPERTY RoutesKept
CHECK_DEADLOCK FALSE
