SPECIFICATION GroupSpec
CONSTANTS
    Admins = {a1, a2}
    InitialGroups <- SomeGroups
    InitialPrice = 4
    Amounts = {0, 1}
    MAX_GROUPS = 2
    MAX_OPTIONS = 2
    MaxEdits = 2
    MaxSaves = 2
INVARIANT NoRawDatabaseError
INVARIANT WaiterPriceIsCharged
PROPERTY SavingAgainIsHarmless
CHECK_DEADLOCK FALSE
