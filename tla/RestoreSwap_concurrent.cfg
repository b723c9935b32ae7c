SPECIFICATION Spec
CONSTANTS
    MaxSwaps = 1
    MaxFaults = 0
    Requests = {r1, r2}
    Boot = Boot
    AutoMigrate = {TRUE}
    ExitAfterSwap = FALSE
    NoDb = NoDb
    Empty = Empty
    Partial = Partial
    r1 = r1
    r2 = r2
INVARIANT FestivalDataKept
CHECK_DEADLOCK FALSE
