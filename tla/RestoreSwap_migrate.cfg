SPECIFICATION FairSpec
CONSTANTS
    MaxSwaps = 1
    MaxFaults = 1
    Requests = {r1}
    Boot = Boot
    AutoMigrate = {TRUE}
    ExitAfterSwap = FALSE
    NoDb = NoDb
    Empty = Empty
    Partial = Partial
    r1 = r1
    r2 = r2
PROPERTY EveryRestartComesUp
CHECK_DEADLOCK FALSE
