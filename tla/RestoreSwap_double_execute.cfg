SPECIFICATION Spec
CONSTANTS
    MaxSwaps = 2
    MaxFaults = 0
    Requests = {r1, r2}
    Boot = Boot
    AutoMigrate = {FALSE}
    ExitAfterSwap = FALSE
    NoDb = NoDb
    Empty = Empty
    Partial = Partial
    r1 = r1
    r2 = r2
INVARIANT OneExecuteAtATime
CHECK_DEADLOCK FALSE
