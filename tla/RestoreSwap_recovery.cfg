SPECIFICATION FairSpec
CONSTANTS
    MaxSwaps = 2
    MaxFaults = 4
    Requests = {r1}
    Boot = Boot
    AutoMigrate = {TRUE, FALSE}
    ExitAfterSwap = TRUE
    NoDb = NoDb
    Empty = Empty
    Partial = Partial
    r1 = r1
    r2 = r2
INVARIANT OpenOnDecidedData
INVARIANT PhaseFitsLayout
INVARIANT FestivalDataKept
PROPERTY RestartComesUp
CHECK_DEADLOCK FALSE
