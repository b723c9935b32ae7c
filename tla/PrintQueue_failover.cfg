SPECIFICATION FairSpec
CONSTANTS
    MaxJobs = 1
    MaxLease = 3
    MaxReprints = 0
    MaxNet = 1
    Workers = {w1}
    Printers = {p1, p2}
    NoPrinter = NoPrinter
    CupsPrinters = {p2}
    ConsolePrinters = {}
    Fallback <- MutualFallback
    JobPrinters = {p1}
    Switchable = {}
    MaintenancePlanned = FALSE
    p1 = p1
    p2 = p2
    w1 = w1
    w2 = w2
INVARIANT OnePrintPerDecision
INVARIANT ChargesTheRightPrinter
PROPERTY ProcessingEnds
CHECK_DEADLOCK FALSE
