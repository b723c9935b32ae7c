SPECIFICATION Spec
CONSTANTS
    MaxJobs = 1
    MaxLease = 2
    MaxReprints = 0
    MaxNet = 2
    Workers = {w1, w2}
    Printers = {p1, p2}
    NoPrinter = NoPrinter
    CupsPrinters = {p1}
    ConsolePrinters = {}
    Fallback <- OneFallback
    JobPrinters = {p1}
    Switchable = {}
    MaintenancePlanned = TRUE
    p1 = p1
    p2 = p2
    w1 = w1
    w2 = w2
SYMMETRY Symmetry
PROPERTY NoOutcomeWhileLocked
CHECK_DEADLOCK FALSE
