SPECIFICATION ModeSpec
CONSTANTS
    a1 = a1
    a2 = a2
    u1 = u1
    Admins = {a1}
    Cashiers = {u1}
    Statuses <- AllStatuses
    ApiStatuses = {"TEST_MODE"}
    InitialStock = 1
    MaxOrders = 2
    MaxSessions = 1
    MaxRequests = 2
    MaxDialogs = 2
    MaxChanges = 3
INVARIANT ModesNeverMix
INVARIANT TestStockExplained
PROPERTY CleaningNeverEndsLive
CHECK_DEADLOCK FALSE
