SPECIFICATION Spec
CONSTANTS
    Admins = {a1}
    InitialGroups <- NoGroups
    InitialPrice = 4
    Amounts = {1}
    MAX_GROUPS = 0
    MAX_OPTIONS = 1
    MaxEdits = 1
    MaxSaves = 1
    Tills = {t1, t2}
    StationTills = {t2}
    Deposit = 5
    MAX_QUANTITY = 1
    QuickQuantities = {1}
    MAX_PICKUP_NUMBER = 2
    Overpaid = {0}
    MaxRequests = 2
    MaxRefund = 2
    MaxCustomers = 2
    Stations = {s1}
    ProductStation = s1
    NoStation = NoStation
    MaxChanges = 1
CHECK_DEADLOCK FALSE
INVARIANT PayoutShownIsBooked
