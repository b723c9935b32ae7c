SPECIFICATION FairSpec
CONSTANTS
    Keys <- TwoKeys
    LegacyKeys = {1}
    RefundKeys = {}
    PaidKeys = {}
    TrackedKeys = {}
    Tabs = {t1}
    MainTab = t1
    Hand = hand
    Till = till
    waiter = waiter
    admin = admin
    Users <- WaiterAndAdmin
    Role <- Roles
    NoUser = NoUser
    NoSession = NoSession
    Nobody = Nobody
    MAX_AUTOMATIC_ATTEMPTS = 2
    MAX_OPEN_QUEUE_ENTRIES = 2
    MaxRequests = 3
    MaxFaults = 1
INVARIANT ConfirmedIsOrdered
PROPERTY FateOfBaskets
PROPERTY EntryIsSettled
CHECK_DEADLOCK FALSE
