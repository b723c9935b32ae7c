SPECIFICATION Spec
CONSTANTS
    Keys <- TwoKeys
    LegacyKeys = {1}
    RefundKeys = {}
    PaidKeys = {}
    TrackedKeys = {}
    Tabs = {t1, t2}
    MainTab = t1
    Hand = hand
    Till = till
    waiter = waiter
    admin = admin
    Users <- OnlyAdmin
    Role <- Roles
    NoUser = NoUser
    NoSession = NoSession
    Nobody = Nobody
    MAX_AUTOMATIC_ATTEMPTS = 2
    MAX_OPEN_QUEUE_ENTRIES = 2
    MaxRequests = 2
    MaxFaults = 1
INVARIANT TypeOK
INVARIANT ConfirmedIsOrdered
PROPERTY FateOfBaskets
CHECK_DEADLOCK FALSE
