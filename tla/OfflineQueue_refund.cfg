SPECIFICATION Spec
CONSTANTS
    Keys <- OneKey
    LegacyKeys = {}
    RefundKeys = {1}
    PaidKeys = {}
    TrackedKeys = {}
    Tabs = {t1}
    MainTab = t1
    Hand = hand
    Till = till
    waiter = waiter
    admin = admin
    Users <- OnlyWaiter
    Role <- Roles
    NoUser = NoUser
    NoSession = NoSession
    Nobody = Nobody
    MAX_AUTOMATIC_ATTEMPTS = 2
    MAX_OPEN_QUEUE_ENTRIES = 1
    MaxRequests = 2
    MaxFaults = 1
INVARIANT ResendConfirms
CHECK_DEADLOCK FALSE
