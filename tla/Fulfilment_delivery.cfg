SPECIFICATION Spec
CONSTANTS
    o1 = o1
    i1 = i1
    i2 = i2
    m1 = m1
    r1 = r1
    r2 = r2
    kitchen1 = kitchen1
    Nobody = Nobody
    Orders = {o1}
    Items = {i1, i2}
    OrderOf <- TheOrders
    StationOf <- TheStations
    StationPrinters = {}
    DefaultPrinter = TRUE
    Monitors = {m1}
    MonitorAt <- TheMonitors
    Runners = {r1, r2}
    MaxRequests = 2
    MaxAsides = 1
INVARIANT OnlyTheClaimerDelivers
INVARIANT CarriedByOne
INVARIANT OneTicketPerPosition
SYMMETRY Symmetry
CHECK_DEADLOCK FALSE
