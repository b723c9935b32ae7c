SPECIFICATION Spec
CONSTANTS
    a1 = a1
    a2 = a2
    cron = cron
    Admins = {a1}
    Cron = cron
    HourlyKeep = 0
    DailyKeep = 1
    EventKeep = 1
    TicksPerHour = 1
    HoursPerDay = 2
    MaxBackups = 3
    MaxRequests = 3
    MaxRows = 0
    MaxWrites = 0
    MaxTicks = 0
    MaxLocks = 1
    MaxFaults = 1
INVARIANT SelectedStillThere
CHECK_DEADLOCK FALSE
