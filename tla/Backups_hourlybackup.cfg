SPECIFICATION Spec
CONSTANTS
    a1 = a1
    a2 = a2
    cron = cron
    Admins = {a1}
    Cron = cron
    HourlyKeep = 0
    DailyKeep = 1
    EventKeep = 1
    TicksPerHour = 2
    HoursPerDay = 2
    MaxBackups = 2
    MaxRequests = 0
    MaxRows = 1
    MaxWrites = 1
    MaxTicks = 2
    MaxLocks = 1
    MaxFaults = 1
PROPERTY HourlyBackup
CHECK_DEADLOCK FALSE
