SPECIFICATION Spec
CONSTANTS
    a1 = a1
    a2 = a2
    cron = cron
    Admins = {a1}
    Cron = cron
    HourlyKeep = 0
    DailyKeep = 1
    EventKeep = 1
    TicksPerHour = 1
    HoursPerDay = 2
    MaxBackups = 2
    MaxRequests = 2
    MaxRows = 1
    MaxWrites = 1
    MaxTicks = 1
    MaxLocks = 1
    MaxFaults = 1
INVARIANT FlagsFollowJobs
PROPERTY OrphansOnlyInvisible
PROPERTY RotationSparesTheNet
CHECK_DEADLOCK FALSE
