\* Days of five ticks, local time one ahead; two failures or crashes.
SPECIFICATION Spec
CONSTANTS
    Nothing = Nothing
    TicksPerDay = 5
    Offset = 1
    NotificationHour = 2
    Cooldown = 2
    ExportHours = {1, 2}
    RetryDelay = 1
    LastTick = 11
    MaxFaults = 2
INVARIANTS
    DoneOnce
    DayNotLost
    DayIsExported
CHECK_DEADLOCK FALSE
