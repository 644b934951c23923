\* A DSMR 5 meter, telegrams in order, electricity grouped by minute.
SPECIFICATION Spec
CONSTANTS
    TicksPerMinute = 2
    MinutesPerHour = 2
    HoursPerDay = 2
    LastTick = 7
    MaxReadings = 5
    MaxCrashes = 1
    CompactMax = 2
    FutureTicks = 1
    Groupings <- MinuteOnly
    GasByHour = FALSE
    DsmrV4 = FALSE
    GasInterval = 2
    GasPresence = {TRUE, FALSE}
    Retroactive = FALSE
INVARIANTS
    MinuteRowsAreFinal
    GasAddsUp
CHECK_DEADLOCK FALSE
