\* The same under fairness, on days of one hour of three ticks: two hours with more
\* rows than are kept, of which a run of the retention policy takes on one, or a day
\* without any readings in between, and gas that a DSMR 4 meter reports an hour, here
\* a day, late.
SPECIFICATION PipelineFairSpec
CONSTANTS
    TicksPerMinute = 1
    MinutesPerHour = 3
    HoursPerDay = 1
    LastTick = 12
    MaxReadings = 6
    MeterTicks <- TwoBusyHours
    MaxCrashes = 1
    CompactMax = 1
    FutureTicks = 0
    MaxLag = 0
    Groupings <- ReadingOnly
    GasByHour = TRUE
    DsmrV4 = TRUE
    GasInterval = 3
    GasPresence = {TRUE}
    Retroactive = FALSE
    RetentionTicks = 2
    MaxCleanupHours = 1
PROPERTIES
    DayGetsClosed
    RetentionGetsThrough
CHECK_DEADLOCK FALSE
