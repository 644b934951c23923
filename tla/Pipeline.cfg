\* Days of two hours of three ticks, a DSMR 4 meter which reports gas by the hour,
\* retention of one day, telegrams up to three ticks late.
SPECIFICATION PipelineSpec
CONSTANTS
    TicksPerMinute = 3
    MinutesPerHour = 1
    HoursPerDay = 2
    LastTick = 13
    MaxReadings = 4
    MeterTicks <- AnyTick
    MaxCrashes = 1
    CompactMax = 2
    FutureTicks = 0
    MaxLag = 3
    Groupings <- BothGroupings
    GasByHour = TRUE
    DsmrV4 = TRUE
    GasInterval = 3
    GasPresence = {TRUE}
    Retroactive = FALSE
    RetentionTicks = 6
    MaxCleanupHours = 1
INVARIANTS
    DayMatchesMeter
    NoDaySkipped
    ClosedDaysAreComplete
    GasCountedOnce
    FullDayHasItsGas
PROPERTIES
    RetentionKeepsStatistics
    RetentionKeepsUnprocessed
CHECK_DEADLOCK FALSE
