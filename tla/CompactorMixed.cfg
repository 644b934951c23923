\* The API inserts readings with any timestamp, in the future too, the
\* administrator changes the grouping at any moment, a DSMR 4 meter with gas
\* grouped by hour.
SPECIFICATION FairSpec
CONSTANTS
    TicksPerMinute = 2
    MinutesPerHour = 2
    HoursPerDay = 2
    LastTick = 4
    MaxReadings = 3
    MaxCrashes = 1
    CompactMax = 1
    FutureTicks = 0
    Groupings <- BothGroupings
    GasByHour = TRUE
    DsmrV4 = TRUE
    GasInterval = 2
    GasPresence = {TRUE}
    Retroactive = TRUE
INVARIANTS
    ProcessedIsStored
    OneRowPerMoment
PROPERTIES
    EventuallyProcessed
CHECK_DEADLOCK FALSE
