\* Readings during a run, saves of the settings, failures to connect, crashes.
SPECIFICATION FairSpec
CONSTANTS
    Sections = 2
    MaxInQueue = 2
    MayFailToConnect = TRUE
    MaxMeasurements = 6
    MaxSaves = 2
    MaxCrashes = 2
CHECK_DEADLOCK FALSE
INVARIANTS
    SentOnce
PROPERTIES
    PurgedIsSuperseded
    QueueIsEmptied
