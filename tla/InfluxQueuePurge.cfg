\* A reading arrives during a run.
SPECIFICATION Spec
CONSTANTS
    Sections = 2
    MaxInQueue = 2
    MayFailToConnect = FALSE
    MaxMeasurements = 4
    MaxSaves = 0
    MaxCrashes = 0
CHECK_DEADLOCK FALSE
PROPERTIES
    OnlyExcessIsPurged
