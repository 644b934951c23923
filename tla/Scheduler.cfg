\* Two services, one of which gives up and one of which is not always ready, and
\* saves in the admin, with progress of each service while others fail.
SPECIFICATION FairSpec
CONSTANTS
    dropbox = dropbox
    pvoutput = pvoutput
    Nobody = Nobody
    Processes <- BothProcesses
    Dropbox <- JustDropbox
    PVOutput <- JustPVOutput
    Interval = 2
    ErrorDelay = 1
    LongDelay = 3
    LastTick = 2
    MaxSaves = 2
    MaxCrashes = 1
INVARIANTS
    SwitchedOffIsInactive
    StaleClientsRestart
CHECK_DEADLOCK FALSE
PROPERTIES
    FailureBacksOff
    DueIsExecuted
