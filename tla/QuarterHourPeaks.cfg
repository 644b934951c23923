\* Telegrams at most two ticks apart, a move back in the admin, a crash.
SPECIFICATION FairSpec
CONSTANTS
    Quarter = 3
    MaxSilence = 2
    LastTick = 9
    MaxMoves = 1
    MaxCrashes = 1
CHECK_DEADLOCK FALSE
INVARIANTS
    OnePeakPerQuarter
    PeakCoversItsQuarter
    NoQuarterMissed
PROPERTIES
    PeakFollows
