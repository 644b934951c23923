\* The meter may be silent for longer than a quarter.
SPECIFICATION Spec
CONSTANTS
    Quarter = 3
    MaxSilence = 9
    LastTick = 9
    MaxMoves = 0
    MaxCrashes = 0
CHECK_DEADLOCK FALSE
INVARIANTS
    NoQuarterMissed
