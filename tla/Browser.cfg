\* Two dates to choose from and two requests of a kind in flight; rows of any
\* moment of the past, some of which go out of range.
SPECIFICATION FairSpec
CONSTANTS
    Nothing = Nothing
    Periods = {1, 2}
    EndDate = 2
    MaxInFlight = 2
    HoursRange = 3
    Retroactive = TRUE
    LastTick = 5
    MaxRows = 4
    MaxReadings = 4
INVARIANTS
    ArchiveShowsSelection
    ComparisonIsOfSelections
    TrendsAgree
    LiveRowsInOrder
    LiveSkipsNothing
PROPERTIES
    HeaderGoesForward
    LiveGraphFollows
    HeaderFollows
