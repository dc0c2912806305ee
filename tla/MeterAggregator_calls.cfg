SPECIFICATION Spec
CONSTANTS
    Values = {1, 2}
    MaxVolume = 5
    HourLength = 2
    HoursPerDay = 2
    Retention = 3
    PruneBatchSize = 2
    MaxTime = 7
    MaxReadings = 4
INVARIANTS
    LiveAboveCursor
    FreshReadingsAreKept
    HourlyTotalsAreComplete
    WindowsAreExact
PROPERTY BacklogDrains
CHECK_DEADLOCK FALSE
