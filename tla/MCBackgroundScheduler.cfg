SPECIFICATION Spec
CONSTANTS
    Albums = {a1, a2, a3}
    Present = {a1}
    Limit = 2
    HoursPerDay = 2
    MinutesPerHour = 2
    Schedules <- Crontabs
    MaxClock = 5
    Starts <- AllStarts
INVARIANTS
    WatchRemembers
PROPERTIES
    SlotsFireInOrder
    MissedSlotsCatchUp
    WatchedAlbumRuns
CHECK_DEADLOCK FALSE
