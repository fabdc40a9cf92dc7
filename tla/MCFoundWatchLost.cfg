SPECIFICATION Spec
CONSTANTS
    Albums = {a1, a2, a3}
    Present = {a1}
    Limit = 2
    HoursPerDay = 2
    MinutesPerHour = 2
    Schedules <- Crontabs
    MaxClock = 5
    Starts <- ChangesOnly
INVARIANT
    NothingAddedIsLost
CHECK_DEADLOCK FALSE
