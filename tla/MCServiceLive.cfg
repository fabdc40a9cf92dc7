SPECIFICATION FairSpec
CONSTANTS
    Albums = {a1}
    MaxRuns = 4
    Runs <- RunIds
    Pids = {p1, p2}
    PidsReused = FALSE
    Results = {"applied", "retry"}
    Budgets <- LiveBudgets
    Calls = {"review", "proof"}
    MaxAttempts = 1
    NoRun = NoRun
    NoPid = NoPid
    NoOwner = NoOwner
    NoHalt = NoHalt
    NoAlbum = NoAlbum
PROPERTIES
    PendingServed
    RunningEnds
CHECK_DEADLOCK FALSE
