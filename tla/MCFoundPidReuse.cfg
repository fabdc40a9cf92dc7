SPECIFICATION Spec
CONSTANTS
    Albums = {a1}
    MaxRuns = 2
    Runs <- RunIds
    Pids = {p1}
    PidsReused = TRUE
    Results = {"applied"}
    Budgets <- RestartedContainerBudgets
    Calls = {"review", "proof"}
    MaxAttempts = 1
    NoRun = NoRun
    NoPid = NoPid
    NoOwner = NoOwner
    NoHalt = NoHalt
    NoAlbum = NoAlbum
INVARIANTS
    RunningHasWorker
VIEW WithoutEvidence
CHECK_DEADLOCK FALSE
