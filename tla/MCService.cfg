SPECIFICATION Spec
CONSTANTS
    Albums = {a1, a2}
    MaxRuns = 2
    Runs <- RunIds
    Pids = {p1, p2}
    PidsReused = FALSE
    Results = {"partialRetry"}
    Budgets <- ServiceBudgets
    Calls = {"review", "proof"}
    MaxAttempts = 1
    NoRun = NoRun
    NoPid = NoPid
    NoOwner = NoOwner
    NoHalt = NoHalt
    NoAlbum = NoAlbum
INVARIANTS
    HistoryIsSettled
    RunningHasWorker
    CancelledStaysStopped
    AiStaysBlocked
    AiTagsFlagged
PROPERTIES
    CancelledStaysOut
    ContractSpec
VIEW WithoutEvidence
SYMMETRY Symmetry
CHECK_DEADLOCK FALSE
