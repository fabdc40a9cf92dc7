SPECIFICATION LifecycleSpec
CONSTANTS
    Writers = {w1, w2, w3}
    Folders = {f1, f2}
    Dropped = {"run", "exclusive"}
    Starts <- ServersAndDesktops
    w1 = w1
    w2 = w2
    w3 = w3
    Nobody = Nobody
    Nowhere = Nowhere
    Coordination = Coordination
    Global = Global
INVARIANTS
    OperationsExclude
    CountIsExact
PROPERTIES
    ExitSparesWhatItSaw
    StopsOnceCallsCease
    EveryCallRuns
CHECK_DEADLOCK FALSE
