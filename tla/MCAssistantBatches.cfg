SPECIFICATION AssistantSpec
CONSTANTS
    Batches = {b1, b2}
    Callers = {c1, c2}
    Files = {f1, f2, f3}
    Starts <- PlansOfTwo
    b1 = b1
    b2 = b2
    f1 = f1
    f2 = f2
    f3 = f3
    Original = Original
    Edited = Edited
    Nobody = Nobody
    NoBatch = NoBatch
INVARIANTS
    DependentsWait
    SettledIsNotPending
    FailedMoveIsUndone
PROPERTIES
    AppliedIsOnDisk
    ApplicationEnds
CHECK_DEADLOCK FALSE
