SPECIFICATION JournalSpec
CONSTANTS
    Runs = {r1, r2}
    Albums = {a1, a2}
    Shared = {art}
    Bytes = {b1, b2}
    Original = Original
    Edited = Edited
    Absent = Absent
    NoRun = NoRun
    MaxWrites = 2
    MaxEdits = 1
    MaxFaults = 1
INVARIANTS
    ListedIsBackedUp
    OwnWorkIsRevertible
PROPERTIES
    RevertSparesOthersWork
    RevertRestoresOrigin
VIEW WithoutKept
SYMMETRY Symmetry
CHECK_DEADLOCK FALSE
