SPECIFICATION Spec
CONSTANTS
    Walks = {desktop, server}
    Absent = Absent
    Done = Done
    Albums = {{0, 1, 2}, {1}}
    MaxReleases = 3
    PageLimit = 2
    DetailWindow = 2
    FreshFor = 1
    MaxTroubles = 2
INVARIANTS
    CatalogIsWhole
    NoGuessedMiss
PROPERTIES
    WorkIsKept
    DiscoveryCompletes
CHECK_DEADLOCK FALSE
