SPECIFICATION FairEventSpec
CONSTANTS
    Capacity = 2
    MaxEvents = 6
    MaxGenerations = 1
    WireSize = 2
    NoCursor = NoCursor
INVARIANTS
    StreamOwesTheRest
PROPERTIES
    FirstSourceResumes
    SubscriberCatchesUp
