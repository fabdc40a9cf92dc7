SPECIFICATION Spec
CONSTANTS
    Lookups = {lookup}
    Askers = {asker}
    Cap = 2
    Window = 2
    Spacing = 1
    RetryDelays <- Delays
    InlineLimit = 2
    Backoff = 1
    Told = {0, 2, 3}
    Limits = {1, 2}
    MaxAsked <- Asked
INVARIANTS
    DeferralCoversTold
PROPERTIES
    PacingHolds
    RequestEnds
CHECK_DEADLOCK FALSE
