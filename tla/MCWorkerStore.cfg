SPECIFICATION StoreSpec
CONSTANTS
    Albums = {a1}
    Runs = {r1, r2}
    Pids = {p1, p2}
    Calls = {"proof", "review"}
    MaxAttempts = 1
    NoRun = NoRun
    NoPid = NoPid
    NoOwner = NoOwner
    NoHalt = NoHalt
INVARIANTS
    DeferredHasRetry
    ProofIsPublished
PROPERTIES
    NoTakeover
SYMMETRY Symmetry
