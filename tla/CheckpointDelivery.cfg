SPECIFICATION FairSpec
CONSTANTS
    Worker = {w1, w2}
    NoWorker = NoWorker
    MaxEvents = 1
    MaxAttempts = 2
    MaxFaults = 2
INVARIANTS
    ReferencedObjectsKept
    LedgerAccountsForClaims
    OnePostPerClaim
PROPERTIES
    HeadCheckpointSettles
