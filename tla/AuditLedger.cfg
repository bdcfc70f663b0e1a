SPECIFICATION VerificationSpec
CONSTANTS
    Client = {c1, c2}
    Row = {r1, r2}
    MaxCalls = 2
    MaxAlone = 3
    MaxVerified = 2
    MaxFaults = 1
    Tries = 2
    Verifier = {v1, v2}
    MaximumEvents = 1
    Page = 1
SYMMETRY Perms
CONSTRAINT Bounded
CHECK_DEADLOCK FALSE
INVARIANTS
    ChainIntact
    GuardedAllOrNothing
    CallersKnow
    VerdictsAreTrue
PROPERTY
    IsSerialLedger
