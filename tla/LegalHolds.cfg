SPECIFICATION Spec
CONSTANTS
    MaxOps = 3
    Hold = {h1, h2}
    None = None
    MaxFaults = 2
    MaxDrift = 1
INVARIANTS
    HoldsMatchObject
    RecoveryFollowsAudit
    ProjectionIsLatest
PROPERTIES
    OperationsSettle
CHECK_DEADLOCK FALSE
