SPECIFICATION Spec
CONSTANTS
    Message = {m1, m2}
    Version = {v1, v2, v3}
    Threat = {v3}
    None = None
    MaxDeliveries = 3
    MaxFence = 2
    MaxFaults = 2
INVARIANTS
    PublishedIsAccepted
    AcceptedCanComplete
    FlagsMatchLedger
    OneFaultIsSurvived
PROPERTIES
    SupersededIsPowerless
    IsEvidenceCustody
SYMMETRY Perms
CHECK_DEADLOCK FALSE
