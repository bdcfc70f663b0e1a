SPECIFICATION IntentSpec
CONSTANTS
    Keys = 1
    Manifest = {m1, m2}
    Request = {q1, q2}
    Nil = Nil
    Secrets = 2
    Window = 1
    Validity = 1
    DailyLimit = 2
    Legacy <- LegacyFirst
    MaxTime = 2
    MaxFaults = 1
SYMMETRY Perms
CHECK_DEADLOCK FALSE
INVARIANTS
    CapabilityIsBacked
    OneCapabilityPerKey
    RefusalsJustified
