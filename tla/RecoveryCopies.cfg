SPECIFICATION RecoverySpec
CONSTANTS
    Objects = 2
    Existing = {1}
    MaxTroubles = 2
    Settle = 2
    Window = 1
    Interval = 3
    MaxTime = 4
    MaxFailures = 1
    Absent = Absent
INVARIANTS
    WatermarkCoversLedger
PROPERTIES
    WatermarkMonotone
CHECK_DEADLOCK FALSE
