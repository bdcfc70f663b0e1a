SPECIFICATION PackageSpec
CONSTANTS
    Worker = {w1, w2}
    Profiles <- Settings
    MaxTime = 3
    MaxKeys = 3
    MaxPurgeKeys = 2
    MaxEpoch = 2
    MaxFaults = 1
    MaxCrashes = 1
    Validity = 2
    LeaseTime = 1
SYMMETRY Perms
CHECK_DEADLOCK FALSE
INVARIANTS
    CurrentObjectKept
    NoOrphan
PROPERTIES
    HeldKept
