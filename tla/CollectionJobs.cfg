SPECIFICATION FairSpec
CONSTANTS
    Worker = {w1, w2}
    MaxAttempts = 2
    Artifacts = 2
    MaxMishaps = 2
CHECK_DEADLOCK FALSE
INVARIANTS
    OneArtifactTooLate
PROPERTIES
    IsJobLifecycle
    JobSettles
