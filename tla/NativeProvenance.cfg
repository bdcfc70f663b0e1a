SPECIFICATION FairSpec
CONSTANTS
    d1 = d1
    d2 = d2
    c1 = c1
    c2 = c2
    fork = fork
    other = other
    k1 = k1
    k2 = k2
    DeviceGenesis = DeviceGenesis
    NoKey = NoKey
    Device = {d1, d2}
    Capture = {c1, c2, fork, other}
    Facts <- ChainFacts
    Scenarios <- AllScenarios
    Worker = {1, 2}
    MaxUploads = 3
    MaxAssessment = 2
INVARIANTS OneDeviceChain OrphansAreTracked
PROPERTIES NothingTakesEffectLate AbandonedWorkSettles
CHECK_DEADLOCK FALSE
