CONSTANTS
    Rows = 3
    Poison = {1}
    Foreign = {f1}
    Signer = {s1, s2}
    None = None
    MaxAttempts = 4
    MaxFaults = 1
SPECIFICATION Spec
INVARIANTS
    OneChain
    CompletedIffChained
PROPERTIES
    AnsweredAreSigned
CHECK_DEADLOCK FALSE
