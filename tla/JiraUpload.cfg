SPECIFICATION Spec
CONSTANTS
    Worker = {w1, w2}
    NoWorker = NoWorker
    Requests = {r1}
    MaxTokens = 2
    MaxEpoch = 2
    MaxMishaps = 1
SYMMETRY Perms
INVARIANTS
    RetryIsSafe
    OneAttachmentSet
    StoredTokenLive
\* A user who has disconnected need not come back.
CHECK_DEADLOCK FALSE
