CONSTANTS
    Sid = {s1}
    Hash = {h1}
    Worker = {w1, w2}
    MaxAttempts = 2
    MaxDeliveries = 2
SPECIFICATION Spec
INVARIANT ProcessedMeansHandled
CHECK_DEADLOCK FALSE
