CONSTANTS
    Users = {1, 2}
    Words = {1, 2}
    StopTokens = {0}
    MaxTokens = 2
    TalkerCapacity = 1
    WordCapacity = 1
    MaxTopTalkers = 1
    MaxWords = 1
    Rows = 2
    Cells = 2
    BucketDuration = 2
    MaxRatePoints = 1
    Times = {0, 2, 4}
    MaxMsgs = 3
    Monotonic = FALSE
SPECIFICATION Spec
INVARIANT RateOrdered
CHECK_DEADLOCK FALSE
