CONSTANTS
    Keys = {1, 2, 3}
    Capacity = 2
    UseSketch = TRUE
    Rows = 2
    Cells = 2
    MaxMsgs = 8
    TopCount = 1
SPECIFICATION Spec
INVARIANT HeavyKeysTracked
CHECK_DEADLOCK FALSE
