CONSTANTS
    Keys = {1, 2, 3, 4}
    Capacity = 3
    UseSketch = FALSE
    Rows = 1
    Cells = 1
    MaxMsgs = 8
    TopCount = 2
SPECIFICATION Spec
INVARIANT TypeOK NeverUnderCount OverCountBounded HeavyKeysTracked TopNSound
CHECK_DEADLOCK FALSE
