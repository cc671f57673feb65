CONSTANTS
    s1 = s1  s2 = s2  x1 = x1  x2 = x2  None = None
    Sessions <- MCSessions
    Streamers <- OneStreamer
    MaxInst = 2
    MaxStops = 1
    Parallel = TRUE
    ReuseSessions = TRUE
    ChanCap = 1
    MaxCmds = 0
SPECIFICATION Spec
PROPERTY DuplicateStartRejected
CHECK_DEADLOCK FALSE
