\* current_thread runtime; a later start_collection may reuse a session id.
CONSTANTS
    s1 = s1  s2 = s2  x1 = x1  x2 = x2  None = None
    Sessions <- MCSessions
    Streamers <- OneStreamer
    MaxInst = 2
    MaxStops = 0
    Parallel = FALSE
    ReuseSessions = TRUE
    ChanCap = 1
    MaxCmds = 1
SPECIFICATION Spec
INVARIANT TypeOK
PROPERTY RegistryAtomic
PROPERTY Quiescence
PROPERTY SendsReturn
CHECK_DEADLOCK FALSE
