SPECIFICATION MCSpec
CONSTANTS
    MaxConns = 3
    None = None
    DbFails = TRUE
    Sweeps = TRUE
    Prompt = FALSE
    Pids = {p1, p2, p3}
    NoPid = NoPid
    Empty = Empty
    PidReuse = FALSE
    MaxUpheavals = 2
CONSTRAINT TwoIfRough
INVARIANTS
    LiveIsReachable
PROPERTIES
    ConnectionsSettle
    
CHECK_DEADLOCK FALSE
