SPECIFICATION FairSpec
CONSTANTS
    a = a
    b = b
    c = c
    k = k
    NoKey = NoKey
    Steps <- MCSteps
    Keys = {k}
    Jobs <- MCJobs
INVARIANTS
    TypeOK
    SessionKeyExclusive
    SingleExecution
PROPERTIES
    SchedulingSound
    ImplementsContract
    RunEnds
CHECK_DEADLOCK FALSE
