SPECIFICATION Spec
CONSTANTS
    a = a
    b = b
    c = c
    NoStep = NoStep
    Steps = {a, b}
    Shared = {a, b}
    AgentMayLeave = TRUE
    MaxEvents = 2
INVARIANTS
    TypeOK
    CalledBackOnce
    StaysTracked
CHECK_DEADLOCK FALSE
