SPECIFICATION LiveSpec
CONSTANTS
    a = a
    b = b
    c = c
    NoStep = NoStep
    Steps = {a, b, c}
    Shared = {a, b}
    AgentMayLeave = TRUE
    MaxEvents = 1
CONSTRAINT Apart
PROPERTIES
    OwnSessionAnswered
    
CHECK_DEADLOCK FALSE
