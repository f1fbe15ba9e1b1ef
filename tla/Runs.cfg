SPECIFICATION RunsSpec
CONSTANTS
    r1 = r1
    r2 = r2
    a = a
    b = b
    c = c
    d = d
    c1 = c1
    c2 = c2
    c3 = c3
    None = None
    Creator = Creator
    Runs = {r1, r2}
    Steps = {a, b, c}
    Deps <- Chain
    FailRun = {c}
    MaxConcurrentRuns = 1
    Timeout = TRUE
    Calls = {c1, c2, c3}
    Ops = {"cancel", "retry", "repair"}
    Patient = TRUE
    StepIds <- MCStepIds
    Graphs <- MCGraphs
CONSTRAINT Apart
INVARIANTS
    VerdictCorrect
PROPERTIES
    
    CallsEnd
CHECK_DEADLOCK FALSE
