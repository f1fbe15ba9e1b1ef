SPECIFICATION Spec
CONSTANTS
  Jobs = {j1, j2}
  StepIds = {s1, s2, s3, s4}
  Editors = {u1, u2}
  EditRequests = {r1, r2}
  Machines = {m1, m2}
  MaxRunJobDepth = 2
  ScheduleIds = {c1}
  Exprs = {x, y}
  SchedRequests = {q1, q2}
  MaxEntries = 4
  ScheduledJob = a
  TrigJobs = {a}
  TriggerIds = {}
  TrigWorkers = {}
  TrigBuffer = 1
  MaxManualRuns = 0
  MaxTrigEdits = 0
SYMMETRY Symmetry
CONSTRAINT Bounds
INVARIANTS
    SchedulesInv
PROPERTIES
    JobEditorSafe
CHECK_DEADLOCK FALSE
