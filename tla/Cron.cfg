SPECIFICATION Spec
CONSTANTS
  ScheduleIds = {c1}
  Exprs = {x}
  SchedRequests = {q1}
  MaxEntries = 1
  ScheduledJob = a
  TrigJobs = {a}
  TriggerIds = {t1}
  TrigWorkers = {w1}
  TrigBuffer = 3
  MaxManualRuns = 0
  MaxTrigEdits = 1
PROPERTIES
    ScheduledJobRuns
CHECK_DEADLOCK FALSE
