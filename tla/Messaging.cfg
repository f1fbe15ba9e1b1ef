SPECIFICATION Spec
CONSTANTS
  Publishers = {p1, p2}
  Subscribers = {s1}
  BusWorkers = {w1, w2}
  BusBuffer = 1
  MaxPublish = 2
  Injections = {i1, i2}
  QueueCapacity = 2
  MaxQueues = 2
  HookEvents = {e1, e2}
  MaxAttempts = 2
  MaxHookEdits = 2
  TrigJobs = {a, b}
  TriggerIds = {t1, t2}
  TrigWorkers = {v1}
  TrigBuffer = 2
  MaxManualRuns = 1
  MaxTrigEdits = 2
INVARIANTS
    
    InjectionQueueInv
PROPERTIES
    
    
    MessagesSettle
CHECK_DEADLOCK FALSE
