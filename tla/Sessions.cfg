SPECIFICATION Spec
CONSTANTS
  Tabs = {t1}
  MaxEvents = 2
  MaxCmds = 2
  MaxBreaks = 1
  MaxOutput = 1
  Timeouts = {"on"}
CONSTRAINT Undisturbed
INVARIANTS
    SessionsInv
PROPERTIES
    SessionsSettle
CHECK_DEADLOCK FALSE
