SPECIFICATION Spec
CONSTANTS
  UserIds = {u1, u2}
  FirstAdmin = u1
  Emails = {e1, e2}
  Passwords = {p1}
  Tokens = {t1, t2}
  ApiKeys = {k1}
  Clients = {c1, c2}
  TokenTTL = 2
  MaxAcTime = 3
  MaxAcEdits = 2
  Callers = {r1, r2}
  MachineIds = {m1}
  ProvTokens = {t1, t2}
  ShortCodes = {x, y}
  ProvTTL = 1
  MaxInserts = 2
  MaxPvTime = 2
  MaxPvRequests = 5
  MaxPvFaults = 1
  Channels = {c1}
  NotifAdmins = {a1, a2}
  NotifUsers = {u1}
  Secrets = {s1}
  NotifTypes = {t1, t2}
  NotifWorkers = {w1, w2}
  Interval = 3
  LimiterCap = 1
  MaxStale = 1
  MaxNotifTime = 4
  MaxNotifEdits = 2
  MaxNotices = 3
  i1 = i1
  i2 = i2
  w1 = w1
  w2 = w2
  Watches = {w1, w2}
  GhItems = {i1, i2}
  MaxTime = 2
  MaxFaults = 1
CONSTRAINT FewNotices
INVARIANTS
    ProvisioningInv
    NotificationsInv

    
    
CHECK_DEADLOCK FALSE
