SPECIFICATION Spec
CONSTANTS
  Admins = {a1, a2}
  ConnectorIds = {c1}
  MaxConnEdits = 2
  MaxConnFaults = 1
  MaxHalfSeconds = 2
  BrowseReqs = {r1, r2}
  SendCap = 1
  MaxStreams = 2
  MaxHealth = 1
  Viewers = {v1, v2}
  Flushers = {f1, f2}
  SinkCap = 1
  ViewCap = 1
  MaxBatch = 2
  MaxSubs = 1
  MaxRecords = 2
  MaxLogFaults = 1
  s1 = s1
  CtSessions = {s1, s2}
  Handlers = {h1, h2}
  NoHandler = NoHandler
  BatchSize = 2
  MaxLines = 3
  MaxCtFaults = 1
  WsClients = {w1, w2}
  FeedCap = 1
  MaxPatterns = 1
  MaxFeedEvents = 3
  MaxFeedBreaks = 2
  Pids = {p1, p2, p3}
  NoPid = NoPid
  Empty = Empty
  PidReuse = TRUE
  MaxUpheavals = 3
  MaxUpdates = 3
  MaxTgFaults = 2
INVARIANTS
    BrowsingInv
    LoggingInv
    ContentInv
    EventsFeedInv
    TelegramInv
PROPERTIES
    
    LifecycleSafe
CHECK_DEADLOCK FALSE
