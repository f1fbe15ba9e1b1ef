SPECIFICATION FairSpec
CONSTANTS
  Admins = {a1}
  ConnectorIds = {c1}
  MaxConnEdits = 0
  MaxConnFaults = 1
  MaxHalfSeconds = 2
  BrowseReqs = {r1}
  SendCap = 1
  MaxStreams = 2
  MaxHealth = 1
  Viewers = {v1}
  Flushers = {f1, f2}
  SinkCap = 1
  ViewCap = 1
  MaxBatch = 2
  MaxSubs = 1
  MaxRecords = 2
  MaxLogFaults = 1
  s1 = s1
  CtSessions = {s1}
  Handlers = {h1, h2}
  NoHandler = NoHandler
  BatchSize = 2
  MaxLines = 3
  MaxCtFaults = 1
  WsClients = {w1, w2}
  FeedCap = 1
  MaxPatterns = 1
  MaxFeedEvents = 2
  MaxFeedBreaks = 1
  Pids = {p1}
  NoPid = NoPid
  Empty = Empty
  PidReuse = FALSE
  MaxUpheavals = 0
  MaxUpdates = 2
  MaxTgFaults = 2
PROPERTIES
    
    StreamsServed
    
CHECK_DEADLOCK FALSE
