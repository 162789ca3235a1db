SPECIFICATION MCSpec
CONSTANTS
  Callers = {c1, c2, c3}
  MaxConcurrency = 1
  MaxRetries = 2
  Inspectors = {i1, i2, i3}
  Threshold = 2
  Retries = 2
  Threads = {t1, t2}
  Messages = {m1, m2}
  MaxSize = 1
  CacheTTL = 0
  MaxFailures = 2
  BackoffTime = 2
  NoMessage = NoMessage
  NoAnswer = NoAnswer
  Controllers = {k1, k2}
  Viewers = {v1}
  QueueSize = 2
  MaxFrames = 3
  MaxCaptures = 2
  Nobody = Nobody
  Feeds = {f1, f2}
  MaxInstances = 2
  Requesters = {q1, q2}
  MaxSaveErrors = 1
  MaxRestarts = 1
  NoThread = NoThread
  NotLoaded = NotLoaded
  Users = {u1}
  Readers = {r1, r2}
  TTL = 2
  MaxTime = 4
INVARIANTS MCTypeOK SlotsAccounted NoHammering VerdictIsReal FramesInOrder NoDeadSubscribers CachesAreFresh
PROPERTIES PublisherReturns Recovers
CHECK_DEADLOCK FALSE
