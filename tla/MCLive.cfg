SPECIFICATION LiveSpec
CONSTANTS
  u1 = u1
  u2 = u2
  s1 = s1
  v1 = v1
  Users <- TwoUsers
  Admins <- OneAdmin
  Sockets <- OneSocket
  Viewers <- OneViewer
  Owner <- Owners
  Http = http
  Requests = {h1}
  NoLease = NoLease
  NoOne = NoOne
  TTL = 2
  Verify = 1
  Recheck = 1
  Lag = 1
  MaxTime = 0
  MaxCalls = 3
  MaxChanges = 0
  Watchers = {w1}
  Transports = {t1}
  NoWatcher = NoWatcher
  NoTransport = NoTransport
  Legacy = FALSE
  AutoStop = TRUE
  QueueSize = 6
  ConfiguredSoft = 1
  MaxBytes = 2
  Sizes = {1, 3}
  Wrap = 16
  Modes = {"raw"}
  MaxGen = 3
  MaxFrames = 2
  MaxNotices = 1
CHECK_DEADLOCK FALSE
PROPERTIES EveryMessageAnswered LockReturns StreamsEnd MessagesArrive
