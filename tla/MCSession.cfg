SPECIFICATION PartSpec
CONSTANTS
  d1 = d1
  d2 = d2
  p1 = p1
  p2 = p2
  k1 = k1
  k2 = k2
  t1 = t1
  t2 = t2
  StreamBytes = {0, 1, 5}
  MaxStream = 10
  MaxPiece = 3
  MaxNal = 5
  StreamModes = {"raw", "protocol", "legacy"}
  Versions = {1, 2}
  MaxUnit = 3
  MaxLoopQueue = 1
  VideoWrap = 3
  QueueSize = 2
  ConfiguredSoft = 0
  MaxBytes = 4
  Sizes = {1}
  Wrap = 16
  Modes = {"raw"}
  MaxGen = 3
  MaxFrames = 2
  MaxNotices = 2
  Watchers = {w1}
  Transports = {t1, t2}
  NoWatcher = NoWatcher
  NoTransport = NoTransport
  Legacy = FALSE
  AutoStop = TRUE
  Devices = {d1, d2}
  Addresses = {a1, a2}
  Objects = {o1, o2}
  Tasks = {k1, k2}
  MayRestart = TRUE
  NoTarget = NoTarget
  Pages = {p1, p2}
  MaxChanges = 2
CHECK_DEADLOCK FALSE
INVARIANTS SessionOwnsTransport GuardCoversSession PayloadsExact UnitsExact PacketsDecodable FramesFresh 
  
SYMMETRY PartSymmetry
