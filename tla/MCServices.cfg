SPECIFICATION ServicesSpec
CONSTANTS
  Conns = {"video", "page"}
  EventConns = {"page"}
  SessionOf <- ConnSessionOf
  DeviceOf <- ConnDeviceOf
  AddressOf <- ConnAddressOf
  Revokers = {"r1", "r2"}
  MaxWithdrawn = 1
  Attempts = {1, 2, 3}
  Addresses = {"home"}
  Names = {"ann", "bob"}
  Challenges = {"c1"}
  MaxAttempts = 2
  CaptchaAfter = 1
  GuardWindow = 1
  Lockout = 1
  Ttl = 2
  IssueInterval = 1
  MaxLive = 1
  MaxClock = 2
  MaxEvents = 1
  BanIps = {"home", "proxy"}
  ProtectedIps = {"proxy"}
  BanCallers = {"c1", "c2"}
  SnapshotTtl = 2
  BanTicks = 4
  Builds = {1, 2}
  MaxAge = 1
  MaxPerDay = 2
  LastDay = 3
  MaxOutside = 2
  QueueSize = 8
  ConfiguredSoft = 3
  MaxBytes = 2
  Sizes = {1, 3}
  Wrap = 16
  Modes = {"raw", "legacy"}
  MaxGen = 3
  MaxFrames = 3
  MaxNotices = 1
  AdbRoutes = {"r1", "r2"}
  AdbAddresses = {"old", "new"}
  MaxAdbEdits = 2
  Scrcpys = {1, 2, 3}
  Ports = {1, 2}
  MaxAdbFailures = 1
  NameSize = 2
  MetaSize = 2
  HeadSize = 2
  PacketMax = 2
  PieceMax = 5
  PacketCount = 3
  Recheck = 1
  DrainTime = 1
  CallbackIds = {1, 2, 3}
  TaskIds = {11}
  Options = {"o1"}
  FormFields = {"f", "secret"}
  Forbidden = {"secret"}
  Capacities = {1, 2}
  MaxRenders = 4
CHECK_DEADLOCK FALSE
INVARIANTS QueueSound RevokedIsMarked    AdbStatusCurrent  DemuxerExact  PolicySound
