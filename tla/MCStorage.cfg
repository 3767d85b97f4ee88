SPECIFICATION StorageSpec
CONSTANTS
  People = {"root", "ann"}
  Root = "root"
  Tablets = {"d"}
  Slots = {1, 2}
  Logins = {"l1"}
  MaxSessions = 1
  IdleSeconds = 1
  AbsoluteSeconds = 2
  LastSecond = 2
  MaxEdits = 2
  Holders = {"root", "ann"}
  Spellings = {"main", "Main", "alt"}
  KeyOf <- BindingKey
  Phones = {"d1"}
  NoPhone = "none"
  MaxSaves = 3
  RowLimits = {2, 3}
  PruneBatch = 1
  AlertLimit = 1
  RetentionDays = 1
  LegacyRows = 1
  Dates = {1, 2, 3}
  MaxRecords = 4
  MaxStarts = 2
  AccessQueue = 3
  AccessBatch = 2
  AccessRows = 3
  RetentionHours = 1
  PruneRows = 1
  PageRows = 1
  LastHour = 3
  MaxRequests = 4
  MaxExports = 1
  MaxDeaths = 1
  Pages = {"c1", "c2", "c3"}
  RecUserOf <- PageUser
  RecAdmins = {"root"}
  RecThreads = {"r1"}
  RecTtl = 1
  RecGrace = 1
  RecPlaces = 1
  RecLag = 1
  RecTimes = 1
  RecStarts = 1
CHECK_DEADLOCK FALSE
INVARIANTS AccountsSafe BindingsSound AuditChainSound  RecordSound
PROPERTIES PromiseKept
