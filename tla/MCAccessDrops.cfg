SPECIFICATION AccessSpec
CONSTANTS
  AccessQueue = 1
  AccessBatch = 1
  AccessRows = 3
  RetentionHours = 0
  PruneRows = 1
  PageRows = 1
  LastHour = 2
  MaxRequests = 3
  MaxExports = 0
  MaxDeaths = 0
CHECK_DEADLOCK FALSE
INVARIANT LossesShown
