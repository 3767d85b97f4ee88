SPECIFICATION ChainSpec
CONSTANTS
  RowLimits = {2, 3}
  PruneBatch = 1
  AlertLimit = 1
  RetentionDays = 1
  LegacyRows = 1
  Dates = {1, 2, 3}
  MaxRecords = 5
  MaxStarts = 2
INVARIANT AlwaysVerifies
CHECK_DEADLOCK FALSE
