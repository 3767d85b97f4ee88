SPECIFICATION TargetsSpec
CONSTANTS
  Devices = {d1, d2}
  Addresses = {a1, a2}
  Objects = {o1, o2, o3}
  Tasks = {k1, k2}
  MayRestart = TRUE
  NoTarget = NoTarget
INVARIANT OneStreamPerTarget
CHECK_DEADLOCK FALSE
