SPECIFICATION LeaseSpec
CONSTANTS
  u1 = u1
  u2 = u2
  s1 = s1
  s2 = s2
  v1 = v1
  Users <- TwoUsers
  Admins <- OneAdmin
  Sockets <- TwoSockets
  Viewers <- OneViewer
  Owner <- Owners
  Http = http
  Requests = {h1}
  NoLease = NoLease
  NoOne = NoOne
  TTL = 2
  Verify = 1
  Recheck = 1
  Lag = 1
  MaxTime = 5
  MaxCalls = 2
  MaxChanges = 1
CHECK_DEADLOCK FALSE
INVARIANTS TypeOK FenceInv
PROPERTIES OneController LeaseChangesByRight 
