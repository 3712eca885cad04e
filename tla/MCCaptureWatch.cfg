SPECIFICATION WatchSpec
CONSTANTS
  g1 = g1
  g2 = g2
  old = old
  new = new
  east = east
  Conns = {g1}
  Signing = {g1}
  Games <- OneGame
  OwnerOf <- Owners
  SubnetOf <- OneSubnet
  MaxCandidates = 2
  Initial = 0
  MaxInterval = 0
  Interval = 2
  StallAfter = 3
  MaxErrors = 1
  Capacity = 1
  Events = {"stop", "error", "quit", "tick", "restart"}
PROPERTIES WedgeIsEscaped StopIsHonoured
CHECK_DEADLOCK FALSE
