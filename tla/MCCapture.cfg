SPECIFICATION FollowSpec
CONSTANTS
  g1 = g1
  g2 = g2
  old = old
  new = new
  east = east
  Conns = {g1, g2}
  Signing = {g1, g2}
  Games <- TwoGames
  OwnerOf <- Owners
  SubnetOf <- OneSubnet
  MaxCandidates = 2
  Initial = 1
  MaxInterval = 1
  Interval = 1
  StallAfter = 1
  MaxErrors = 1
  Capacity = 1
  Events = {"restart", "move", "tick"}
INVARIANTS TypeOK NoMixedConnections
PROPERTIES SubnetNeverReadopts GameIsFollowed
