SPECIFICATION FairSpec
CONSTANTS
  NONE = NONE
  MaxVersion = 2
  Capacity = 2
  Faults <- AllFaults
INVARIANTS TypeOK NoFalseAlarm CleanShutdown
PROPERTIES DeathIsShown LatestIsShown ShutdownEnds
CHECK_DEADLOCK FALSE
