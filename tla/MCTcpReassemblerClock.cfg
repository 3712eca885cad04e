SPECIFICATION Spec
CONSTANTS
  Mod = 32
  MaxBuffer = 4
  MaxCache = 8
  EntryOverhead = 1
  MinBehind = 6
  MaxStallPushes = 2
  MaxBackoff = 4
  TimeBudget = 1
  BytesBudget = 2
  StreamLen = 6
  SegLen = 3
  ISNs <- ISNsOne
INVARIANT CaughtUpHasNoStallClock
