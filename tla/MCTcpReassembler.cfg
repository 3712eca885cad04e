SPECIFICATION FairSpec
CONSTANTS
  Mod = 32
  MaxBuffer = 4
  MaxCache = 8
  EntryOverhead = 1
  MinBehind = 6
  MaxStallPushes = 2
  MaxBackoff = 4
  TimeBudget = 1
  BytesBudget = 2
  StreamLen = 5
  SegLen = 3
  ISNs <- ISNsTwo
INVARIANTS TypeOK NoSilentBreak StallIsGenuine StallBounded CacheAccounted ChunkContiguous
PROPERTIES ImplementsOrderedStream EveryGapEnds FollowsReconnect
