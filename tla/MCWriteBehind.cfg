CONSTANTS
  f1 = f1
  f2 = f2
  Flushers <- MCFlushers
  MaxEvents = 4
SPECIFICATION FairSpec
INVARIANTS
  NothingLost
PROPERTIES
  BecomesDurable
  FlushSettles
  ImplementsDurableLog
