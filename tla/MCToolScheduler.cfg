CONSTANTS
  NCalls = 3
  MaxParallel = 2
  InboxRoom = 1
SPECIFICATION FairSpec
CHECK_DEADLOCK FALSE
INVARIANTS
  ResultsPaired
  ExclusiveIsBarrier
  NoBodyOutlivesItsResult
PROPERTIES
  NothingStartsLate
  ExecutionEnds
