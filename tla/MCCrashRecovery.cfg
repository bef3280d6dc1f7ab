CONSTANTS
  MaxEvents = 9
  MaxCalls = 2
  MaxFaults = 2
SPECIFICATION FairSpec
INVARIANTS
  LogsRepaired
  RunsAreRecorded
  ShownIsKept
PROPERTIES
  Recovers
CHECK_DEADLOCK FALSE
