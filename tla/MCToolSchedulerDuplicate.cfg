CONSTANTS
  NCalls = 2
  MaxParallel = 2
  InboxRoom = 0
SPECIFICATION Spec
CHECK_DEADLOCK FALSE
INVARIANT OneResultPerCall
