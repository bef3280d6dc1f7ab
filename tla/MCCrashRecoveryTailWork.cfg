CONSTANTS
  MaxEvents = 9
  MaxCalls = 2
  MaxFaults = 2
SPECIFICATION Spec
INVARIANTS
  TailWorkKept
CHECK_DEADLOCK FALSE
