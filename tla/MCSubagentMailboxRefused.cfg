CONSTANTS
  c1 = c1
  c2 = c2
  c3 = c3
  m1 = m1
  m2 = m2
  Callers <- MCCallers
  Messages <- MCMessages
  Key <- MCKey
  Nobody = Nobody
  Nothing = Nothing
  MaxFaults = 1
SPECIFICATION Spec
CHECK_DEADLOCK FALSE
INVARIANT
  ReplaysOlderDeliveries
