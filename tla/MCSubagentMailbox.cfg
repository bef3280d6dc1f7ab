CONSTANTS
  c1 = c1
  c2 = c2
  c3 = c3
  m1 = m1
  m2 = m2
  Callers <- MCCallers
  Messages <- MCMessages
  Key <- MCKey
  Nobody = Nobody
  Nothing = Nothing
  MaxFaults = 2
SPECIFICATION FairSpec
CHECK_DEADLOCK FALSE
INVARIANTS
  ReceiptKept
  InAcceptanceOrder
  CrashNeverRepeats
PROPERTIES
  SettlesQuiet
  CallAnswered
