CONSTANTS
  m1 = m1
  m2 = m2
  m3 = m3
  Messages <- MCMessages
  Ways <- MCWays
  MaxPending = 2
  MaxSteps = 1
  MaxTurns = 4
  MaxCalls = 2
SPECIFICATION FairSpec
INVARIANTS
  ClosesWhatItOpens
  InboxAccounted
  StrandsNoWake
  AbortEndsDriver
PROPERTIES
  PromptOpensTurn
  QueuedWorkServed
  DisposalCompletes
