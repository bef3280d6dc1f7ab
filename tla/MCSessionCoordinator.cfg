CONSTANTS
  Callers <- MCCallers
  Roles <- MCRoles
  MaxStored = 3
  MaxMishaps = 1
SPECIFICATION FairSpec
CHECK_DEADLOCK FALSE
INVARIANTS
  ContinuesItsLog
  OneSession
  ViewsAreCurrent
PROPERTIES
  ImplementsSessionOwner
  CallsReturn
