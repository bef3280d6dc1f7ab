CONSTANTS
  d1 = d1
  d2 = d2
  d3 = d3
  s1 = s1
  s2 = s2
  Dispatches <- MCDispatches
  Signals <- MCSignals
  SignalOf <- MCSignalOf
  ClaimsOf <- MCClaimsOf
  Keys <- MCKeys
SPECIFICATION FairSpec
INVARIANTS
  MutualExclusion
  TableMatchesLeases
  NoLostWaiter
PROPERTIES
  NoOvertaking
  WaitersServed
