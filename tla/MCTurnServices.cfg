CONSTANTS
  Calls <- MCCalls
  Askers <- MCAskers
  Jobs <- MCJobs
  Owner <- MCOwner
  Agent = "agent"
  Policies <- MCPolicies
  Mode <- MCMode
  Budget <- MCBudget
  MaxActive = 1
  MaxTerminal = 1
  MaxDelegated = 1
  MaxQuestions = 2
  MaxSteps = 2
  MaxUnloads = 1
SPECIFICATION Spec
CHECK_DEADLOCK FALSE
INVARIANTS
  CompletionKnown
  ProducersBounded
  RetriesBounded
  GrantIsFresh
  TeardownReachesAll
