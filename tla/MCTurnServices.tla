--------------------------- MODULE MCTurnServices ---------------------------
(* One agent with two jobs and a third that nobody owns; a normal retry     *)
(* policy, an unbounded one, and calls that ask.                            *)
EXTENDS TurnServices

MCCalls == {"c2"}
MCAskers == {"c1"}
MCJobs == {"j1", "j2", "j3"}
MCOwner(j) == IF j = "j3" THEN Unowned ELSE "agent"
MCPolicies == {"normal", "always"}
MCMode(k) == k
MCBudget(k) == 1
=============================================================================
