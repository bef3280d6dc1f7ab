--------------------------- MODULE MCResourceLock ---------------------------
(***************************************************************************)
(* Model-checking instance of ResourceLock: the first two dispatches share  *)
(* the signal of a step, the third belongs to another agent.  The first one  *)
(* claims anything; the others' tools make the claims that nest the drains   *)
(* of readers and cross two keys.                                            *)
(***************************************************************************)
EXTENDS ResourceLock

CONSTANTS d1, d2, d3, s1, s2

MCDispatches == {d1, d2, d3}
MCSignals == {s1, s2}
MCSignalOf(d) == IF d = d3 THEN s2 ELSE s1
MCKeys == {1, 2}
MCClaimsOf(d) ==
  CASE d = d1 -> SUBSET (MCKeys \X Access)
    [] d = d2 -> {{<<1, "read">>}, {<<1, "write">>, <<2, "read">>}}
    [] d = d3 -> {{<<1, "read">>, <<2, "write">>}, {<<2, "write">>}}
=============================================================================
