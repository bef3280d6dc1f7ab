----------------------------- MODULE SessionOwner -----------------------------
(***************************************************************************)
(* What the coordinator promises of one log, over all the Sessions that are *)
(* resumed from it in turn: a Session continues the log where it ends, is    *)
(* the only one of its process to write while it owns the log, and leaves     *)
(* nothing unstored unless storing it failed and was retried.  Another process *)
(* is kept out by the Session's proof of ownership alone: a Session without    *)
(* one can be overtaken, and one whose proof was taken over writes no more     *)
(* (packages/session/session-persistence/src/coordinator.ts, mutation.ts).     *)
(***************************************************************************)
EXTENDS Naturals

VARIABLES
  stored,    \* events written to the log
  owner,     \* its Session: "none", "live", "closing", or "retrying" after a failure to close
  seen,      \* where that Session takes the log to end
  tail,      \* events of that Session that are not in the log
  fence,     \* its proof of ownership: "none", "held" or "lost"
  overtaken  \* another process wrote since the log was last checked for a resumption

vars == <<stored, owner, seen, tail, fence, overtaken>>

Init ==
  /\ stored \in Nat /\ owner = "none" /\ seen = 0 /\ tail = 0
  /\ fence = "none" /\ overtaken = FALSE

\* A resumption finds the log as it was read.
Check == owner = "none" /\ overtaken' = FALSE /\ UNCHANGED <<stored, owner, seen, tail, fence>>

\* A Session is resumed over the whole log; its setup may have appended an event.
Open ==
  /\ owner = "none" /\ owner' = "live" /\ tail' \in {0, 1}
  /\ fence' \in {"none", "held", "lost"} /\ seen' \in Nat
  /\ fence' = "held" \/ ~overtaken => seen' = stored
  /\ UNCHANGED <<stored, overtaken>>

Grow ==
  /\ owner = "live" /\ fence # "lost" /\ tail' = tail + 1
  /\ UNCHANGED <<stored, owner, seen, fence, overtaken>>

\* Events move from the tail to the log.
Store ==
  /\ owner # "none" /\ fence # "lost"
  /\ stored < stored' /\ stored' + tail' = stored + tail /\ seen' + tail' = seen + tail
  /\ tail' \in Nat /\ UNCHANGED <<owner, fence, overtaken>>

Close == owner = "live" /\ owner' = "closing" /\ UNCHANGED <<stored, seen, tail, fence, overtaken>>

CloseFails ==
  /\ owner = "closing" /\ (tail > 0 \/ fence = "lost") /\ owner' = "retrying"
  /\ UNCHANGED <<stored, seen, tail, fence, overtaken>>

Release ==
  /\ \/ owner = "closing" /\ tail = 0
     \/ owner = "retrying"
  /\ owner' = "none" /\ seen' = 0 /\ tail' = 0 /\ fence' = "none"
  /\ UNCHANGED <<stored, overtaken>>

\* A repair, while no Session owns the log.
Repair ==
  /\ owner = "none" /\ stored < stored' /\ stored' \in Nat
  /\ UNCHANGED <<owner, seen, tail, fence, overtaken>>

\* Another process writes.
Overtake ==
  /\ fence # "held" /\ stored < stored' /\ stored' \in Nat /\ overtaken' = TRUE
  /\ UNCHANGED <<owner, seen, tail, fence>>

LoseFence == fence = "held" /\ fence' = "lost" /\ UNCHANGED <<stored, owner, seen, tail, overtaken>>

Next ==
  \/ Check \/ Open \/ Grow \/ Store \/ Close \/ CloseFails \/ Release
  \/ Repair \/ Overtake \/ LoseFence

Spec == Init /\ [][Next]_vars
=============================================================================
