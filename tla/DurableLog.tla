----------------------------- MODULE DurableLog -----------------------------
(***************************************************************************)
(* What session persistence promises for one live session: the stored log   *)
(* is always a prefix of the session's log, it only grows, and a flush that *)
(* succeeds covers every event that was in the log when it was called       *)
(* (packages/session/session-persistence/src/write-behind.ts, "Cancel the   *)
(* batching wait and durably drain through a quiescent point").             *)
(***************************************************************************)
EXTENDS Naturals

CONSTANT Flushers  \* concurrent callers of flush

VARIABLES
  submitted,  \* events in the session's log
  stored,     \* events of it that are durable
  flush,      \* "none", "waiting", "done" or "failed"
  target      \* what the log held when the flush was called

vars == <<submitted, stored, flush, target>>

Init ==
  /\ submitted \in Nat /\ stored = 0
  /\ flush = [f \in Flushers |-> "none"] /\ target = [f \in Flushers |-> 0]

Submit == submitted' = submitted + 1 /\ UNCHANGED <<stored, flush, target>>

Persist ==
  /\ stored' \in Nat /\ stored < stored' /\ stored' <= submitted
  /\ UNCHANGED <<submitted, flush, target>>

CallFlush(f) ==
  /\ flush[f] # "waiting"
  /\ flush' = [flush EXCEPT ![f] = "waiting"]
  /\ target' = [target EXCEPT ![f] = submitted]
  /\ UNCHANGED <<submitted, stored>>

\* Waiting flushes settle together: all that succeed are covered.
FlushesSettle ==
  /\ flush' \in [Flushers -> {"none", "waiting", "done", "failed"}]
  /\ \A f \in Flushers : flush'[f] # flush[f] =>
       /\ flush[f] = "waiting" /\ flush'[f] \in {"done", "failed"}
       /\ flush'[f] = "done" => target[f] <= stored
  /\ UNCHANGED <<submitted, stored, target>>

Next == Submit \/ Persist \/ FlushesSettle \/ \E f \in Flushers : CallFlush(f)

Spec == Init /\ [][Next]_vars
=============================================================================
