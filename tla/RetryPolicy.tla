----------------------------- MODULE RetryPolicy -----------------------------
(***************************************************************************)
(* Recovery of failed model requests (packages/llm/llm-retry/src/index.ts)  *)
(* inside the request loop of one step (agent-loop's agent.ts): every       *)
(* failure carries the retry policy of the route that served it, a retry is *)
(* written to the log before its wait, and the budget of a policy is counted *)
(* over the records of the same turn and step.                              *)
(*                                                                         *)
(* TurnServices opens and closes the turn and aborts it.                    *)
(***************************************************************************)
EXTENDS Integers, FiniteSetsExt

CONSTANTS
  Policies,      \* policy keys, together with the provider
  Mode(_),       \* "normal" or "always"
  Budget(_),     \* maxRetries of a normal policy; bound: retries of an always policy
  MaxDelegated   \* bound: retries a downstream recovery decides

ASSUME RetryAssumption ==
  \A k \in Policies : Mode(k) \in {"normal", "always"} /\ Budget(k) \in Nat

VARIABLES
  phase,      \* "closed", "requesting", "recovering", "downstream", "backoff", "tools", "failing"
  aborted,    \* the signal of the turn
  plugin,     \* the recovery plugin: "up", "draining", "down"
  failure,    \* the request that failed: its policy and how recovery classifies it
  record,     \* the number in the last llm/retry record of each policy, for this step
  requests,   \* history: requests made in the step
  delegated   \* history: those a downstream recovery asked for

retryVars == <<phase, aborted, plugin, failure, record, requests, delegated>>

NoPolicy == "none"
NoFailure == [policy |-> NoPolicy, kind |-> "other"]
PassedBy == [policy |-> NoPolicy, kind |-> "passed by"]
\* A normal policy retries the codes it lists unless the provider names too long a delay.
Failures == [policy : Policies, kind : {"eligible", "other"}] \cup {NoFailure}

RetryInit ==
  /\ phase = "closed" /\ aborted = FALSE /\ plugin = "up" /\ failure = NoFailure
  /\ record = [k \in Policies |-> 0] /\ requests = 0 /\ delegated = 0

-----------------------------------------------------------------------------

NewStep == phase' = "requesting" /\ requests' = 1 /\ UNCHANGED <<failure, record, delegated>>

\* The records of a step count for that step only, so nothing is kept of them.
StepOver(p) ==
  /\ phase' = p /\ record' = [k \in Policies |-> 0]
  /\ requests' = 0 /\ delegated' = 0 /\ failure' = NoFailure

Request ==
  phase' = "requesting" /\ requests' = requests + 1 /\ failure' = NoFailure

\* An abort, or an error of another kind, leaves the step.
RequestThrows ==
  /\ phase = "requesting" /\ phase' = "failing"
  /\ UNCHANGED <<aborted, plugin, failure, record, requests, delegated>>

RequestFails ==
  /\ phase = "requesting" /\ ~aborted
  /\ failure' \in Failures /\ phase' = "recovering"
  /\ UNCHANGED <<aborted, plugin, record, requests, delegated>>

Fused == aborted \/ plugin # "up"
SpentLate(k) == Mode(k) = "normal" /\ record[k] > Budget(k)  \* mutant: off by one

Spent(k) == Mode(k) = "normal" /\ record[k] >= Budget(k)

Always == failure.policy # NoPolicy /\ Mode(failure.policy) = "always"

\* recover(): next() decides instead of a normal policy, and before an always policy.
Delegates ==
  \/ failure.policy = NoPolicy \/ Always
  \/ failure.kind # "eligible" \/ Spent(failure.policy)

Downstream ==
  /\ phase = "recovering" /\ plugin = "up" /\ Delegates
  /\ phase' = IF Always /\ Fused THEN "failing" ELSE "downstream"
  /\ UNCHANGED <<aborted, plugin, failure, record, requests, delegated>>

\* Once disposed, a captured callback answers nothing and an absent one is passed by.
PluginGone ==
  /\ phase = "recovering" /\ plugin # "up"
  /\ \/ phase' = "failing" /\ UNCHANGED failure
     \/ phase' = "downstream" /\ failure' = PassedBy
  /\ UNCHANGED <<aborted, plugin, record, requests, delegated>>

\* The loop throws when the turn was aborted meanwhile, and an always policy
\* drops the answer when it was or the plugin was disposed.
DownstreamRetries ==
  /\ phase = "downstream" /\ delegated < MaxDelegated
  /\ \/ (aborted \/ (Always /\ Fused)) /\ phase' = "failing" /\ UNCHANGED <<failure, requests, delegated>>
     \/ ~aborted /\ ~(Always /\ Fused) /\ Request /\ delegated' = delegated + 1
  /\ UNCHANGED <<aborted, plugin, record>>

\* backoff(): the record is written unless a signal has fired.
Schedule(k) ==
  IF Fused THEN phase' = "failing" /\ UNCHANGED record
  ELSE phase' = "backoff" /\ record' = [record EXCEPT ![k] = @ + 1]

\* At the bound of its records an always policy gives up.
DownstreamDeclines ==
  /\ phase = "downstream"
  /\ \/ Always /\ record[failure.policy] < Budget(failure.policy) /\ Schedule(failure.policy)
     \/ Always /\ record[failure.policy] = Budget(failure.policy) /\ phase' = "failing" /\ UNCHANGED record
     \/ ~Always /\ phase' = "failing" /\ UNCHANGED record
  /\ UNCHANGED <<aborted, plugin, failure, requests, delegated>>

Recover ==
  /\ phase = "recovering" /\ plugin = "up" /\ ~Delegates
  /\ Schedule(failure.policy)
  /\ UNCHANGED <<aborted, plugin, failure, requests, delegated>>

\* The delay ends: llm/retry-started and the next request of the same step.
TimerFires ==
  /\ phase = "backoff" /\ Request
  /\ UNCHANGED <<aborted, plugin, record, delegated>>

\* What an abort of the turn or of the plugin does to a wait.
Interrupted == IF phase = "backoff" THEN "failing" ELSE phase

DisposePlugin ==
  /\ plugin = "up" /\ plugin' = "draining" /\ phase' = Interrupted
  /\ UNCHANGED <<aborted, failure, record, requests, delegated>>

PluginDrained ==
  /\ plugin = "draining" /\ (phase = "downstream" => failure = PassedBy)
  /\ plugin' = "down"
  /\ UNCHANGED <<phase, aborted, failure, record, requests, delegated>>

RetryNext ==
  \/ RequestThrows \/ RequestFails \/ Downstream \/ PluginGone \/ DownstreamRetries \/ DownstreamDeclines
  \/ Recover \/ TimerFires \/ PluginDrained

=============================================================================
