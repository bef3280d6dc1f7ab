---------------------------- MODULE TurnServices ----------------------------
(***************************************************************************)
(* The services a turn of one agent waits on, together: its requests        *)
(* recover under RetryPolicy, its tool calls ask under Approval and use the  *)
(* JobRegistry, and the turn's signal cuts short whatever they wait for.     *)
(* The loop itself is AgentDriver and the order of the calls is             *)
(* ToolScheduler; here a turn makes a request, runs its calls, and ends or   *)
(* takes another step.                                                     *)
(***************************************************************************)
EXTENDS JobRegistry, RetryPolicy, Approval

CONSTANTS
  MaxUnloads, \* bound: of the registry and the recovery plugin, how many are unloaded
  Agent,      \* the agent whose turns these are, an owner of jobs
  MaxSteps    \* bound: steps over all turns

VARIABLES
  step,     \* steps taken
  call,     \* of each tool call: "idle", "asking", "running", "over"
  granted,  \* the question under which a call runs, 0 before it asked
  leaving   \* the agent's disposal was requested

vars == <<jobVars, retryVars, approvalVars, step, call, granted, leaving>>
ToolCalls == Calls \cup Askers
turnVars == <<step, call, granted, leaving>>

Init ==
  /\ JobsInit /\ RetryInit /\ ApprovalInit
  /\ step = 0 /\ call = [c \in ToolCalls |-> "idle"] /\ granted = [c \in ToolCalls |-> 0] /\ leaving = FALSE

-----------------------------------------------------------------------------
(* The turn *)

TakeStep ==
  /\ step < MaxSteps /\ step' = step + 1
  /\ NewStep

OpenTurn ==
  /\ phase = "closed" /\ ~leaving
  /\ TakeStep /\ aborted' = FALSE
  /\ UNCHANGED <<jobVars, plugin, approvalVars, call, granted, leaving>>

\* The answer has no tool calls, or it has some.
RequestAnswered ==
  /\ phase = "requesting" /\ ~aborted /\ (StepOver("closed") \/ StepOver("tools"))
  /\ UNCHANGED <<jobVars, aborted, plugin, approvalVars, turnVars>>

\* executeToolCalls settles every call before the turn goes on.
CallsOver ==
  /\ phase = "tools" /\ \A c \in ToolCalls : call[c] \in {"idle", "over"}
  /\ call' = [c \in ToolCalls |-> "idle"] /\ wait' = [c \in Calls |-> "none"] /\ target' = [c \in Calls |-> AnyJob]
  /\ \/ ~aborted /\ TakeStep
     \/ phase' = "closed" /\ UNCHANGED <<step, failure, record, requests, delegated>>
  /\ UNCHANGED <<status, reported, ended, producer, owner, registry, known, mourned,
                 aborted, plugin, approvalVars, granted, leaving>>

TurnFails ==
  /\ phase = "failing" /\ StepOver("closed")
  /\ UNCHANGED <<jobVars, aborted, plugin, approvalVars, turnVars>>

\* One signal reaches every wait in the same step.
Abort ==
  /\ aborted' = TRUE /\ phase' = Interrupted
  /\ outcome' = Withdrawn(Askers) /\ AbortWaits(Calls)
  /\ UNCHANGED <<plugin, failure, record, requests, delegated, policy, asked, question, thinking, consents,
                 step, call, granted>>

Cancel ==
  /\ phase # "closed" /\ ~aborted /\ Abort /\ UNCHANGED leaving

\* dispose() cancels, waits for the turn's end, then disposes the agent's scope.
Dispose ==
  /\ ~leaving /\ leaving' = TRUE /\ Abort

DisposeScope ==
  /\ leaving /\ phase = "closed" /\ DisposeOwner(Agent)
  /\ UNCHANGED <<retryVars, approvalVars, turnVars>>

Recovery == RetryNext /\ UNCHANGED <<jobVars, approvalVars, turnVars>>

Unloads == (IF plugin = "up" THEN 0 ELSE 1) + (IF registry = "up" THEN 0 ELSE 1)

UnloadPlugin ==
  /\ Unloads < MaxUnloads /\ DisposePlugin
  /\ UNCHANGED <<jobVars, approvalVars, turnVars>>

UnloadRegistry ==
  /\ Unloads < MaxUnloads /\ DisposeAll
  /\ UNCHANGED <<retryVars, approvalVars, turnVars>>

-----------------------------------------------------------------------------
(* A tool call *)

CallChanges(c, s) == call' = [call EXCEPT ![c] = s]

\* The policy on tools lets a call run or asks.  Nothing is dispatched after an abort.
AskFirst(c) ==
  /\ phase = "tools" /\ ~aborted /\ call[c] = "idle" /\ CallChanges(c, "asking")
  /\ Ask(c, aborted)
  /\ UNCHANGED <<jobVars, retryVars, step, granted, leaving>>

RunFreely(c) ==
  /\ c \notin Askers
  /\ phase = "tools" /\ ~aborted /\ call[c] = "idle" /\ CallChanges(c, "running")
  /\ UNCHANGED <<jobVars, retryVars, approvalVars, step, granted, leaving>>

\* serviceAsk: only "allowed-once" lets the call run.
AskDecided(c) ==
  /\ call[c] = "asking" /\ Decided(c)
  /\ CallChanges(c, IF outcome[c] = "allowed-once" THEN "running" ELSE "over")
  /\ granted' = [granted EXCEPT ![c] = question[c]]
  /\ UNCHANGED <<jobVars, retryVars, step, leaving>>

\* The signal of one call: a timeout policy of its own.
CallTimesOut(c) ==
  /\ call[c] \in {"asking", "running"} /\ outcome' = Withdrawn({c}) /\ AbortWaits({c})
  /\ <<outcome, wait>>' # <<outcome, wait>>
  /\ UNCHANGED <<retryVars, policy, asked, question, thinking, consents, turnVars>>

Idle(c) == call[c] = "running" /\ wait[c] = "none"

\* The body starts, kills or reads a job and ends, or waits for one first.
UseJob(c) ==
  /\ Idle(c) /\ CallChanges(c, "over")
  /\ \E j \in Jobs : Owner(j) \in {Agent, Unowned} /\ (Start(j) \/ Kill(j) \/ Read(j))
  /\ UNCHANGED <<retryVars, approvalVars, step, granted, leaving>>

WaitForJob(c) ==
  /\ Idle(c)
  /\ \E j \in Jobs : Owner(j) \in {Agent, Unowned} /\ WaitFor(c, j, aborted)
  /\ UNCHANGED <<retryVars, approvalVars, turnVars>>

WaitGoesOn(c) ==
  /\ WaitExpires(c) \/ WaitReturns(c)
  /\ UNCHANGED <<retryVars, approvalVars, turnVars>>

BodyEnds(c) ==
  /\ call[c] = "running" /\ (c \in Calls => wait[c] \in {"none", "done"}) /\ CallChanges(c, "over")
  /\ UNCHANGED <<jobVars, retryVars, approvalVars, step, granted, leaving>>

CallActs(c) ==
  \/ c \in Askers /\ (AskFirst(c) \/ AskDecided(c))
  \/ c \in Calls /\ (UseJob(c) \/ WaitForJob(c) \/ WaitGoesOn(c))
  \/ RunFreely(c) \/ CallTimesOut(c) \/ BodyEnds(c)

-----------------------------------------------------------------------------
(* Everything else *)

\* Producers, other users of the registry, and its teardown.
RegistryActs ==
  /\ \/ \E j \in Jobs : ProducerEnds(j)
     \/ \E j \in Jobs : Owner(j) = Unowned /\ Start(j)
     \/ List \/ AllDisposed \/ OwnerDisposed(Agent)
  /\ UNCHANGED <<retryVars, approvalVars, turnVars>>

\* The user switches the policy and answers, in time or not.
UserActs ==
  /\ SetPolicy \/ \E q \in thinking : Answer(q)
  /\ UNCHANGED <<jobVars, retryVars, turnVars>>

Next ==
  \/ OpenTurn \/ RequestAnswered \/ CallsOver \/ TurnFails \/ Cancel \/ Dispose \/ DisposeScope
  \/ Recovery \/ UnloadPlugin \/ UnloadRegistry
  \/ \E c \in ToolCalls : CallActs(c)
  \/ RegistryActs \/ UserActs

Spec == Init /\ [][Next]_vars

-----------------------------------------------------------------------------
(* Properties *)

\* Every variable of the three services and of the turn keeps its shape.
TypeOK ==
  /\ status \in [Jobs -> {"none", "running", "stopping", "terminal", "removed"}]
  /\ reported \in [Jobs -> BOOLEAN] /\ ended \in SeqOf(Jobs, Cardinality(Jobs))
  /\ producer \in [Jobs -> {"none", "working", "released", "orphaned"}]
  /\ wait \in [Calls -> {"none", "pending", "expired", "settled", "done"}] /\ target \in [Calls -> Jobs]
  /\ owner \in [Owners -> {"live", "disposing", "gone"}] /\ registry \in {"up", "closing", "down"}
  /\ known \subseteq Jobs /\ mourned \subseteq Jobs
  /\ phase \in {"closed", "requesting", "recovering", "downstream", "backoff", "tools", "failing"}
  /\ aborted \in BOOLEAN /\ plugin \in {"up", "draining", "down"} /\ failure \in Failures \cup {PassedBy}
  /\ record \in [Policies -> Nat] /\ requests \in Nat /\ delegated \in 0..MaxDelegated
  /\ policy \in {"ask", "never"} /\ asked \in 0..MaxQuestions
  /\ question \in [Askers -> 0..MaxQuestions] /\ outcome \in [Askers -> Answers \cup {"none"}]
  /\ thinking \subseteq 1..MaxQuestions /\ consents \subseteq 1..MaxQuestions
  /\ step \in 0..MaxSteps /\ call \in [ToolCalls -> {"idle", "asking", "running", "over"}]
  /\ granted \in [ToolCalls -> 0..MaxQuestions] /\ leaving \in BOOLEAN

TornDown(j) == registry # "up" \/ owner[Owner(j)] # "live"

\* No end of a job is lost: a record that needs no notice was given to someone, or
\* a wait is about to return it; no other record is swept; and no owner that is
\* being disposed gets a notice (settle, wait, pruneTerminal, cancelForTeardown).
CompletionKnown ==
  /\ \A j \in Jobs : Ended(j) /\ reported[j] /\ ~TornDown(j) =>
       j \in known \/ \E c \in Calls : target[c] = j /\ wait[c] \in {"expired", "settled"}
  /\ \A j \in Jobs : status[j] = "removed" => reported[j] \/ TornDown(j)
  /\ mourned = {}

\* The work the registry started for one owner stays within the limit, the work it
\* was told to stop included, and none outlives its owner or the registry unless its
\* cancel threw (start, disposeOwned, disposeAll).
ProducersBounded ==
  /\ \A o \in Owners : Cardinality({j \in Jobs : Owner(j) = o /\ producer[j] = "working"}) <= MaxActive
  /\ \A j \in Jobs : registry = "down" \/ owner[Owner(j)] = "gone" => producer[j] # "working"

\* The llm/retry records of the step, by policy and number.
RetryRecords == UNION {{k} \X (1..record[k]) : k \in Policies}

\* The requests of a step are the first one, those its retry records announce and
\* those another policy asked for, and no normal policy exceeds its budget.
RetriesBounded ==
  /\ \A k \in Policies : Mode(k) = "normal" => record[k] <= Budget(k)
  /\ requests + (IF phase = "backoff" THEN 1 ELSE 0) <= 1 + Cardinality(RetryRecords) + delegated

\* A call that asked runs only under its own question, which the user allowed while
\* it was waited for, and a turn leaves no question without its decision: a late
\* answer decides nothing.
GrantIsFresh ==
  /\ \A c \in Askers : call[c] = "running" => granted[c] \in consents
  /\ \A c, d \in Askers : call[c] = "running" /\ call[d] = "running" /\ c # d =>
       granted[c] # granted[d]
  /\ phase = "closed" => \A c \in Askers : question[c] = 0

\* A teardown reaches every job: while an agent or the registry is torn down, no
\* record of it is running, and what still works there was told to stop and reports
\* to nobody, so that awaiting the records' ends neither misses work nor sends a
\* notice to who is going (cancelForTeardown, ensureOwnerCleanup).
TeardownReachesAll ==
  \A j \in Jobs : TornDown(j) =>
    /\ status[j] # "running"
    /\ producer[j] = "working" => status[j] = "stopping" /\ reported[j]

=============================================================================
