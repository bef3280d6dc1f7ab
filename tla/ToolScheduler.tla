---------------------------- MODULE ToolScheduler ----------------------------
(***************************************************************************)
(* One execution of executeToolCalls() over the tool calls of a step        *)
(* (packages/core/agent-loop/src/tool-calls.ts).  Calls are numbered in     *)
(* model order.  An exclusive call is a group of its own; a parallel call   *)
(* opens a group that extends over the parallel calls after it and runs     *)
(* them in a bounded pool.  Bodies overlap; policy, durable results and     *)
(* result context keep the model's order.                                   *)
(*                                                                         *)
(* `pc` is where the scheduler stands:                                      *)
(*   classify    loop head of executeToolCalls                              *)
(*   fill        loop head of fillPool                                      *)
(*   preparing   awaits scheduler.prepare of the call just logged           *)
(*   commit      loop head of commitReady, or awaiting a finalize           *)
(*   race        awaits the first dispatch to settle                        *)
(*   grouped     the group's pool is empty and nothing is left to start     *)
(*   draining    a failed group awaits its started dispatches               *)
(*   completing  a failed group completes its started calls                 *)
(*   returned, threw   executeToolCalls has settled                         *)
(***************************************************************************)
EXTENDS Naturals, FiniteSets, Sequences, SequencesExt, SessionTrace

CONSTANTS
  NCalls,       \* tool calls in the assistant message
  MaxParallel,  \* maxParallelToolCalls
  InboxRoom     \* how many result contexts the agent's inbox still accepts

ASSUME SchedulerAssumption ==
  NCalls \in Nat \ {0} /\ MaxParallel \in Nat \ {0} /\ InboxRoom \in Nat

Calls == 1..NCalls

VARIABLES
  pc,
  mode,       \* the snapshot's classification of each call
  first,      \* first call of the group
  last,       \* last call the group may hold
  started,    \* calls up to this one have a tool/call event and began
  committed,  \* calls up to this one are committed
  slot,       \* settled dispatches: whether post-execute is still due
  inFlight,   \* dispatches whose promise is in the pool
  settled,    \* those whose promise has settled
  attempted,  \* completionAttempted
  failure,    \* schedulerFailure is set
  signal,     \* the step's signal is aborted
  aborted,    \* the group has seen it
  accepted,   \* result contexts accepted by the inbox
  trace,      \* the session log, as its invariant companion folds it
  results,    \* the tool/result events, each with its origin
  fenced      \* the session refuses appends

groupVars == <<first, last>>
progress  == <<started, committed>>
poolVars  == <<slot, inFlight, settled, attempted>>
logVars   == <<trace, results>>
vars == <<pc, mode, groupVars, progress, poolVars, failure, signal, aborted, accepted,
          logVars, fenced>>

OpenStep == [EmptyTrace EXCEPT !.openTurn = 1, !.openStep = 1]

Init ==
  /\ pc = "classify"
  /\ mode \in [Calls -> {"parallel", "exclusive"}]
  /\ first = 1 /\ last = 0 /\ started = 0 /\ committed = 0
  /\ slot = [i \in Calls |-> "none"] /\ inFlight = {} /\ settled = {} /\ attempted = {}
  /\ failure = FALSE /\ signal \in BOOLEAN /\ aborted = FALSE /\ accepted = 0
  /\ trace = OpenStep /\ results = <<>> /\ fenced = FALSE

Live == ~fenced
Origins == {"tool", "unknown", "skipped"}

LogResult(tr, log, i, origin) ==
  /\ trace' = ToolResult(tr, 1, 1, i, FALSE)
  /\ results' = Append(log, <<i, origin>>)

(***************************************************************************)
(* The calls from i on get a tool/call and a synthetic result each; fenced, *)
(* the first append throws.                                                 *)
(***************************************************************************)
SkipFrom(i) ==
  IF Live
    THEN results' = results \o [j \in 1..(NCalls - i + 1) |-> <<i + j - 1, "skipped">>]
    ELSE UNCHANGED results

-----------------------------------------------------------------------------
(* executeToolCalls() *)

AllExecuted ==
  /\ pc = "classify" /\ first > NCalls
  /\ pc' = "returned"
  /\ UNCHANGED <<mode, groupVars, progress, poolVars, failure, signal, aborted, accepted,
                 logVars, fenced>>

StartGroup ==
  /\ pc = "classify" /\ first <= NCalls
  /\ last' = IF mode[first] = "parallel" THEN NCalls ELSE first
  /\ aborted' = signal
  /\ attempted' = {}
  /\ pc' = "fill"
  /\ UNCHANGED <<mode, first, progress, slot, inFlight, settled, failure, signal, accepted,
                 logVars, fenced>>

\* The snapshot's classifier throws: no call from here on has begun.
ClassifyThrows ==
  /\ pc = "classify" /\ first <= NCalls
  /\ SkipFrom(first)
  /\ pc' = "threw"
  /\ UNCHANGED <<mode, groupVars, progress, poolVars, failure, signal, aborted, accepted,
                 trace, fenced>>

-----------------------------------------------------------------------------
(* fillPool() and startCall() *)

NeedsBarrier ==
  started \in first..(last - 1) /\ mode[first] = "parallel" /\ mode[started + 1] = "exclusive"
PoolFull == aborted \/ started = last \/ Cardinality(inFlight) >= MaxParallel
PoolStops == PoolFull \/ NeedsBarrier

\* mutant: waits on an empty pool
FillStopsRacing ==
  /\ pc = "fill" /\ PoolStops
  /\ pc' = "race"
  /\ UNCHANGED <<mode, groupVars, progress, poolVars, failure, signal, aborted, accepted,
                 logVars, fenced>>

FillStops ==
  /\ pc = "fill" /\ PoolStops
  /\ pc' = IF inFlight = {} THEN "grouped" ELSE "race"
  /\ UNCHANGED <<mode, groupVars, progress, poolVars, failure, signal, aborted, accepted,
                 logVars, fenced>>

StartCall ==
  /\ pc = "fill" /\ ~PoolStops /\ Live
  /\ trace' = ToolCall(trace, 1, 1, started + 1)
  /\ started' = started + 1
  /\ pc' = "preparing"
  /\ UNCHANGED <<mode, groupVars, committed, poolVars, failure, signal, aborted, accepted,
                 results, fenced>>

Fail == failure' = TRUE /\ pc' = "draining"

\* The live classification throws, or the append of tool/call.
StartThrows ==
  /\ pc = "fill" /\ ~PoolFull
  /\ (fenced /\ ~NeedsBarrier) \/ (started >= first /\ mode[first] = "parallel")
  /\ Fail
  /\ UNCHANGED <<mode, groupVars, progress, poolVars, signal, aborted, accepted, logVars, fenced>>

\* prepare: dispatch the body, or a denial ("final") or early result ("post").
Prepared(kind) ==
  /\ pc = "preparing" /\ ~failure
  /\ IF kind = "dispatch"
       THEN inFlight' = inFlight \cup {started} /\ UNCHANGED slot
       ELSE slot' = [slot EXCEPT ![started] = kind] /\ UNCHANGED inFlight
  /\ pc' = "commit"
  /\ UNCHANGED <<mode, groupVars, progress, settled, attempted, failure, signal, aborted,
                 accepted, logVars, fenced>>

PrepareThrows ==
  /\ pc = "preparing"
  /\ Fail
  /\ UNCHANGED <<mode, groupVars, progress, poolVars, signal, aborted, accepted, logVars, fenced>>

-----------------------------------------------------------------------------
(* Dispatched bodies, and the promise race. *)

DispatchSettles(i, kind) ==
  /\ i \in inFlight \ settled
  /\ settled' = settled \cup {i}
  /\ slot' = [slot EXCEPT ![i] = kind]
  /\ UNCHANGED <<pc, mode, groupVars, progress, inFlight, attempted, failure, signal, aborted,
                 accepted, logVars, fenced>>

DispatchFails(i) ==
  /\ i \in inFlight \ settled
  /\ settled' = settled \cup {i}
  /\ failure' = TRUE
  /\ UNCHANGED <<pc, mode, groupVars, progress, slot, inFlight, attempted, signal, aborted,
                 accepted, logVars, fenced>>

RaceSettles(i) ==
  /\ pc = "race" /\ i \in inFlight \cap settled
  /\ inFlight' = inFlight \ {i}
  /\ pc' = IF failure THEN "draining" ELSE "commit"
  /\ UNCHANGED <<mode, groupVars, progress, slot, settled, attempted, failure, signal, aborted,
                 accepted, logVars, fenced>>

-----------------------------------------------------------------------------
(* commitReady() *)

Next1 == committed + 1
Ready == Next1 <= last /\ slot[Next1] # "none"

\* mutant: commits calls in the order their dispatches settle
CommitAny ==
  /\ pc = "commit" /\ Live
  /\ \E i \in first..last :
       /\ slot[i] # "none" /\ \A k \in 1..Len(results) : results[k][1] # i
       /\ LogResult(trace, results, i, "tool")
  /\ committed' = Next1
  /\ UNCHANGED <<pc, mode, groupVars, started, poolVars, failure, signal, aborted, accepted, fenced>>

\* finalize or finish succeeds, the result is appended, then its context.
CommitNext ==
  /\ pc = "commit" /\ Ready /\ Live
  /\ LogResult(trace, results, Next1, "tool")
  /\ committed' = Next1
  /\ \E contexts \in 0..1 :
       accepted + contexts <= InboxRoom /\ accepted' = accepted + contexts
  /\ UNCHANGED <<pc, mode, groupVars, started, poolVars, failure, signal, aborted, fenced>>

CommitFails == attempted' = attempted \cup {Next1} /\ failure' = TRUE

\* finalize, finish or the append throws.
CommitThrows ==
  /\ pc = "commit" /\ Ready
  /\ CommitFails /\ pc' = "draining"
  /\ UNCHANGED <<mode, groupVars, progress, slot, inFlight, settled, signal, aborted, accepted,
                 logVars, fenced>>

\* The result is in the log when the inbox refuses its context.
ContextRefused ==
  /\ pc = "commit" /\ Ready /\ Live /\ accepted = InboxRoom
  /\ LogResult(trace, results, Next1, "tool")
  /\ CommitFails /\ pc' = "draining"
  /\ UNCHANGED <<mode, groupVars, progress, slot, inFlight, settled, signal, aborted, accepted,
                 fenced>>

\* mutant: an abort during the awaits goes unnoticed
CommitDoneBlind ==
  /\ pc = "commit" /\ ~Ready
  /\ pc' = IF failure THEN "draining" ELSE "fill"
  /\ UNCHANGED <<mode, groupVars, progress, poolVars, failure, signal, aborted, accepted,
                 logVars, fenced>>

CommitDone ==
  /\ pc = "commit" /\ ~Ready
  /\ pc' = IF failure THEN "draining" ELSE "fill"
  /\ aborted' = IF failure THEN aborted ELSE (aborted \/ signal)
  /\ UNCHANGED <<mode, groupVars, progress, poolVars, failure, signal, accepted, logVars, fenced>>

-----------------------------------------------------------------------------
(* The end of a group. *)

GroupDone ==
  /\ pc = "grouped" /\ ~aborted
  /\ first' = started + 1
  /\ pc' = "classify"
  /\ UNCHANGED <<mode, last, progress, poolVars, failure, signal, aborted, accepted,
                 logVars, fenced>>

\* Calls that never began get their results; executeToolCalls returns.
GroupAborted ==
  /\ pc = "grouped" /\ aborted
  /\ SkipFrom(started + 1)
  /\ pc' = IF Live \/ started = NCalls THEN "returned" ELSE "threw"
  /\ UNCHANGED <<mode, groupVars, progress, poolVars, failure, signal, aborted, accepted,
                 trace, fenced>>

\* mutant: does not wait for the started dispatches
DrainedAtOnce ==
  /\ pc = "draining"
  /\ pc' = "completing"
  /\ UNCHANGED <<mode, groupVars, progress, poolVars, failure, signal, aborted, accepted,
                 logVars, fenced>>

Drained ==
  /\ pc = "draining" /\ inFlight \subseteq settled
  /\ pc' = "completing"
  /\ UNCHANGED <<mode, groupVars, progress, poolVars, failure, signal, aborted, accepted,
                 logVars, fenced>>

\* A slot whose stage has not run yet may still commit; others are unknown.
Completable == slot[Next1] # "none" /\ Next1 \notin attempted

CompleteNext ==
  /\ pc = "completing" /\ committed < started /\ Live
  /\ committed' = Next1
  /\ \/ /\ Completable
        /\ LogResult(trace, results, Next1, "tool")
        /\ \E contexts \in 0..1 :
             accepted + contexts <= InboxRoom /\ accepted' = accepted + contexts
     \/ LogResult(trace, results, Next1, "unknown") /\ UNCHANGED accepted
     \/ /\ Completable /\ accepted = InboxRoom
        /\ LogResult(ToolResult(trace, 1, 1, Next1, FALSE), Append(results, <<Next1, "tool">>),
                     Next1, "unknown")
        /\ UNCHANGED accepted
  /\ UNCHANGED <<pc, mode, groupVars, started, poolVars, failure, signal, aborted, fenced>>

CompletionEnds ==
  /\ pc = "completing" /\ (committed = started \/ fenced)
  /\ SkipFrom(started + 1)
  /\ pc' = "threw"
  /\ UNCHANGED <<mode, groupVars, progress, poolVars, failure, signal, aborted, accepted,
                 trace, fenced>>

-----------------------------------------------------------------------------
Running == pc \notin {"returned", "threw"}
\* Between the check of the signal and the next await nothing else runs.
Awaiting == Running /\ pc # "fill"

Abort ==
  /\ Awaiting /\ ~signal /\ signal' = TRUE
  /\ UNCHANGED <<pc, mode, groupVars, progress, poolVars, failure, aborted, accepted,
                 logVars, fenced>>

LoseOwnership ==
  /\ Awaiting /\ ~fenced /\ fenced' = TRUE
  /\ UNCHANGED <<pc, mode, groupVars, progress, poolVars, failure, signal, aborted, accepted,
                 logVars>>

Scheduler ==
  \/ AllExecuted \/ StartGroup \/ ClassifyThrows
  \/ FillStops \/ StartCall \/ StartThrows
  \/ \E kind \in {"dispatch", "post", "final"} : Prepared(kind)
  \/ PrepareThrows
  \/ \E i \in Calls : RaceSettles(i)
  \/ CommitNext \/ CommitThrows \/ ContextRefused \/ CommitDone
  \/ GroupDone \/ GroupAborted \/ Drained \/ CompleteNext \/ CompletionEnds

Bodies ==
  Awaiting /\ \E i \in Calls : DispatchFails(i) \/ \E kind \in {"post", "final"} : DispatchSettles(i, kind)

Next == Scheduler \/ Bodies \/ Abort \/ LoseOwnership

Spec == Init /\ [][Next]_vars

\* The event loop resumes the scheduler, and every dispatched body settles:
\* the registry never abandons a started body.
FairSpec == Spec /\ WF_vars(Scheduler) /\ WF_vars(Bodies)

-----------------------------------------------------------------------------
(* Properties. *)

Points == {"classify", "fill", "preparing", "commit", "race", "grouped", "draining",
           "completing", "returned", "threw"}

\* Every variable keeps its shape, and no count passes another it follows.
TypeOK ==
  /\ pc \in Points /\ mode \in [Calls -> {"parallel", "exclusive"}]
  /\ first \in 1..(NCalls + 1) /\ last \in 0..NCalls
  /\ started \in 0..NCalls /\ committed \in 0..started
  /\ slot \in [Calls -> {"none", "post", "final"}]
  /\ inFlight \subseteq 1..started /\ settled \subseteq 1..started /\ attempted \subseteq 1..started
  /\ failure \in BOOLEAN /\ signal \in BOOLEAN /\ aborted \in BOOLEAN /\ fenced \in BOOLEAN
  /\ accepted \in 0..InboxRoom
  /\ trace \in Traces(Calls) /\ results \in Seq(Calls \X Origins)

\* Results reach the log in the model's order although the bodies finish in any
\* order and a failed group is completed by another path than a sound one.
InModelOrder ==
  \A j, k \in 1..Len(results) : j < k => results[j][1] <= results[k][1]

\* However the execution ends - completion, abort, failure of a stage - every
\* call of the assistant message is paired with its result.
PairedAtEnd ==
  (~Running /\ ~fenced) =>
    /\ trace.pendingCalls = {}
    /\ \A i \in Calls : \E k \in 1..Len(results) : results[k][1] = i

\* Every call of the assistant message is answered once it ends, in its order.
ResultsPaired == InModelOrder /\ PairedAtEnd

\* An exclusive call is a barrier: it begins when every earlier result is
\* committed, and no later call begins before its own result is.
ExclusiveIsBarrier ==
  \A i \in 1..started :
    (mode[i] = "exclusive" /\ i > committed) => (committed = i - 1 /\ started = i)

\* No call gets a result, and the execution does not settle, while its body
\* still runs.
NoBodyOutlivesItsResult ==
  /\ \A k \in 1..Len(results) : results[k][1] \notin inFlight \ settled
  /\ ~Running => inFlight \subseteq settled

\* Once a dispatch, a stage or an append has failed no other body starts, and no
\* call starts once the step's signal is aborted: nothing runs between the last
\* look at the failure or the signal and the start of a call.
NothingStartsLate ==
  [][(failure => inFlight' \subseteq inFlight) /\ (signal => started' = started)]_vars

\* The execution settles.
ExecutionEnds == <>(~Running)

-----------------------------------------------------------------------------
(* What the repository says of the scheduler and the code does not keep. *)

\* tool-calls.ts: "every started call receives its settled result when the
\* dispatch completed, or a synthetic outcome-unknown result otherwise".
OneResultPerCall ==
  \A j, k \in 1..Len(results) : results[j][1] = results[k][1] => j = k
=============================================================================
