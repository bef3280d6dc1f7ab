----------------------------- MODULE AgentDriver -----------------------------
(***************************************************************************)
(* The default agent driver (packages/core/agent-loop/src/agent.ts) over    *)
(* its durable inbox (packages/core/agent/src/inbox.ts).                    *)
(*                                                                         *)
(* One agent owns one session.  Callers put identified messages in one of   *)
(* two pending lists and may wake the driver; the driver opens a turn,      *)
(* claims a batch, runs steps (one model request and its tool calls each)   *)
(* and closes the turn.  JavaScript runs one callback at a time, so a       *)
(* caller can act only where the driver awaits, or where the code calls out *)
(* to observers.  The driver's control point `pc` names its places:         *)
(*                                                                         *)
(*   turn        about to run turn()                                        *)
(*   boundary    at the loop head, in the observers of turn/start, step/end *)
(*   context     preStep awaits the context engine                          *)
(*   assembling  preStep awaits the prompt and the agent/pre-step waterfall *)
(*   decided     preStep has returned, its caller has not resumed           *)
(*   request     step() awaits buildRequest                                 *)
(*   stream      step() awaits the next chunk                               *)
(*   requestError  step() awaits the agent/request-error waterfall          *)
(*   tools       step() awaits executeToolCalls                             *)
(*   stepEnd     step() has settled, its caller has not resumed             *)
(*   stopping    the turn awaits the agent/turn-stopping listeners          *)
(*   closing     in the observers of agent/error or of the last step/end,   *)
(*               about to append turn/end                                   *)
(*   exit        turn() has returned false or thrown, kick() has not        *)
(*               resumed                                                    *)
(*                                                                         *)
(* send(), cancel() and a starting driver call out in the middle of their   *)
(* work, and what they call may call them again: `calls` is the stack of    *)
(* such calls, innermost first, each with what it has left to do.  Only the *)
(* innermost goes on; while it waits for its listeners, these may do        *)
(* whatever a caller may.                                                   *)
(***************************************************************************)
EXTENDS Naturals, Sequences, SequencesExt, SessionTrace

CONSTANTS
  Messages,     \* identities of the messages callers may submit
  Ways,         \* bound: the calls each message may come in with
  MaxPending,   \* maxPendingInboxMessages
  MaxSteps,     \* bound: tool calls may owe another step up to this step
  MaxTurns,     \* bound: the driver opens no turn after this one
  MaxCalls      \* bound: calls into the agent nest no deeper than this

ASSUME DriverAssumption ==
  /\ Ways \in [Messages -> SUBSET {"followup", "steer", "inject"}]
  /\ MaxPending \in Nat \ {0}
  /\ MaxSteps \in Nat
  /\ MaxTurns \in Nat
  /\ MaxCalls \in Nat \ {0}

VARIABLES
  phase,         \* Phase.kind
  pc,            \* where the driver stands while it runs
  turn,          \* Phase.turn, or Phase.lastTurn when not running
  step,          \* Phase.step
  target,        \* the list the next claim consumes besides next-step
  ends,          \* turnEnds
  abort,         \* the cause the current activity's signal carries
  wakeRequested, \* the latch of a wake the activity cannot deliver
  nextTurn, nextStep,  \* the two pending lists
  calls,         \* the calls that wait for their listeners, innermost first
  replaying,     \* kick() announces the idle phase and has read a set latch
  proposed,      \* claimed messages still offered to the proposed step
  context,       \* whether the accepted step carries context of its own
  stepResult,    \* how step() settled
  partial,       \* whether the open stream has delivered content
  snapshot,      \* tool snapshots captured and not yet released
  trace,         \* the session log, as its invariant companion folds it
  fenced,        \* the session lost its persistence ownership
  owner,         \* the lifecycle owner's view of the agent
  fate,          \* history: what became of each message, and of its wake
  caught,        \* history: the standing abort came before its turn was over
  cancelled,     \* history: the prompts a cancel found and has not discarded
  lastExit       \* history: how the driver left its turn loop

inboxVars == <<nextTurn, nextStep>>
phaseVars == <<phase, turn, abort, wakeRequested, caught>>
stepVars  == <<step, target, ends, proposed, context, stepResult, partial, snapshot>>
logVars   == <<trace, fenced>>
history   == <<cancelled, lastExit>>
callVars  == <<calls, replaying>>
vars == <<inboxVars, phaseVars, stepVars, logVars, history, callVars, pc, owner, fate>>

Cause     == {"user", "disposed"}

Aborted == abort # "none"
Pending == nextTurn # <<>> \/ nextStep # <<>>
Queued  == ToSet(nextTurn) \cup ToSet(nextStep)

-----------------------------------------------------------------------------
Init ==
  /\ phase = "idle" /\ pc = "none" /\ turn = 0 /\ step = 0
  /\ target = "next-turn" /\ ends = "none" /\ abort = "none"
  /\ wakeRequested = FALSE
  /\ nextTurn = <<>> /\ nextStep = <<>> /\ calls = <<>> /\ replaying = FALSE
  /\ proposed = {} /\ context = FALSE /\ stepResult = "none" /\ partial = FALSE
  /\ snapshot = 0
  /\ trace = EmptyTrace /\ fenced = FALSE /\ owner = "live"
  /\ fate = [m \in Messages |-> "unsent"]
  /\ cancelled = {} /\ caught = FALSE
  /\ lastExit = "none"

(***************************************************************************)
(* The inbox.  A splice appends its durable event before it changes the     *)
(* list, so it fails on a fenced session and cannot happen inside the       *)
(* observers of another append.                                             *)
(***************************************************************************)
InsideAppend == pc = "boundary" \/ (pc = "closing" /\ ends # "error")
CanSplice    == ~fenced /\ ~InsideAppend

Insert(m, list) ==
  /\ Len(nextTurn) + Len(nextStep) < MaxPending
  /\ IF list = "next-turn"
       THEN nextTurn' = Append(nextTurn, m) /\ UNCHANGED nextStep
       ELSE nextStep' = Append(nextStep, m) /\ UNCHANGED nextTurn

Become(ms, what) == fate' = [m \in Messages |-> IF m \in ms THEN what ELSE fate[m]]

\* The two splices of inbox.clear(); each announces what it discards.
ClearNextStep ==
  /\ nextStep # <<>> /\ CanSplice
  /\ nextStep' = <<>> /\ UNCHANGED nextTurn
  /\ Become(ToSet(nextStep), "gone")

ClearNextTurn ==
  /\ nextTurn # <<>> /\ CanSplice
  /\ nextTurn' = <<>> /\ UNCHANGED nextStep
  /\ Become(ToSet(nextTurn), "gone")

\* inbox.remove(m): a caller takes back a pending message.
RemoveMessage(m) ==
  /\ CanSplice
  /\ \/ \E i \in 1..Len(nextTurn) :
          nextTurn[i] = m /\ nextTurn' = RemoveAt(nextTurn, i) /\ UNCHANGED nextStep
     \/ \E i \in 1..Len(nextStep) :
          nextStep[i] = m /\ nextStep' = RemoveAt(nextStep, i) /\ UNCHANGED nextTurn
  /\ fate' = [fate EXCEPT ![m] = "gone"]
  /\ UNCHANGED <<phaseVars, stepVars, logVars, history, callVars, pc, owner>>

-----------------------------------------------------------------------------
(* Calls that call out to listeners. *)

StackEmpty   == calls = <<>> /\ ~replaying
InCall(op)   == calls # <<>> /\ Head(calls).op = op
Enter(call)  == Len(calls) < MaxCalls /\ calls' = <<call>> \o calls
Return       == calls' = Tail(calls)
GoOnAs(call) == calls' = <<call>> \o Tail(calls)

\* kick() runs within its caller up to its first await.
Kick == [op |-> "kick"]

-----------------------------------------------------------------------------
(* Waking the driver. *)

\* A driver that starts, or goes on under a fresh signal, serves whatever waits.
ServesQueued == Become({m \in Queued : fate[m] # "queued"}, "live")

StartDriver ==
  /\ phase' = "running" /\ pc' = "turn" /\ step' = 0
  /\ abort' = "none" /\ wakeRequested' = FALSE
  /\ lastExit' = "none" /\ caught' = FALSE
  /\ UNCHANGED <<turn, target, ends, proposed, context, stepResult, partial, snapshot>>

\* send(), up to the listeners of the insertion.
Send(m, list, wakeup) ==
  LET wakingAfterAbort == wakeup /\ phase # "idle" /\ Aborted
  IN /\ fate[m] = "unsent" /\ CanSplice
     /\ owner \in {"live", "disposing"}
     /\ Insert(m, IF wakingAfterAbort THEN "next-turn" ELSE list)
     /\ fate' = [fate EXCEPT ![m] = "queued"]
     /\ IF wakeup
          THEN Enter([op |-> "send", message |-> m, afterAbort |-> wakingAfterAbort])
          ELSE UNCHANGED calls
     /\ UNCHANGED <<phaseVars, stepVars, logVars, history, replaying, pc, owner>>

Followup(m) == "followup" \in Ways[m] /\ Send(m, "next-turn", TRUE)
Steer(m)    == "steer" \in Ways[m] /\ Send(m, "next-step", TRUE)
Inject(m)   == "inject" \in Ways[m] /\ Send(m, "next-step", FALSE)

\* What becomes of a wake that does not find the agent idle.
Latches(afterAbort) == abort # "disposed" /\ (phase = "maintenance" \/ afterAbort)

\* The rest of send(): wakeDriver with the classification made at its start.
WakeDriver ==
  LET m       == Head(calls).message
      latches == Latches(Head(calls).afterAbort)
  IN /\ InCall("send")
     /\ IF phase = "idle"
          THEN /\ StartDriver
               /\ GoOnAs(Kick)
               /\ Become({w \in Queued : fate[w] # "queued" \/ w = m}, "live")
          ELSE /\ wakeRequested' = (wakeRequested \/ latches)
               /\ Return
               /\ Become({m} \cap Queued,
                         IF latches THEN "latched"
                         ELSE IF Aborted \/ phase = "maintenance" THEN "parked"
                         ELSE IF pc = "exit" THEN "late"
                         ELSE "live")
               /\ UNCHANGED <<phase, turn, abort, caught, stepVars, pc, lastExit>>
     /\ UNCHANGED <<inboxVars, logVars, cancelled, replaying, owner>>

-----------------------------------------------------------------------------
(***************************************************************************)
(* cancel().  The two lists are cleared one after the other, each with its  *)
(* listeners; only then is the phase read, the latch dropped - with the     *)
(* wakes of those listeners - and the activity aborted.  Its first cause    *)
(* wins.                                                                    *)
(***************************************************************************)
\* An empty decision ends a turn that owes nothing, before any abort check.
OwesNothing == proposed = {} /\ ~context /\ (ends # "none" \/ step = 0)

\* Where an abort no longer changes how the turn ends.
TurnIsOver ==
  \/ pc = "decided" /\ OwesNothing
  \/ pc = "closing" /\ ends \in {"completed", "max-tokens"}
  \/ pc \in {"none", "exit"}

Abort(cause) ==
  IF phase # "idle" /\ ~Aborted
    THEN abort' = cause /\ caught' = ~TurnIsOver
    ELSE UNCHANGED <<abort, caught>>

StopActivity(cause) ==
  /\ Abort(cause)
  /\ wakeRequested' = FALSE
  /\ IF phase = "idle"
       THEN UNCHANGED fate
       ELSE Become({m \in Queued : fate[m] = "latched"}, "parked")

CancelCall(cause, left) == [op |-> "cancel", cause |-> cause, left |-> left]

CancelClearing(cause) ==
  /\ \/ /\ ClearNextStep
        /\ cancelled' = cancelled \cup ToSet(nextTurn)
        /\ Enter(CancelCall(cause, "next-turn"))
        /\ UNCHANGED <<abort, caught, wakeRequested>>
     \/ /\ nextStep = <<>> /\ ClearNextTurn
        /\ Enter(CancelCall(cause, "abort"))
        /\ UNCHANGED <<abort, caught, wakeRequested, cancelled>>
     \/ /\ ~Pending
        /\ StopActivity(cause)
        /\ UNCHANGED <<inboxVars, calls, cancelled>>
  /\ UNCHANGED <<phase, turn, stepVars, logVars, lastExit, replaying, pc>>

\* mutant: a clear that had something to discard is the end of the cancel
CancelEndsWithClear ==
  /\ InCall("cancel")
  /\ \/ /\ Head(calls).left = "next-turn" /\ ClearNextTurn
        /\ GoOnAs(CancelCall(Head(calls).cause, "abort"))
     \/ /\ Head(calls).left = "abort" \/ nextTurn = <<>>
        /\ Return
        /\ UNCHANGED <<inboxVars, fate>>
  /\ UNCHANGED <<phaseVars, stepVars, logVars, history, replaying, pc, owner>>

\* Where the first splice was possible so is the second.
CancelGoesOn ==
  /\ InCall("cancel")
  /\ \/ /\ Head(calls).left = "next-turn" /\ ClearNextTurn
        /\ GoOnAs(CancelCall(Head(calls).cause, "abort"))
        /\ cancelled' = cancelled \ ToSet(nextTurn)
        /\ UNCHANGED <<abort, caught, wakeRequested>>
     \/ /\ Head(calls).left = "abort" \/ nextTurn = <<>>
        /\ StopActivity(Head(calls).cause)
        /\ Return
        /\ UNCHANGED <<inboxVars, cancelled>>
  /\ UNCHANGED <<phase, turn, stepVars, logVars, lastExit, replaying, pc, owner>>

Cancel == CancelClearing("user") /\ UNCHANGED owner

\* mutant: a cancel that keeps the inbox still drops the latch
CancelDropsLatch ==
  /\ Abort("user")
  /\ wakeRequested' = FALSE
  /\ UNCHANGED <<inboxVars, phase, turn, stepVars, logVars, history,
                 callVars, pc, owner, fate>>

CancelKeepingInbox ==
  /\ Abort("user")
  /\ UNCHANGED <<inboxVars, phase, turn, wakeRequested, stepVars, logVars, history,
                 callVars, pc, owner, fate>>

\* The lifecycle owner disposes the agent: a disposed-cause cancel, then
\* whenIdle(), then the registries drop the agent.  Until they do, a caller
\* that still holds the agent may submit work.
Dispose ==
  /\ owner = "live" /\ owner' = "disposing"
  /\ CancelClearing("disposed")

\* With work pending, a disposal that starts where the inbox cannot be spliced
\* throws in clear(), before the abort; dispose()'s finally still detaches.
DisposeRefused ==
  /\ owner = "live" /\ Pending /\ ~CanSplice
  /\ owner' = "detached"
  /\ UNCHANGED <<inboxVars, phaseVars, stepVars, logVars, history, callVars, pc, fate>>

Release ==
  /\ owner = "disposing" /\ phase = "idle" /\ owner' = "released"
  /\ UNCHANGED <<inboxVars, phaseVars, stepVars, logVars, history, callVars, pc, fate>>

\* Another process takes the session over: every later append throws.
LoseOwnership ==
  /\ ~fenced /\ fenced' = TRUE
  /\ UNCHANGED <<inboxVars, phaseVars, stepVars, trace, history, callVars, pc, owner, fate>>

-----------------------------------------------------------------------------
(* Maintenance: one non-turn task claimed from the idle phase.  The public  *)
(* status stays idle, so neither end of it is announced.                    *)

RunMaintenance ==
  /\ phase = "idle" /\ owner \in {"live", "disposing"}
  /\ phase' = "maintenance" /\ abort' = "none" /\ wakeRequested' = FALSE
  /\ UNCHANGED <<inboxVars, turn, caught, stepVars, logVars, history, callVars, pc, owner, fate>>

MaintenanceSettles ==
  /\ phase = "maintenance"
  /\ IF wakeRequested /\ Pending
       THEN StartDriver /\ Enter(Kick) /\ ServesQueued
       ELSE /\ phase' = "idle" /\ abort' = "none" /\ wakeRequested' = FALSE
            /\ UNCHANGED <<turn, caught, stepVars, fate, lastExit, pc, calls>>
  /\ UNCHANGED <<inboxVars, logVars, cancelled, replaying, owner>>

-----------------------------------------------------------------------------
(* turn() *)

\* Where the driver first awaits, the call that started it returns.
KickReturns == calls' = IF calls = <<>> THEN <<>> ELSE Tail(calls)

LeaveLoop(why) ==
  pc' = "exit" /\ lastExit' = why /\ KickReturns /\ UNCHANGED <<replaying, cancelled>>

\* mutant: an abandoned turn asks kick() for another one
TurnAbandonedLoops == pc = "turn" /\ Aborted /\ UNCHANGED vars

\* An abort observed before the turn opens leaves no trace in the log.
TurnAbandoned ==
  /\ pc = "turn" /\ Aborted
  /\ LeaveLoop("gaveUp")
  /\ UNCHANGED <<inboxVars, phaseVars, stepVars, logVars, owner, fate>>

OpenTurn ==
  /\ pc = "turn" /\ ~Aborted /\ ~fenced /\ turn < MaxTurns
  /\ turn' = turn + 1
  /\ trace' = TurnStart(trace, turn + 1)
  /\ ends' = "none" /\ target' = "next-turn" /\ pc' = "boundary"
  /\ UNCHANGED <<inboxVars, phase, abort, caught, wakeRequested, step, proposed, context,
                 stepResult, partial, snapshot, fenced, history, callVars, owner, fate>>

\* The catch of turn(): an aborted signal names the ending, else the error does.
Throw == pc' = "closing" /\ ends' = IF Aborted THEN "aborted" ELSE "error"

\* inbox.claim(): all of next-step, and the head of next-turn at a turn boundary.
TakesPromptAlways == nextTurn # <<>>  \* mutant: prompts join any step
TakesPrompt == target = "next-turn" /\ nextTurn # <<>>
Batch       == ToSet(nextStep) \cup (IF TakesPrompt THEN {Head(nextTurn)} ELSE {})

Claim ==
  /\ Batch # {} => ~fenced
  /\ nextStep' = <<>>
  /\ nextTurn' = IF TakesPrompt THEN Tail(nextTurn) ELSE nextTurn
  /\ proposed' = Batch
  /\ Become(Batch, "claimed")

BeginPreStep ==
  /\ pc = "boundary" /\ ~Aborted
  /\ Claim
  /\ pc' = "context" /\ KickReturns
  /\ UNCHANGED <<phaseVars, step, target, ends, context, stepResult, partial, snapshot,
                 logVars, history, replaying, owner>>

\* mutant: an abort at the loop head leaves without closing the turn
BoundaryAbortedLeaves ==
  /\ pc = "boundary" /\ Aborted
  /\ LeaveLoop("gaveUp")
  /\ UNCHANGED <<inboxVars, phaseVars, stepVars, logVars, owner, fate>>

BoundaryAborted ==
  /\ pc = "boundary" /\ Aborted
  /\ Throw
  /\ UNCHANGED <<inboxVars, phaseVars, step, target, proposed, context, stepResult,
                 partial, snapshot, logVars, history, callVars, owner, fate>>

\* Claimed messages a step does not enter are gone: claiming removed them.
DropClaimed(ms) == Become(ms, "gone")

ContextPrepared ==
  /\ pc = "context" /\ ~Aborted
  /\ snapshot' = snapshot + 1
  /\ pc' = "assembling"
  /\ UNCHANGED <<inboxVars, phaseVars, step, target, ends, proposed, context, stepResult,
                 partial, logVars, history, callVars, owner, fate>>

\* The context engine, the assembly or a listener throws, or preStep sees an abort.
PreStepThrows ==
  /\ pc \in {"context", "assembling"}
  /\ Throw
  /\ snapshot' = IF pc = "assembling" THEN snapshot - 1 ELSE snapshot
  /\ DropClaimed(proposed) /\ proposed' = {}
  /\ UNCHANGED <<inboxVars, phaseVars, step, target, context, stepResult, partial,
                 logVars, history, callVars, owner>>

PreStepRejects ==
  /\ pc = "assembling" /\ ~Aborted
  /\ snapshot' = snapshot - 1
  /\ ends' = "blocked" /\ pc' = "closing"
  /\ DropClaimed(proposed) /\ proposed' = {}
  /\ UNCHANGED <<inboxVars, phaseVars, step, target, context, stepResult, partial,
                 logVars, history, callVars, owner>>

\* The waterfall may keep, drop or extend the claimed batch.
PreStepEnters(kept, extended) ==
  /\ pc = "assembling" /\ ~Aborted
  /\ DropClaimed(proposed \ kept) /\ proposed' = kept
  /\ context' = extended
  /\ pc' = "decided"
  /\ UNCHANGED <<inboxVars, phaseVars, step, target, ends, stepResult, partial, snapshot,
                 logVars, history, callVars, owner>>

SkipStep ==
  /\ pc = "decided" /\ OwesNothing
  /\ ends' = IF ends = "none" THEN "completed" ELSE ends
  /\ snapshot' = snapshot - 1
  /\ pc' = "closing"
  /\ UNCHANGED <<inboxVars, phaseVars, step, target, proposed, context, stepResult,
                 partial, logVars, history, callVars, owner, fate>>

DecidedAborted ==
  /\ pc = "decided" /\ Aborted
  /\ ~OwesNothing
  /\ Throw
  /\ snapshot' = snapshot - 1
  /\ DropClaimed(proposed) /\ proposed' = {} /\ context' = FALSE
  /\ UNCHANGED <<inboxVars, phaseVars, step, target, stepResult, partial,
                 logVars, history, callVars, owner>>

EnterStep ==
  /\ pc = "decided" /\ ~Aborted /\ ~fenced
  /\ ~OwesNothing
  /\ trace' = StepStart(trace, turn, step + 1)
  /\ step' = step + 1
  /\ Become(proposed, "entered")
  /\ proposed' = {} /\ context' = FALSE
  /\ pc' = "request"
  /\ UNCHANGED <<inboxVars, phaseVars, target, ends, stepResult, partial,
                 snapshot, fenced, history, callVars, owner>>

-----------------------------------------------------------------------------
(* step() *)

\* Every way out of step() runs its finally, which releases the snapshot.
StepSettles(result) ==
  /\ stepResult' = result /\ partial' = FALSE
  /\ snapshot' = snapshot - 1
  /\ pc' = "stepEnd"
  /\ UNCHANGED <<inboxVars, phaseVars, step, target, ends, proposed, context,
                 fenced, history, callVars, owner, fate>>

\* The header and the context are appended only when they have changed.
RequestBuilt ==
  /\ pc = "request" /\ ~Aborted
  /\ trace' = TurnEvent(trace)
  /\ partial' = FALSE
  /\ pc' = "stream"
  /\ UNCHANGED <<inboxVars, phaseVars, step, target, ends, proposed, context, stepResult,
                 snapshot, fenced, history, callVars, owner, fate>>

RequestFails == pc = "request" /\ StepSettles("thrown") /\ UNCHANGED trace

Chunk ==
  /\ pc = "stream" /\ ~Aborted /\ ~fenced
  /\ trace' = StepEvent(trace, turn, step)
  /\ partial' = TRUE
  /\ UNCHANGED <<inboxVars, phaseVars, step, target, ends, proposed, context, stepResult,
                 snapshot, fenced, history, pc, callVars, owner, fate>>

\* A cancelled stream that delivered content leaves an interrupted message.
StreamBreaks ==
  /\ pc = "stream"
  /\ (Aborted /\ partial) => ~fenced
  /\ StepSettles("thrown")
  /\ trace' = IF Aborted /\ partial THEN StepEvent(trace, turn, step) ELSE trace

ProviderFails ==
  /\ pc = "stream" /\ ~Aborted
  /\ pc' = "requestError"
  /\ UNCHANGED <<inboxVars, phaseVars, stepVars, logVars, history, callVars, owner, fate>>

RetryRequest ==
  /\ pc = "requestError" /\ ~Aborted
  /\ pc' = "request"
  /\ UNCHANGED <<inboxVars, phaseVars, stepVars, logVars, history, callVars, owner, fate>>

RequestErrorThrown ==
  pc = "requestError" /\ StepSettles("thrown") /\ UNCHANGED trace

Answer ==
  /\ pc = "stream" /\ ~Aborted /\ ~fenced
  /\ trace' = StepEvent(trace, turn, step)

AnswerEndsStep(result) == Answer /\ StepSettles(result)

AnswerCallsTools ==
  /\ Answer
  /\ pc' = "tools"
  /\ UNCHANGED <<inboxVars, phaseVars, stepVars, fenced, history, callVars, owner, fate>>

\* A committed tool result leaves context for the next step boundary.
AcceptContext(m) ==
  /\ pc = "tools" /\ ~fenced /\ fate[m] = "unsent" /\ "inject" \in Ways[m]
  /\ Insert(m, "next-step")
  /\ fate' = [fate EXCEPT ![m] = "queued"]
  /\ UNCHANGED <<phaseVars, stepVars, logVars, history, pc, callVars, owner>>

\* executeToolCalls returns whether a tool concluded the turn; it also
\* returns, and does not throw, when the signal is aborted.
ToolsReturn(concluded) ==
  /\ pc = "tools"
  /\ concluded \/ step < MaxSteps
  /\ StepSettles(IF concluded THEN "completed" ELSE "owes") /\ UNCHANGED trace

ToolsThrow == pc = "tools" /\ StepSettles("thrown") /\ UNCHANGED trace

-----------------------------------------------------------------------------
(* The end of a step and of a turn. *)

\* max-tokens is sticky; a step that owes another one reopens the turn.
StepEnding ==
  IF ends = "max-tokens" THEN ends
  ELSE IF stepResult = "owes" THEN "none" ELSE stepResult

EndStep ==
  /\ pc = "stepEnd" /\ ~fenced
  /\ trace' = StepEnd(trace, turn, step)
  /\ stepResult' = "none"
  /\ \/ /\ stepResult = "thrown" \/ Aborted
        /\ Throw
        /\ UNCHANGED target
     \/ /\ stepResult # "thrown" /\ ~Aborted
        /\ ends' = StepEnding
        /\ target' = "next-step"
        /\ pc' = IF StepEnding # "none" /\ nextStep = <<>> THEN "stopping" ELSE "boundary"
  /\ UNCHANGED <<inboxVars, phaseVars, step, proposed, context, partial,
                 snapshot, fenced, history, callVars, owner, fate>>

\* The turn-stopping listeners may have steered: only then the turn goes on.
StoppingIgnoresAbort ==  \* mutant: no abort check after the listeners
  /\ pc = "stopping"
  /\ \/ Throw
     \/ /\ pc' = IF nextStep = <<>> THEN "closing" ELSE "boundary"
        /\ UNCHANGED ends
  /\ UNCHANGED <<inboxVars, phaseVars, step, target, proposed, context, stepResult,
                 partial, snapshot, logVars, history, callVars, owner, fate>>

StoppingSettles ==
  /\ pc = "stopping"
  /\ \/ Throw
     \/ /\ ~Aborted
        /\ pc' = IF nextStep = <<>> THEN "closing" ELSE "boundary"
        /\ UNCHANGED ends
  /\ UNCHANGED <<inboxVars, phaseVars, step, target, proposed, context, stepResult,
                 partial, snapshot, logVars, history, callVars, owner, fate>>

\* turn/end, then either the next turn under a fresh signal or the way out.
CloseTurn ==
  /\ pc = "closing" /\ ~fenced
  /\ trace' = TurnEnd(trace, turn)
  /\ IF ends \in {"completed", "max-tokens"} /\ Pending
       THEN /\ abort' = "none" /\ wakeRequested' = FALSE /\ step' = 0
            /\ pc' = "turn"
            /\ ServesQueued
            /\ UNCHANGED <<lastExit, cancelled, callVars>>
       ELSE /\ LeaveLoop(IF ends \in {"completed", "max-tokens"} THEN "drained" ELSE "gaveUp")
            /\ UNCHANGED <<abort, wakeRequested, step, fate>>
  /\ UNCHANGED <<inboxVars, phase, turn, caught, target, ends, proposed, context,
                 stepResult, partial, snapshot, fenced, owner>>

(***************************************************************************)
(* A fenced append throws.  Inside the turn the finally blocks try to close *)
(* the step and the turn and throw again, so the driver leaves its loop     *)
(* with the turn still open in the log.                                     *)
(***************************************************************************)
Appending ==
  \/ pc = "turn" /\ ~Aborted
  \/ pc = "boundary" /\ ~Aborted /\ Batch # {}
  \/ pc = "decided" /\ ~Aborted /\ ~OwesNothing
  \/ pc \in {"request", "stream"} /\ ~Aborted
  \/ pc = "stream" /\ Aborted /\ partial
  \/ pc \in {"tools", "stepEnd", "closing"}

AppendRefused ==
  /\ fenced /\ Appending
  /\ LeaveLoop("gaveUp")
  /\ snapshot' = 0
  /\ DropClaimed(proposed) /\ proposed' = {}
  /\ context' = FALSE /\ stepResult' = "none" /\ partial' = FALSE
  /\ UNCHANGED <<inboxVars, phaseVars, step, target, ends, logVars, owner>>

(***************************************************************************)
(* kick()'s finally reads the latch, announces the idle phase, and then     *)
(* replays the latch as a wake.  Listeners of the announcement may have     *)
(* started a driver, which serves the inbox, or maintenance, which latches. *)
(***************************************************************************)
ExitDriver ==
  /\ pc = "exit"
  /\ phase' = "idle" /\ pc' = "none"
  /\ abort' = "none" /\ wakeRequested' = FALSE /\ caught' = FALSE
  /\ replaying' = wakeRequested
  /\ cancelled' = {}
  /\ UNCHANGED <<inboxVars, turn, stepVars, logVars, lastExit, calls, owner, fate>>

\* mutant: a latch read by kick() is not replayed
ReplayForgets ==
  /\ replaying /\ calls = <<>>
  /\ replaying' = FALSE
  /\ UNCHANGED <<inboxVars, phaseVars, stepVars, logVars, history, calls, pc, owner, fate>>

ReplayWake ==
  /\ replaying /\ calls = <<>>
  /\ replaying' = FALSE
  /\ IF phase = "idle" /\ Pending
       THEN StartDriver /\ Enter(Kick) /\ ServesQueued
       ELSE /\ wakeRequested' = (wakeRequested \/ (Pending /\ Latches(FALSE)))
            /\ UNCHANGED <<phase, turn, abort, caught, stepVars, pc, calls, fate, lastExit>>
  /\ UNCHANGED <<inboxVars, logVars, cancelled, owner>>

-----------------------------------------------------------------------------
Turn ==
  \/ TurnAbandoned \/ OpenTurn \/ BeginPreStep \/ BoundaryAborted
  \/ ContextPrepared \/ PreStepThrows \/ PreStepRejects
  \/ \E kept \in SUBSET proposed, extended \in BOOLEAN : PreStepEnters(kept, extended)
  \/ SkipStep \/ DecidedAborted \/ EnterStep
  \/ EndStep \/ StoppingSettles \/ CloseTurn \/ AppendRefused \/ ExitDriver

Step ==
  \/ RequestBuilt \/ RequestFails \/ Chunk \/ StreamBreaks \/ ProviderFails
  \/ RetryRequest \/ RequestErrorThrown \/ AnswerCallsTools
  \/ \E result \in {"completed", "max-tokens"} : AnswerEndsStep(result)
  \/ \E concluded \in BOOLEAN : ToolsReturn(concluded)
  \/ ToolsThrow

Callers ==
  \/ \E m \in Messages : Followup(m) \/ Steer(m) \/ Inject(m) \/ RemoveMessage(m)
  \/ Cancel \/ CancelKeepingInbox \/ Dispose \/ DisposeRefused \/ RunMaintenance

\* What a callback of the event loop's own does.
Outside ==
  \/ \E m \in Messages : AcceptContext(m)
  \/ Release \/ LoseOwnership

\* What a driver does before its first await.
Opening ==
  TurnAbandoned \/ OpenTurn \/ BeginPreStep \/ BoundaryAborted \/ CloseTurn \/ AppendRefused

\* The innermost call goes on when its listeners have returned.
Resume ==
  WakeDriver \/ CancelGoesOn \/ ReplayWake \/ (InCall("kick") /\ Opening)

\* Callers act between two callbacks, and as listeners within one.
Next ==
  \/ Resume \/ Callers
  \/ StackEmpty /\ (Turn \/ Step \/ Outside \/ MaintenanceSettles)

Spec == Init /\ [][Next]_vars

(***************************************************************************)
(* Fairness: listeners return and the calls that wait for them go on; the   *)
(* awaited work settles - the event loop resumes the driver, a provider     *)
(* stream ends, tools, hooks and maintenance return - and the request-error *)
(* listeners do not ask for retries for ever.  whenIdle() is first in line  *)
(* when an activity ends, so a disposal cannot be overtaken for ever by new *)
(* maintenance.  Callers owe nothing.                                       *)
(***************************************************************************)
Fairness ==
  /\ WF_vars(Resume)
  /\ WF_vars(StackEmpty /\ Turn)
  /\ WF_vars(StackEmpty /\ Step)
  /\ SF_vars(StackEmpty /\ RequestErrorThrown)
  /\ WF_vars(StackEmpty /\ MaintenanceSettles)
  /\ SF_vars(StackEmpty /\ Release)

FairSpec == Spec /\ Fairness

-----------------------------------------------------------------------------
(* Properties. *)

Phases  == {"idle", "maintenance", "running"}
Points  == {"none", "turn", "boundary", "context", "assembling", "decided", "request",
            "stream", "requestError", "tools", "stepEnd", "stopping", "closing", "exit"}
Endings == {"none", "completed", "max-tokens", "blocked", "aborted", "error"}
Waiting == {"queued", "live", "latched", "parked", "late"}
Fates   == Waiting \cup {"unsent", "claimed", "entered", "gone"}
Call    == [op: {"send"}, message: Messages, afterAbort: BOOLEAN]
             \cup [op: {"cancel"}, cause: Cause, left: {"next-turn", "abort"}]
             \cup {Kick}

\* Every variable keeps the shape the code gives it; the driver has a control
\* point exactly while its phase is running.
TypeOK ==
  /\ phase \in Phases /\ pc \in Points
  /\ pc = "none" <=> phase # "running"
  /\ turn \in Nat /\ step \in Nat
  /\ target \in {"next-turn", "next-step"} /\ ends \in Endings
  /\ abort \in Cause \cup {"none"} /\ wakeRequested \in BOOLEAN
  /\ nextTurn \in Seq(Messages) /\ nextStep \in Seq(Messages)
  /\ calls \in Seq(Call) /\ replaying \in BOOLEAN
  /\ caught \in BOOLEAN /\ cancelled \subseteq Messages
  /\ proposed \subseteq Messages /\ context \in BOOLEAN
  /\ stepResult \in {"none", "completed", "max-tokens", "owes", "thrown"}
  /\ partial \in BOOLEAN /\ snapshot \in Nat
  /\ trace \in Traces({}) /\ fenced \in BOOLEAN
  /\ owner \in {"live", "disposing", "detached", "released"}
  /\ fate \in [Messages -> Fates]
  /\ lastExit \in {"none", "drained", "gaveUp"}

\* On every path through turn() and step() - completion, rejection, abort,
\* failure, retry - the appends obey the log rules of the session's own
\* invariant companion: turns and steps open once, in order, and nest.
LogWellFormed == ~trace.broken

\* turn()'s finally closes what it opened: a driver that is not running left
\* no turn open, unless the log refuses appends.
ClosedWhenNotRunning ==
  (phase # "running" /\ ~fenced) => (trace.openTurn = 0 /\ trace.openStep = 0)

\* A message is in one pending list, once, exactly while it is neither
\* claimed nor discarded: no edit, claim or clear duplicates or loses one.
QueueMatchesFate ==
  /\ \A m \in Messages : fate[m] \in Waiting <=> m \in Queued
  /\ IsInjective(nextTurn) /\ IsInjective(nextStep)
  /\ ToSet(nextTurn) \cap ToSet(nextStep) = {}

\* What cancel() found pending never enters a step: also not when a listener of
\* the first discard starts a driver that claims a prompt before the second
\* splice reaches it, for the abort comes before that driver's first await ends.
CancelledNeverEnters == \A m \in cancelled : fate[m] # "entered"

\* Every message is accounted for: it waits in one place, once, and does not
\* come back once a cancel has found it there.
InboxAccounted == QueueMatchesFate /\ CancelledNeverEnters

\* The tool snapshot of a proposed step is released exactly once whatever
\* path the step takes: rejection, empty step, failure, abort, settlement.
SnapshotReleased ==
  snapshot = IF pc \in {"assembling", "decided", "request", "stream", "requestError", "tools"}
               THEN 1 ELSE 0

\* Whatever path a turn or a step takes, the driver ends what it began: the log
\* nests, and no turn, step or snapshot stays open behind it.
ClosesWhatItOpens == LogWellFormed /\ ClosedWhenNotRunning /\ SnapshotReleased

\* A wake latched behind maintenance or an aborted activity is replayed when
\* that activity converges: an idle agent holds no message behind a latch.  A
\* clearing cancel ends with dropping the latch, so a wake latched before that by
\* the listeners of its own discards is not promised this ("parked").
LatchedWakeReplayed ==
  (phase = "idle" /\ ~replaying) => \A m \in Messages : fate[m] # "latched"

\* A message whose wake a live driver accepted is left behind by that driver
\* only when its turn loop failed, was blocked or was aborted - or when the
\* message arrived after the driver's last look at the inbox ("late").
StrandedOnlyByFailure ==
  (phase = "idle" /\ lastExit = "drained") => \A m \in Messages : fate[m] # "live"

\* No wake is lost between the inbox and the driver: an idle agent is left with
\* queued work only by a failure, a rejection, an abort, a late arrival or a
\* cancel whose own listeners had sent it.
StrandsNoWake == LatchedWakeReplayed /\ StrandedOnlyByFailure

\* A queued prompt is claimed only by the first boundary of a turn, one per
\* turn: "the item becomes the sole ordinary message of its own turn".
PromptOpensTurn ==
  [][(pc = "boundary" /\ pc' = "context" /\ nextTurn' # nextTurn)
       => (trace.nextStep = 1 /\ trace.openStep = 0 /\ nextTurn' = Tail(nextTurn))]_vars

\* An abort that comes before its turn is over stands until the driver has left
\* its loop, and the driver leaves it having given up: through whatever awaits,
\* failures and listeners the turn still ends, no other is opened under a fresh
\* signal.  (A turn with an empty decision, or about to append the turn/end of a
\* completed turn, is over: the driver then goes on with work that was kept.)
AbortEndsDriver ==
  caught => Aborted /\ (pc = "exit" => lastExit = "gaveUp")

\* No accepted message waits for ever.  One behind a latch gets a driver, unless
\* it leaves the inbox or the latch is dropped; one a driver has accepted leaves
\* the inbox, unless that driver gives up on an abort, a rejection or an error.
QueuedWorkServed ==
  \A m \in Messages :
    []<>~(fate[m] = "latched" \/ (fate[m] = "live" /\ lastExit # "gaveUp"))

\* A disposal converges whatever the driver was doing when it was cancelled.
DisposalCompletes == []<>(owner # "disposing")

-----------------------------------------------------------------------------
(* What the repository says of the driver and the code does not keep. *)

\* agent.ts: "Live drivers claim queued work themselves"; a steering message
\* "a running driver consumes ... at its next step boundary".
LiveDriverClaims ==
  (phase = "idle" /\ lastExit = "drained") => \A m \in Messages : fate[m] \notin {"live", "late"}

=============================================================================
