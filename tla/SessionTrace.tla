---------------------------- MODULE SessionTrace ----------------------------
(***************************************************************************)
(* The relational rules of a session log, as the repository's own companion *)
(* check states them (packages/core/session/src/invariant.ts).  A trace is  *)
(* the fold of the log that check keeps per session: which turn and step    *)
(* are open (0 is the code's null), which numbers come next, which tool     *)
(* calls of the open step still lack a result, and whether some event broke *)
(* a rule.  The modules that append to a log describe each append with the  *)
(* operators below, so "the log is well formed" is ~trace.broken.           *)
(***************************************************************************)
EXTENDS Naturals

EmptyTrace == [openTurn |-> 0, openStep |-> 0, nextTurn |-> 1, nextStep |-> 1,
               pendingCalls |-> {}, broken |-> FALSE]

Traces(Calls) == [openTurn: Nat, openStep: Nat, nextTurn: Nat, nextStep: Nat,
                  pendingCalls: SUBSET Calls, broken: BOOLEAN]

\* A rule's `fail`: the event is not folded and the trace is marked.
Accept(tr, rule, folded) == IF rule THEN folded ELSE [tr EXCEPT !.broken = TRUE]

TurnStart(tr, turn) ==
  Accept(tr, tr.openTurn = 0 /\ turn = tr.nextTurn,
         [tr EXCEPT !.openTurn = turn, !.nextStep = 1])

TurnEnd(tr, turn) ==
  Accept(tr, tr.openTurn = turn /\ tr.openStep = 0,
         [tr EXCEPT !.openTurn = 0, !.nextTurn = @ + 1])

StepStart(tr, turn, step) ==
  Accept(tr, tr.openTurn = turn /\ tr.openStep = 0 /\ step = tr.nextStep,
         [tr EXCEPT !.openStep = step])

InOpenStep(tr, turn, step) == tr.openTurn = turn /\ tr.openStep = step

StepEnd(tr, turn, step) ==
  Accept(tr, InOpenStep(tr, turn, step),
         [tr EXCEPT !.openStep = 0, !.nextStep = @ + 1, !.pendingCalls = {}])

\* assistant/chunk and assistant/message
StepEvent(tr, turn, step) == Accept(tr, InOpenStep(tr, turn, step), tr)

\* request/header and request/context
TurnEvent(tr) == Accept(tr, tr.openTurn # 0, tr)

ToolCall(tr, turn, step, call) ==
  Accept(tr, InOpenStep(tr, turn, step), [tr EXCEPT !.pendingCalls = @ \cup {call}])

\* Only a result synthesized for a call that never started may lack a call.
ToolResult(tr, turn, step, call, notStarted) ==
  Accept(tr, InOpenStep(tr, turn, step) /\ (call \in tr.pendingCalls \/ notStarted),
         [tr EXCEPT !.pendingCalls = @ \ {call}])
=============================================================================
