---------------------------- MODULE CrashRecovery ----------------------------
(***************************************************************************)
(* One session across crashes of the harness: the loop appends to the log   *)
(* in memory, the checkpoint policy (packages/session/                      *)
(* session-checkpoint-policy/src/index.ts) makes it wait for the durable    *)
(* log before requests and tool bodies, the JSONL store may be cut in the   *)
(* middle of an append, and the coordinator closes an interrupted turn      *)
(* (packages/core/session/src/repair.ts) before it resumes the session.     *)
(*                                                                         *)
(* Write batching is WriteBehind's subject: here a flush waits until what   *)
(* was in the log when it was called is durable, which is DurableLog.       *)
(***************************************************************************)
EXTENDS Naturals, Sequences, SequencesExt

CONSTANTS
  MaxEvents,  \* bound: length of the log the loop may reach
  MaxCalls,   \* bound: tool calls the model issues
  MaxFaults   \* bound: crashes and failed repairs

ASSUME CrashRecoveryAssumption == MaxEvents \in Nat /\ MaxCalls \in Nat /\ MaxFaults \in Nat

Calls == 1..MaxCalls

Rules == INSTANCE SessionTrace

VARIABLES
  log,       \* session.events of the live process
  stored,    \* complete events in the file
  tail,      \* complete events decodable from the file's torn last frame
  torn,      \* the file ends in a torn frame or line
  encoding,  \* the store's compression: "zstd" or "none"
  process,   \* "live", "down", "prepared" or "truncated"
  unsaved,   \* the prepared source's recovered events and closers
  loop,      \* "idle", "turn", "step", "requested" or "tools"
  turn,      \* phase.turn
  step,      \* phase.step
  issued,    \* tool calls the model has issued
  dispatch,  \* each call: "none", "called", "waiting" (for its checkpoint) or "running"
  awaited,   \* length of the log its checkpoint waits for
  faults,    \* crashes and failed repairs so far
  ran,       \* history: calls whose body began
  shown,     \* history: the log as the last request showed it to the model
  seen       \* history: the most that a preparation has read from the file

fileVars == <<stored, tail, torn, encoding>>
callVars == <<dispatch, awaited, ran>>
loopVars == <<loop, turn, step, issued, shown>>
recoveryVars == <<process, unsaved, seen, faults>>
vars == <<log, fileVars, recoveryVars, loopVars, callVars>>

-----------------------------------------------------------------------------
(* Session events.  Those that concern no call have calls = <<>>. *)

Types == {"turn/start", "turn/end", "step/start", "step/end", "assistant/message",
          "tool/call", "tool/result"}

Codes == {"", "TOOL_NOT_STARTED", "TOOL_OUTCOME_UNKNOWN"}

Events ==
  {event \in [type: Types, turn: Nat, step: Nat, calls: Seq(Calls), code: Codes] :
     event.type \in {"tool/call", "tool/result"} => event.calls # <<>>}

Boundary(type, t, s) == [type |-> type, turn |-> t, step |-> s, calls |-> <<>>, code |-> ""]

CallEvent(type, t, s, call, code) ==
  [type |-> type, turn |-> t, step |-> s, calls |-> <<call>>, code |-> code]

CallOf(event) == event.calls[1]

-----------------------------------------------------------------------------
(* interruptedTurnClosers *)

Requested(event) == [i \in 1..Len(event.calls) |->
                      [call |-> event.calls[i], step |-> event.step, started |-> FALSE]]

Started(pending, call) ==
  [i \in DOMAIN pending |-> [pending[i] EXCEPT !.started = @ \/ pending[i].call = call]]

\* The Map holds a call once.
Without(pending, call) ==
  IF \E i \in DOMAIN pending : pending[i].call = call
    THEN RemoveAt(pending, CHOOSE i \in DOMAIN pending : pending[i].call = call)
    ELSE pending

\* One event moves the cursor of open turn, open step (0 is null) and calls
\* without a result, in the order the assistant message lists them.
MoveCursor(at, event) ==
  CASE event.type = "turn/start"  -> [openTurn |-> event.turn, openStep |-> 0, pending |-> <<>>]
    [] event.type = "turn/end"    -> [openTurn |-> 0, openStep |-> 0, pending |-> <<>>]
    [] event.type = "step/start"  -> [at EXCEPT !.openStep = event.step]
    [] event.type = "step/end"    -> [at EXCEPT !.openStep = 0, !.pending = <<>>]
    [] event.type = "assistant/message" -> [at EXCEPT !.pending = @ \o Requested(event)]
    [] event.type = "tool/call"   ->
         [at EXCEPT !.pending = Started(@, CallOf(event))]
    [] event.type = "tool/result" ->
         [at EXCEPT !.pending = Without(@, CallOf(event))]

Cursor(events) == FoldLeft(MoveCursor, [openTurn |-> 0, openStep |-> 0, pending |-> <<>>], events)

InterruptedResult(t, entry) ==
  CallEvent("tool/result", t, entry.step, entry.call,
            IF entry.started THEN "TOOL_OUTCOME_UNKNOWN" ELSE "TOOL_NOT_STARTED")

StepCloser(at) ==
  IF at.openStep = 0 THEN <<>> ELSE <<Boundary("step/end", at.openTurn, at.openStep)>>

\* mutant: only calls that were recorded as started get a result
ClosersOfStarted(events) ==
  LET at == Cursor(events)
      started == SelectSeq(at.pending, LAMBDA entry : entry.started)
  IN IF at.openTurn = 0 THEN <<>>
     ELSE [i \in DOMAIN started |-> InterruptedResult(at.openTurn, started[i])]
          \o StepCloser(at) \o <<Boundary("turn/end", at.openTurn, 0)>>

InterruptedTurnClosers(events) ==
  LET at == Cursor(events)
  IN IF at.openTurn = 0 THEN <<>>
     ELSE [i \in DOMAIN at.pending |-> InterruptedResult(at.openTurn, at.pending[i])]
          \o StepCloser(at) \o <<Boundary("turn/end", at.openTurn, 0)>>

-----------------------------------------------------------------------------
Init ==
  /\ log = <<>> /\ stored = <<>> /\ tail = <<>> /\ torn = FALSE
  /\ encoding \in {"zstd", "none"}
  /\ process = "live" /\ unsaved = <<>> /\ faults = 0
  /\ loop = "idle" /\ turn = 0 /\ step = 0 /\ issued = 0
  /\ dispatch = [c \in Calls |-> "none"] /\ awaited = [c \in Calls |-> 0]
  /\ ran = {} /\ shown = <<>> /\ seen = <<>>

-----------------------------------------------------------------------------
(* The live loop, as far as its appends and checkpoints go. *)

AppendEvent(event) ==
  /\ process = "live" /\ Len(log) < MaxEvents
  /\ log' = Append(log, event)
  /\ UNCHANGED <<fileVars, recoveryVars>>

\* sessions.flush(session) of a caller that lets nothing else be appended.
Checkpointed == stored = log

TurnStart ==
  /\ loop = "idle" /\ loop' = "turn" /\ turn' = turn + 1 /\ step' = 0
  /\ AppendEvent(Boundary("turn/start", turn + 1, 0))
  /\ UNCHANGED <<issued, shown, callVars>>

TurnEnd ==
  /\ loop = "turn" /\ loop' = "idle"
  /\ AppendEvent(Boundary("turn/end", turn, 0))
  /\ UNCHANGED <<turn, step, issued, shown, callVars>>

\* The pre-step checkpoint makes the previous step's batch durable first.
StepStart ==
  /\ loop = "turn" /\ Checkpointed
  /\ loop' = "step" /\ step' = step + 1
  /\ AppendEvent(Boundary("step/start", turn, step + 1))
  /\ UNCHANGED <<turn, issued, shown, callVars>>

\* The stream is not constructed before the request prefix is durable.
RequestUnchecked ==  \* mutant: without the checkpoint
  /\ process = "live" /\ loop = "step"
  /\ loop' = "requested" /\ shown' = log
  /\ UNCHANGED <<log, fileVars, recoveryVars, turn, step, issued, callVars>>

Request ==
  /\ process = "live" /\ loop = "step" /\ Checkpointed
  /\ loop' = "requested" /\ shown' = log
  /\ UNCHANGED <<log, fileVars, recoveryVars, turn, step, issued, callVars>>

Respond(n) ==
  /\ loop = "requested" /\ loop' = "tools"
  /\ issued + n <= MaxCalls /\ issued' = issued + n
  /\ AppendEvent([Boundary("assistant/message", turn, step) EXCEPT
                    !.calls = [i \in 1..n |-> issued + i]])
  /\ UNCHANGED <<turn, step, shown, callVars>>

Unanswered == Cursor(log).pending

\* A step also ends without an answer when its request fails.
StepEnd ==
  /\ loop \in {"step", "requested", "tools"} /\ Unanswered = <<>>
  /\ loop' = "turn"
  /\ AppendEvent(Boundary("step/end", turn, step))
  /\ UNCHANGED <<turn, step, issued, shown, callVars>>

-----------------------------------------------------------------------------
(* Tool calls (ToolScheduler has the pool; here any overlap is possible). *)

\* tool/call events are appended in model order.
StartCall(i) ==
  /\ loop = "tools" /\ i \in DOMAIN Unanswered
  /\ ~Unanswered[i].started /\ \A j \in 1..(i - 1) : Unanswered[j].started
  /\ dispatch' = [dispatch EXCEPT ![Unanswered[i].call] = "called"]
  /\ AppendEvent(CallEvent("tool/call", turn, step, Unanswered[i].call, ""))
  /\ UNCHANGED <<loopVars, awaited, ran>>

\* tools/execute: a top-level body waits until its recorded call is durable.
Checkpoint(c) ==
  /\ process = "live" /\ dispatch[c] = "called"
  /\ dispatch' = [dispatch EXCEPT ![c] = "waiting"]
  /\ awaited' = [awaited EXCEPT ![c] = Len(log)]
  /\ UNCHANGED <<log, fileVars, recoveryVars, loopVars, ran>>

RunBodyUnchecked(c) ==  \* mutant: the body does not wait
  /\ process = "live" /\ dispatch[c] = "waiting"
  /\ dispatch' = [dispatch EXCEPT ![c] = "running"] /\ ran' = ran \cup {c}
  /\ UNCHANGED <<log, fileVars, recoveryVars, loopVars, awaited>>

RunBody(c) ==
  /\ process = "live" /\ dispatch[c] = "waiting" /\ Len(stored) >= awaited[c]
  /\ dispatch' = [dispatch EXCEPT ![c] = "running"] /\ ran' = ran \cup {c}
  /\ UNCHANGED <<log, fileVars, recoveryVars, loopVars, awaited>>

\* Results are committed in model order, whether the body returned, the
\* checkpoint rejected, or the call was settled before any dispatch.
CommitResult(code) ==
  /\ loop = "tools" /\ Unanswered # <<>> /\ Head(Unanswered).started
  /\ LET c == Head(Unanswered).call
     IN /\ code = "TOOL_NOT_STARTED" => dispatch[c] = "called"
        /\ dispatch' = [dispatch EXCEPT ![c] = "none"]
        /\ AppendEvent(CallEvent("tool/result", turn, step, c, code))
  /\ UNCHANGED <<loopVars, awaited, ran>>

-----------------------------------------------------------------------------
(* The file. *)

Unstored == SubSeq(log, Len(stored) + 1, Len(log))

\* A write-behind batch is appended and synced.
Persist ==
  /\ process = "live"
  /\ \E n \in 1..Len(Unstored) : stored' = stored \o SubSeq(Unstored, 1, n)
  /\ UNCHANGED <<log, tail, torn, encoding, recoveryVars, loopVars, callVars>>

\* The process dies: what it held in memory is gone.
Die ==
  /\ faults < MaxFaults /\ faults' = faults + 1
  /\ process' = "down" /\ log' = <<>> /\ unsaved' = <<>>
  /\ loop' = "idle" /\ turn' = 0 /\ step' = 0
  /\ dispatch' = [c \in Calls |-> "none"] /\ awaited' = [c \in Calls |-> 0]
  /\ UNCHANGED <<encoding, issued, ran, shown, seen>>

Crash == Die /\ process # "down" /\ UNCHANGED <<stored, tail, torn>>

\* Some bytes of a batch reach the file.  A cut frame yields its complete
\* records to a decoder; cut plain text simply has them.  The first batch is
\* written to a temporary file, so it is never cut.
CrashInAppend(batch) ==
  /\ Die /\ stored # <<>> /\ ~torn /\ torn' = TRUE
  /\ \E n \in 0..Len(batch) :
       IF encoding = "zstd"
         THEN tail' = SubSeq(batch, 1, n) /\ UNCHANGED stored
         ELSE n < Len(batch) /\ stored' = stored \o SubSeq(batch, 1, n) /\ UNCHANGED tail

CrashInPersist ==
  /\ process = "live" /\ Unstored # <<>>
  /\ \E n \in 1..Len(Unstored) : CrashInAppend(SubSeq(Unstored, 1, n))

-----------------------------------------------------------------------------
(* The coordinator's prepare loop: read and balance in memory, commit the   *)
(* repair and read again, publish once there is nothing to repair.          *)

Prepare ==
  /\ process = "down" /\ stored # <<>> /\ process' = "prepared"
  /\ seen' = IF Len(stored \o tail) > Len(seen) THEN stored \o tail ELSE seen
  /\ unsaved' = tail \o InterruptedTurnClosers(stored \o tail)
  /\ UNCHANGED <<log, fileVars, faults, loopVars, callVars>>

\* mutant: the fragment of the torn record stays
TruncateShort ==
  /\ process = "prepared" /\ torn /\ process' = "truncated"
  /\ tail' = <<>>
  /\ UNCHANGED <<log, stored, torn, encoding, unsaved, seen, faults, loopVars, callVars>>

Truncate ==
  /\ process = "prepared" /\ torn /\ process' = "truncated"
  /\ torn' = FALSE /\ tail' = <<>>
  /\ UNCHANGED <<log, stored, encoding, unsaved, seen, faults, loopVars, callVars>>

Repairing == process = "truncated" \/ (process = "prepared" /\ ~torn /\ unsaved # <<>>)

CommitRepair ==
  /\ Repairing /\ process' = "down"
  /\ stored' = stored \o unsaved /\ unsaved' = <<>>
  /\ UNCHANGED <<log, tail, torn, encoding, seen, faults, loopVars, callVars>>

\* The append fails and is rolled back; whoever resumes may try again.
RepairFails ==
  /\ Repairing /\ faults < MaxFaults /\ faults' = faults + 1
  /\ process' = "down" /\ unsaved' = <<>>
  /\ UNCHANGED <<log, fileVars, seen, loopVars, callVars>>

CrashInRepair == Repairing /\ unsaved # <<>> /\ CrashInAppend(unsaved)

LastTurn(events) ==
  LET i == SelectLastInSeq(events, LAMBDA event : event.type = "turn/start")
  IN IF i = 0 THEN 0 ELSE events[i].turn

\* The stored log seeds the live session; the agent counts turns from it.
Publish ==
  /\ process = "prepared" /\ ~torn /\ unsaved = <<>>
  /\ process' = "live" /\ log' = stored /\ turn' = LastTurn(stored)
  /\ UNCHANGED <<fileVars, unsaved, seen, faults, loop, step, issued, shown, callVars>>

-----------------------------------------------------------------------------
Loop ==
  \/ TurnStart \/ TurnEnd \/ StepStart \/ Request \/ StepEnd
  \/ \E n \in 0..MaxCalls : Respond(n)
  \/ \E i \in Calls : StartCall(i)
  \/ \E c \in Calls : Checkpoint(c) \/ RunBody(c)
  \/ \E code \in Codes : CommitResult(code)

Recover == Prepare \/ Truncate \/ CommitRepair \/ Publish

Next == Loop \/ Persist \/ Crash \/ CrashInPersist \/ CrashInRepair \/ RepairFails \/ Recover

Spec == Init /\ [][Next]_vars

\* A session that is asked for again goes through the prepare loop.
FairSpec == Spec /\ WF_vars(Recover)

-----------------------------------------------------------------------------
(* Properties. *)

\* Every variable keeps its shape; nothing is torn or unsaved while live.
TypeOK ==
  /\ log \in Seq(Events) /\ stored \in Seq(Events) /\ tail \in Seq(Events)
  /\ torn \in BOOLEAN /\ encoding \in {"zstd", "none"}
  /\ process \in {"live", "down", "prepared", "truncated"} /\ unsaved \in Seq(Events)
  /\ loop \in {"idle", "turn", "step", "requested", "tools"}
  /\ turn \in Nat /\ step \in Nat /\ issued \in 0..MaxCalls
  /\ dispatch \in [Calls -> {"none", "called", "waiting", "running"}]
  /\ awaited \in [Calls -> Nat] /\ faults \in 0..MaxFaults
  /\ ran \subseteq Calls /\ shown \in Seq(Events) /\ seen \in Seq(Events)
  /\ process = "live" => ~torn /\ tail = <<>> /\ IsPrefix(stored, log)

\* The companion check's fold of one event.
Traced(tr, event) ==
  CASE event.type = "turn/start"  -> Rules!TurnStart(tr, event.turn)
    [] event.type = "turn/end"    -> Rules!TurnEnd(tr, event.turn)
    [] event.type = "step/start"  -> Rules!StepStart(tr, event.turn, event.step)
    [] event.type = "step/end"    -> Rules!StepEnd(tr, event.turn, event.step)
    [] event.type = "assistant/message" -> Rules!StepEvent(tr, event.turn, event.step)
    [] event.type = "tool/call"   -> Rules!ToolCall(tr, event.turn, event.step, CallOf(event))
    [] event.type = "tool/result" ->
         Rules!ToolResult(tr, event.turn, event.step, CallOf(event), event.code = "TOOL_NOT_STARTED")

\* Whatever was cut and repaired, however often, and wherever a repair was cut
\* in turn: the log a process works on, and what the next one would read,
\* keep every rule of a session log.
LogsKeepRules ==
  \A events \in {log, stored \o tail} : ~FoldLeft(Traced, Rules!EmptyTrace, events).broken

\* assertToolTranscriptValid on the messages of one event: the results of an
\* assistant's calls follow it in order, before anything else is said.
Answered(tr, event) ==
  CASE event.type = "assistant/message" /\ event.calls # <<>> ->
         [pending |-> event.calls, valid |-> tr.valid /\ tr.pending = <<>>]
    [] event.type = "tool/result" ->
         IF tr.pending # <<>> /\ Head(tr.pending) = CallOf(event)
           THEN [tr EXCEPT !.pending = Tail(@)] ELSE [tr EXCEPT !.valid = FALSE]
    [] event.type = "turn/start" -> [tr EXCEPT !.valid = @ /\ tr.pending = <<>>]
    [] OTHER -> tr

Transcript(events) == FoldLeft(Answered, [pending |-> <<>>, valid |-> TRUE], events)

\* Outside a step, and in all that the model is ever shown, every tool call,
\* made in this life of the session or an earlier one, has its one result, in
\* order: no call is left for the transcript canonicalizer to patch.
TranscriptValid ==
  \A events \in {shown} \cup {e \in {log} : loop \in {"idle", "turn"}} :
    Transcript(events) = [pending |-> <<>>, valid |-> TRUE]

\* A repaired log is a log: it keeps every rule, and its transcript is one a
\* provider accepts.
LogsRepaired == LogsKeepRules /\ TranscriptValid

\* A tool whose body began is on record: its call is durable through every
\* crash and repair, and no result ever tells the model that it did not start
\* (which invites a retry of what may already have happened).
RunsAreRecorded ==
  \A c \in ran :
    /\ \E i \in DOMAIN stored : stored[i].type = "tool/call" /\ CallOf(stored[i]) = c
    /\ \A events \in {log, stored, tail, unsaved} : \A i \in DOMAIN events :
         ~(events[i].type = "tool/result" /\ CallOf(events[i]) = c
           /\ events[i].code = "TOOL_NOT_STARTED")

\* What the model was shown is never taken back: a session resumed after a
\* crash continues every log that a request of an earlier life was made from.
ShownIsKept == process = "live" => IsPrefix(shown, log)

\* Recovery ends: a repair leaves a log that needs no repair, so a session
\* with anything on disk is live again however its repairs were cut short.
Recovers == (process # "live" /\ stored # <<>>) ~> process = "live"

\* session-persistence/README.md:27 "Only a never-fully-written torn tail
\* fragment is discarded": the complete events a preparation read from the
\* file are in the session that is resumed from it.
TailWorkKept == process = "live" => IsPrefix(seen, log)
=============================================================================
