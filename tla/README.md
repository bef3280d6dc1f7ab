# Verification of relay-harness

TLA+ models of the core of relay-harness (`src/relay-harness/`), the TLC
configurations that check them, and theorems that TLAPS checks about the agent
driver, the tool scheduler, the resource locks, the write-behind, the session
coordinator, the services a turn waits on and the mailbox of a subagent. Paths
below are relative to `src/relay-harness/packages/` unless they start with
another directory. `PROJECT.json` holds the same information in
machine-readable form: the line ranges each definition translates (`map`), the
runs, a mutant for every checked property, the hazards with their lines and the
theorems.

The harness hosts LLM agents. An agent owns a *session*, an append-only log of
events; a *driver* opens turns and steps, asks a model, runs the tools it calls
and logs everything; *persistence* writes the log behind the driver and repairs
it after a crash. Everything runs in one JavaScript process, so interleaving
happens exactly at `await`s, at synchronous observer callbacks and at crashes.
That is where the models put their steps.

## 1. Inventory

### Core, modelled

| Component | Source | State | Operations | Talks to |
|---|---|---|---|---|
| Agent driver | `core/agent-loop/src/agent.ts` | `phase` (idle, maintenance, running), turn and step counters, the abort controller, the wake latch, one tool snapshot per step | `followup`, `steer`, `inject`, `send`, `cancel`, `runMaintenance`, `whenIdle`; internally `kick`, `turn`, `preStep`, `step`, `buildRequest` | inbox, session, llm gateway, tools, hooks (`agent/pre-step`, `agent/request-error`, `agent/turn-stopping`) |
| Agent inbox | `core/agent/src/inbox.ts` | two pending lists (`next-turn`, `next-step`), each edit a durable splice event | insert, remove, edit, move, `claim`, `clear`; capacity limits | session (append first, then mutate) |
| Lifecycle owner | `core/agent-loop/src/index.ts` | registry of agents and scopes | create, resume, ensure-live, fork, dispose | driver, persistence |
| Session log and its rules | `core/session/src/index.ts`, `invariant.ts` | the event array; an append-reentry guard; a persistence fence | `append`; the companion's fold of turn, step and tool events | observers (`session/event`), persistence |
| Tool call scheduler | `core/agent-loop/src/tool-calls.ts` | group bounds, slots, pool in flight, commit cursor, first failure | `executeToolCalls`, `runGroup`, `startCall`, `commitReady`, failure completion, skips | session, tool registry, inbox (result contexts) |
| Tool resource locks | `core/tools/src/resource-lock.ts` | per key: readers, writer, FIFO queue; a map of keys in use | `run`, `acquire`, `drain`, `release`, abort listeners | tool dispatch |
| Write-behind | `session/session-persistence/src/write-behind.ts` | pending queue, active write, batching timer, pause and deadline flags, the drain barrier | `enqueue`, `flush`, `onDeadline`, `startWrite`, `drainBarrier` | coordinator, storage backend |
| Persistence coordinator | `session/session-persistence/src/coordinator.ts` | per id: the live Session and its durable cursor, who owns the log, a retirement with its retry | live init, `flush`, `prepare`, `load`, `inspect`, `commitPrepared`, publication, retirement | stores, sessions, preparations |
| Session preparations | `session/session-persistence/src/preparations.ts` | a cache of readings: loading, ready, committing, reserved | join a reading, reserve, release, discard, evict | coordinator |
| Checkpoint policy | `session/session-checkpoint-policy/src/index.ts` | none | waits for a flush before a step, a model request and a top-level tool body | sessions.flush, llm/stream and tools/execute waterfalls |
| Crash repair | `core/session/src/repair.ts`, `tool-transcript.ts` | none (folds of the log) | `interruptedTurnClosers`, `assertToolTranscriptValid`, `normalizeToolTranscript` | coordinator, driver |
| Background jobs | `jobs/jobs-local/src/index.ts` | records with status and report flag, waits, owner and registry teardown | `start`, `read`, `wait`, `kill`, `list`, settlement, notices, pruning, the two teardowns | tools that start and wait for jobs; the owner's inbox |
| User approval | `interaction/user-approval/src/index.ts` | the session's policy, questions in the air | `request`, `setPolicy`; the race of the answerers and the call's signal | tool policy, user interface |
| LLM retry | `llm/llm-retry/src/index.ts` | retry records of the step (in the log), waits in progress | `recover`, `backoff`, teardown | `agent/request-error` of the driver |
| Subagent mailbox | `subagent/subagent/src/continuation.ts`, `delivery.ts` | per child: the Activation, accepted messages, one critical section; the rest is in the child's log | `followup`, cold resumption with replay, publication, acknowledgement, settlement, `interrupt`, `drain` | the child's driver, inbox and session |
| JSONL store | `session/session-persistence-jsonl/src/` | one file of frames (zstd) or lines (raw) | materialize, append with rollback, read with torn-tail recovery, two-step `commitRepair` | file system |

What makes each correct:

* **driver**: the log nests turns, steps and calls on every path; nothing queued
  with a wake is forgotten; an abort is final for its activity; the tool snapshot
  of a step is released once; a disposal ends.
* **inbox**: a message is in one list, once, until it is claimed or discarded; a
  prompt opens a turn of its own.
* **scheduler**: every call gets its result, once, in model order; exclusive
  calls are barriers; nothing starts after a failure or an abort; no body
  outlives its result.
* **locks**: exclusion, FIFO, no deadlock over several keys, nothing lost or
  leaked when waiters abort.
* **write-behind**: the store is a prefix of the log; nothing is lost, repeated
  or reordered by failures; a flush that succeeds covers all that preceded it.
* **crash recovery**: a resumed session is well formed and provider-valid, and it
  never contradicts what the model or a tool already acted on.
* **coordinator and preparations**: one Session of the process per log, which
  continues exactly the log as it is stored for as long as its fence is held or no
  other process writes; no reading older than its call is returned; a disposed
  Session's tail is retried before it is given up.
* **jobs**: the end of a job reaches somebody; running work stays within its limit
  and does not outlive its owner.
* **approval**: a call runs only on the answer to the question it asked itself,
  given while it waited.
* **retry**: a step makes the requests its records announce and no more.
* **mailbox**: a receipt is kept through every crash; messages are delivered in
  acceptance order, once; a child that owes a delivery is not disposed.

### Not modelled

Compaction, goals, schedules, workflows and the drivers of subagents have state
and timing of their own: they act through the driver's public points, which
`AgentDriver` leaves nondeterministic. User questions are the table of approvals
once more, with answers that decide nothing about a call. Of parts that are
modelled, these operations are left out: the inbox's `edit` and `move`;
create, resume, ensure-live and fork of the lifecycle owner; `create`, `readFrom`,
the adoption of live sessions by a reloaded plugin and the final drain of the
coordinator; `takeReady` of the preparations; access fences, read cursors and
change observers of jobs; leases between processes, settlement notices,
ownership of descendants and creation of a child in the subagent manager.
Projections, titles, telemetry, LLM adapters, prompt assembly, hosts, SDK, UI,
configuration and tool bodies (file system, shell, LSP, MCP) are data
transformation, I/O or wiring; the models see only their outcomes. They are most
of the repository's lines, and a model of them would say nothing that a type
checker or a unit test does not. `PROJECT.json` lists every part with its reason.

### What is hard here

* **Stale decisions.** `send()` classifies a wake before it announces the message,
  `turn()` looks at the inbox before `kick()` becomes idle, `preStep` decides
  before the abort check: between look and use any caller may run.
* **Finally blocks that can fail.** The clean-up of a turn appends to the log, and
  after a loss of persistence ownership every append throws.
* **Synchronous observers.** Insertions, discards and appends call out; a listener
  may cancel, dispose, send, remove or start maintenance while the caller is half
  done, and these calls call out themselves. `cancel()` clears two lists in two
  splices, each with its listeners, before it looks at the phase, drops the latch
  and aborts. Appends are not re-entrant.
* **Checks that exclude nobody.** A resumption compares the log's revision and then
  repairs or publishes after further awaits; unless it carries a fence, another
  process may write in between, or beside the live Session.
* **Partial failure** in pools (some bodies run, some settled, some not started),
  in multi-key acquisition, in batched writes, in the two-step repair.
* **Crashes** between any two events, inside an append, inside the repair of an
  earlier crash, between a delivery's acceptance, publication, claim and entry.
* **Answers that come late**: an answer to a question nobody waits for, a job that
  ends after its wait expired, a reading whose preparation was discarded, a retry
  record written as its turn is aborted.
* **Teardown beside use**: of an agent, a child, the job registry, the recovery
  plugin, a Session with an unwritten tail.

The 40 hazards, with their lines and the properties that cover them, are in
`PROJECT.json`. One is not covered: an append whose rollback fails too
(`session-persistence-jsonl/src/index.ts:670`) leaves partial bytes in front of
its retry, and needs a model of a file's bytes.

## 2. Modules

| Module | Models | Remark |
|---|---|---|
| `SessionTrace` | the fold of `core/session/src/invariant.ts` | one operator per event type, a `broken` flag for a violated rule |
| `AgentDriver` | `agent.ts` + `inbox.ts` claims + `dispose()` | one action per stretch of code between two awaits |
| `ToolScheduler` | `tool-calls.ts` | one action per stretch of `runGroup` between two awaits |
| `ResourceLock` | `resource-lock.ts` | `drain()` is a small machine of its own because it re-enters |
| `WriteBehind` | `write-behind.ts` + the coordinator's init, batch filter and flush | one action per microtask |
| `DurableLog` | what persistence promises one live session; `WriteBehind` implements it | abstract |
| `CrashRecovery` | checkpoint policy + JSONL append, tear and repair + the coordinator's prepare loop + `repair.ts` | |
| `SessionCoordinator` | `coordinator.ts` + `preparations.ts` for one id | one action per operation of the id's chain |
| `SessionOwner` | what the coordinator promises of one log and the Sessions resumed from it; `SessionCoordinator` implements it | abstract |
| `JobRegistry`, `RetryPolicy`, `Approval` | `jobs-local`, `llm-retry`, `user-approval` | operations only; no specification of their own |
| `TurnServices` | the turn that uses the three, its signal, the teardowns | composes the three |
| `SubagentMailbox` | `continuation.ts` + `delivery.ts` + the inbox's replay, over a log that a crash cuts | |
| `AgentDriverProofs`, `ToolSchedulerProofs`, `ResourceLockProofs`, `WriteBehindProofs`, `CrashRecoveryProofs`, `SessionCoordinatorProofs`, `TurnServicesProofs`, `SubagentMailboxProofs` | proofs about the module they are named after | |
| `MC*` | values of the constants for TLC | |

How they compose: `AgentDriver`, `ToolScheduler` and `CrashRecovery` describe
their appends with the same `SessionTrace`, so the log rules are one definition.
`AgentDriver` sees a tool execution as one await (`tools`) whose outcomes are
those `ToolScheduler` ends with (returned, concluded, thrown) and whose accepted
contexts are `AcceptContext`. `TurnServices` joins what happens inside two other
awaits of the driver, the recovery of a failed request and the bodies of tools,
because one signal and one disposal cut all of them short. `WriteBehind` is shown to implement
`DurableLog`; `CrashRecovery` uses that contract (a flush returns when what was in
the log at its call is stored) instead of the controller's internals, and so does
`SubagentMailbox` for its durability barrier. `SessionCoordinator` says who may
have a Session over a log, and is shown to implement `SessionOwner`; `CrashRecovery`
says what that Session finds there.

### State and actions against the code

* **AgentDriver.** `phase`, `turn`, `step`, `abort`, `wakeRequested`, `nextTurn`,
  `nextStep`, `target`, `ends` are the code's fields and locals of the same name.
  `pc` names the await or callback the driver stands at (listed in the module's
  head). `calls` is the stack of calls that wait for listeners of theirs, innermost
  first: a `send()` between its insertion and `wakeDriver` (`Send`/`WakeDriver`), a
  `cancel()` between its splices and its abort (`CancelClearing`/`CancelGoesOn`/
  `StopActivity`), and a `kick()` that runs inside its caller up to its first await.
  Only the innermost goes on, and while it waits every action of `Callers` is open,
  so listeners may do whatever a caller may. `replaying` is `kick()` between the
  announcement of the idle phase and the replay of the latch it has read
  (`ExitDriver`/`ReplayWake`). `Ways` says how each message may come in. `trace` is
  the log folded by `SessionTrace`; `fenced` makes appends throw (`AppendRefused` is
  the whole unwinding of the turn in that case). `fate`, `caught`, `cancelled` and
  `lastExit` are history: what became of a message and of its wake (`live`,
  `latched`, `parked` when nobody is going to deliver the wake, `late` after the
  driver's last look), that the standing abort came before its turn was over, the
  prompts a cancel found and has not discarded, and why the driver left its loop.
  `CloseTurn` is turn()'s finally *and* its tail (next turn or exit) because no await
  separates them. `runMaintenance` changes no public status and so announces
  nothing (`agent.ts:163-170`); its start and end are one step each.
* **ToolScheduler.** Calls are numbered in model order. `started`, `committed`,
  `slot`, `inFlight`, `attempted`, `failure`, `aborted` are `runGroup`'s locals;
  `mode` is the snapshot's classification, any function. `results` records each
  `tool/result` with its origin (`tool`, `unknown`, `skipped`). Calls appended in
  a synchronous loop (`SkipFrom`) are one step.
* **ResourceLock.** `intent` is the normalised claim of a dispatch, `held` the
  leases of its finally block; `readers`, `writer`, `queue`, `present` are the
  state map. `drainKey`, `at`, `outer` are the `drain()` on the stack: an aborted
  waiter met by the drain is rejected and drain entered again, for a reader inside
  the loop that was granting it. One flag stands for any depth of that nesting: an
  inner loop ends where `HeadWants("read")` is false, and so do then those around it.
* **WriteBehind.** Events are their positions. `active` has the states *resolved*
  and *rejected* between the settling of a write and the `finally` that clears it;
  `barrier` tells where `drainBarrier` stands; `target` is history (what a flush
  must cover).
* **CrashRecovery.** `log` is the memory of the live process and is lost by `Die`.
  `stored` are the complete events of the file, `tail` those a decoder recovers
  from a torn last frame, `torn` that the file needs a truncation. `encoding`
  chooses zstd (an append is cut as a whole frame, its complete records are
  decodable) or raw (complete lines are simply in the file). The loop part is as
  much of the driver and the scheduler as matters for what is appended when, with
  the three waits of the checkpoint policy; `unsaved` is what `commitRepair` still
  has to append. `ran`, `shown`, `seen` are history: bodies that began, the log
  of the last request, the most a preparation read.
* **SessionCoordinator.** Every write changes a revision: it is the number of events
  ever written, `stored`, and a reading is the revision it found. `entry` is the
  preparation in the table; `joined` remembers the reading of a caller whose entry
  was removed meanwhile, since its promise is still delivered. `state` is the id's
  bookkeeping (the cursor and whether a Session owns it), `retirement` where
  `retireWithRetry` stands. A resumption is made with a fence (role *fenced*) or
  without (*prepare*): `proof` is the lease a call carries, `fence` the one its
  Session keeps for life. `External` is another process and writes at any time but
  while this one holds the lease, which every writer of a leased log takes;
  `TakeOver` is the lease passing to another process, at any time but inside a
  mutation that runs under `runExclusive` (`mutation.ts`), and then `Fenced` refuses
  every append and write. Comparing the revision and repairing the log are two
  steps (`StartRepair`, `Repair`), so an unfenced repair may be made to a log that
  has moved on. `Store` is what every append does first: it invalidates a ready
  reading and is refused under a reservation; its events go where the log ends, also
  when that is no longer the Session's cursor. `overtaken` and `missing` are history:
  that another process wrote since the last commit that checked the log, and how
  many events stored at a call its answer lacked.
* **JobRegistry.** A record's `status` follows the code's, with *removed* for a
  pruned one; `wait` has *expired* and *settled* between the timer or the end of
  the job and the continuation that reads the record. `Settle` is `settle()` with
  the count of waiters it looks at; `Swept` is `pruneTerminal` (age and cap), which
  every `start` and `list` runs first. `orphaned` is work whose cancel threw and
  that a teardown settled by force. `known` and `mourned` are history.
* **RetryPolicy.** `phase` is the place in the request loop; a failure carries the
  policy of the route that served it and whether that policy takes it. `Delegates`
  is the choice between `next()` and the plugin's own decision; `record` is the
  number of the last `llm/retry` record of a policy in this step.
* **Approval.** Questions are numbered, `thinking` are those whose answerers still
  work, also when nobody waits any more; `Awaits` is the race of the answer and
  the signal, the first of which wins.
* **TurnServices.** The turn's steps and calls with as much of the loop as decides
  what the services are used for. `Abort` fires one signal at the retry's wait, the
  questions and the job waits; `CallTimesOut` is the signal of one call. During
  the teardown of the registry no call of its methods arrives: the framework takes
  the service away from its users in the same round of microtasks
  (`vendor/cordis/src/fiber.ts:675-682`).
* **SubagentMailbox.** `log` is the child's session reduced to deliveries (accepted,
  claimed), splices of the inbox (inserted, removed, cleared) and entries
  (`user/message`); `stored` is the length a crash cannot cut. `lock` is the
  critical section of the child, `caller` where each `followup()` stands in it.
  `Replay` is the inbox's constructor, `Pending` what `pendingSubagentDeliveries`
  computes, `Materialize` the cold resumption that enqueues it. The driver is
  `AgentDriver` reduced to what a queued prompt sees of it. `raced` is history: the
  messages that were published again between their claim and their entry.

## 3. Runs

| Run | Instance | Asks |
|---|---|---|
| `driver` | 3 messages, each with its ways in, capacity 2, 1 tool-driven step, 4 turns, calls nested 2 deep | does the driver end what it begins, serve what it accepted and stop when told to? |
| `locks` | 3 dispatches (two share a step's signal), 2 keys | exclusion, exact accounting, no lost waiter, FIFO, every waiter served |
| `tools` | 3 calls in every classification, pool of 2, room for 1 context | order, pairing, barriers, quiet failure and abort, termination |
| `write_behind` | 2 flushers, 4 events, seed of 0 or 1 | nothing lost, everything becomes durable, flushes settle, implements `DurableLog` |
| `recovery` | 9 events, 2 calls, 2 faults, both encodings | log rules, transcript, durable side effects, nothing shown is taken back, recovery ends |
| `coordinator` | a fenced resumption, an unfenced one or a load, an inspection; 3 events, 1 mishap | what checks and fences promise about the log, one Session per log, current views, every call returns, implements `SessionOwner` |
| `services` | 2 jobs of the agent and one of nobody, 1 call that asks and 1 that uses jobs, 2 policies, 2 steps | no end of a job lost, limits kept, own answers only, teardown complete |
| `mailbox` | 3 calls under 2 keys, 2 faults | receipts, order, no repetition, quiet settlement, every call answered |
| four `violation` runs | see section 5 | statements of the repository the code does not keep |

Properties, per run, in the order of the configuration files:

* `driver`: `ClosesWhatItOpens`, `InboxAccounted`, `StrandsNoWake`,
  `AbortEndsDriver`, `PromptOpensTurn`, `QueuedWorkServed`, `DisposalCompletes`.
* `locks`: `MutualExclusion`, `TableMatchesLeases`, `NoLostWaiter`,
  `NoOvertaking`, `WaitersServed`.
* `tools`: `ResultsPaired`, `ExclusiveIsBarrier`, `NoBodyOutlivesItsResult`,
  `NothingStartsLate`, `ExecutionEnds`.
* `write_behind`: `NothingLost`, `BecomesDurable`, `FlushSettles`,
  `ImplementsDurableLog`.
* `recovery`: `LogsRepaired`, `RunsAreRecorded`, `ShownIsKept`, `Recovers`.
* `coordinator`: `ContinuesItsLog`, `OneSession`, `ViewsAreCurrent`,
  `ImplementsSessionOwner`, `CallsReturn`.
* `services`: `CompletionKnown`, `ProducersBounded`, `RetriesBounded`,
  `GrantIsFresh`, `TeardownReachesAll`.
* `mailbox`: `ReceiptKept`, `InAcceptanceOrder`, `CrashNeverRepeats`,
  `SettlesQuiet`, `CallAnswered`.

Every module has one type invariant. Those of the driver, the locks, the
scheduler, the write-behind, the recovery and the coordinator are proved; those of
the services and the mailbox are proved as far as the proofs need them
(`JobShapes`, `TurnShapes`, `LogStands`, `CallersStand`), and the rest of them was
checked on the instances of the runs.

Each property's comment in its module says what it means for the code, and each
has a mutant: a plausible wrong version of one mapped definition (an operator
marked `mutant:` in the module) under which TLC finds the property violated.

### Bounds, and why they are enough

* **driver.** Three messages, one injected, one prompt and one that is a prompt or
  steers, fill both lists, are claimed together or split by a cancel, and leave one
  for a listener to send while another is being discarded. Capacity 2 lets the inbox
  refuse. Calls nested two deep are a send or a cancel from a listener of a send, of a
  discard or of a start; a third level repeats what the second does to the state. A
  turn is served per wake, so 4 turns leave room for the first turn, its follow-up, a
  restart after an abort and one more; `MaxSteps = 1` lets a step be followed by one
  that tools asked for. `MaxTurns` guards only the opening of a turn, `MaxSteps` only
  a tool's claim to another step and `MaxCalls` only the entry of a call, so
  everything else stays enabled at the bound. Deadlock checking stays on.
* **locks.** Deadlock and overtaking need two keys and two dispatches; the third
  dispatch is needed for a queue with a reader behind a writer and for an abort
  that leaves a waiter behind. One dispatch claims anything; the claims of the
  other two are those that cross two keys and nest the drains of readers. Calls
  repeat for ever, so no counter is bounded.
* **tools.** Three calls give every pattern of exclusive and parallel with a
  group before, at and after; a pool of 2 both fills and blocks; the signal may be
  aborted from the start. The execution ends, hence `CHECK_DEADLOCK FALSE`.
* **write_behind.** Four events fill a batch, the queue behind it, a second batch
  and one more; two flushers give one barrier and one that joins it.
* **recovery.** Nine events hold a full turn with two calls, or a repaired turn
  with one call followed by a request of the next turn. Two faults give a crash in
  the repair of a crash, with the final repair undisturbed. The log and the calls
  are bounded by guards of the loop, so a full log stops: `CHECK_DEADLOCK FALSE`.
* **coordinator.** Three events are one that was there, one that another process or
  the live Session adds, and one more: enough for a fork, that is a Session whose
  cursor is not where the log ends and which writes there. Repairs are not bounded by
  the events. One mishap makes a call, a reading or a first retirement fail, or evicts
  a reading; what follows from a lost fence or a fork (rejections, a failed retirement
  and its failed retry) counts as none. A fenced resumption and an unfenced one or a
  load compete for the one reservation while an inspection shares their reading; a
  fourth call would wait where one of the three waits. Each call is made once, hence
  `CHECK_DEADLOCK FALSE`, as in the next two.
* **services.** A limit of one active job with two jobs of one owner makes the
  second wait for the first to *stop*, not only to be told to; a cap of one
  terminal record makes a sweep choose; the third job is nobody's and survives its
  agent. One retry per policy reaches the budget and exceeds it by the mutant. Two
  questions give a late answer to the first beside the second. One call asks; that two
  never run under one answer is left to the theorem `GrantsAreOwn`. Two steps let
  records of one step meet the next.
* **mailbox.** Two calls under one key are a call and its retry, the third is the
  other message, so that order, repetition and replay of older deliveries all
  occur; two faults give a crash during the recovery from another mishap.

## 4. Fairness

* `AgentDriver`: awaited work settles (weak fairness of the driver's steps: the
  event loop resumes it, providers end their streams, tools and hooks return).
  Strong fairness of `RequestErrorThrown`: listeners of `agent/request-error` do
  not ask for retries for ever (the retry plugin has a budget). Strong fairness of
  `Release`: `whenIdle()` queues on the activity's promise and cannot be overtaken
  for ever. Weak fairness of `Resume`: listeners are synchronous and return, so the
  innermost of the nested calls goes on. Callers owe nothing: no fairness on sends, cancels or disposals.
* `ResourceLock`: weak fairness of the synchronous drain; strong fairness of each
  dispatch, since its continuation is in the event loop's queue once enabled, and
  of its tool body's return.
* `ToolScheduler`: weak fairness of the scheduler and of the bodies ("the registry
  never abandons a started body").
* `WriteBehind`: microtasks, timers, and a backend that settles each write one way
  or the other. No write is assumed to succeed.
* `SessionCoordinator`: backend operations settle, setups end, an armed retry fires
  (weak fairness of the steps of each call, of readings and of the write path).
  Nobody has to call, write, dispose or cancel.
* `SubagentMailbox`: some call goes on as long as one can (weak fairness of the
  calls' steps together), and so does the child: the driver's awaits settle,
  scheduled acknowledgements are written and a disposal ends (weak fairness of
  these together). Admission of an Activation to its parent's capacity settles, one way
  or the other. Calls, settlements, maintenance, interrupts, drains and crashes need not
  happen.
* `TurnServices` states none: its properties are safety properties. That a teardown
  ends follows only if producers that were told to stop do, which the code cannot
  promise; `TeardownReachesAll` says that no record runs on in a teardown and that
  what still works was told to stop.
* `CrashRecovery`: weak fairness of the prepare loop only (somebody asks for the
  session again). Crashes and failed repairs are bounded by `MaxFaults`, which is
  the usual "eventually no crash" assumption.

## 5. Where code and documentation disagree

Each has a run that expects the violation; `PROJECT.json` has the quotations.

1. `driver_lost_wake` (`LiveDriverClaims`): between the driver's last look at the
   inbox (`agent.ts:438`) and the end of `kick()` a wake finds a running driver,
   is not latched, and its message stays in an idle agent's inbox.
2. `tools_duplicate` (`OneResultPerCall`): a result whose context the inbox refuses
   is already in the log when the failure path completes the call a second time.
3. `recovery_tail_work` (`TailWorkKept`): `commitRepair` truncates before it
   re-appends what it recovered; a crash or a failed append in between drops
   complete events that an inspection has returned. `RunsAreRecorded` and
   `ShownIsKept` hold all the same: nothing a flush acknowledged is affected.
4. `mailbox_refused` (`ReplaysOlderDeliveries`): a child resumed after a crash finds
   an unclaimed delivery in its rebuilt inbox, the replay of the same delivery is
   refused as already pending, and the new delivery fails. The rollback clears the
   inbox, so a second attempt works.

Observations without a run:

* `cancel()` inside `dispose()` appends before it aborts and can throw; the
  `finally` (`core/agent-loop/src/index.ts`) then detaches an agent whose driver
  runs on, which `core/agent-loop/README.md:76` does not allow for.
* A clearing `cancel()` drops the latch after its own discards were announced
  (`agent.ts:195-196`). A listener of `agent/inbox/discarded` that sends a waking
  message during maintenance, or while a second cancel clears the inbox of an
  aborted driver, latches its wake just before that; the message stays in the inbox
  of an idle agent until the next wake, against `runtime-types.ts:108-109` ("runs when
  the aborted activity converges to idle"). Such messages end as `parked` in the model:
  `StrandsNoWake` and `QueuedWorkServed` say what holds of all the others.
* A cancel or a disposal that keeps messages queued and arrives while an empty step is
  decided, or in the callbacks between a completed turn's last look at the signal and
  its `turn/end`, ends the turn as completed (`agent.ts:376-383`), and what is queued is
  served in another turn under a fresh signal. `AbortEndsDriver` is about every other
  abort; `TurnIsOver` names these points.
* A Session resumed without a fence can be overtaken: `commitPrepared` checks the
  revision, and what another process writes afterwards is neither seen nor excluded, so
  that the Session appends to a log that no longer ends where its history does (the
  package's README says as much at line 61). `ContinuesItsLog` is about the other cases.
* `grant()` excludes its aborted branch from coverage as unreachable
  (`resource-lock.ts:127`); the first abort listener of a step drains while other
  waiters of the step, aborted too, are still queued. The branch does the right
  thing and is why `drain()` nests.
* `llm/llm-retry/README.md:5` says that every retry opens a fresh numbered turn; the
  loop retries inside the same open step (`agent.ts:453-521`).
* `jobs/jobs-local/src/index.ts:108-114` says that an owner keeps at most
  `maxTerminalRecords`; records that still need a notice are never pruned.
* A retry under the same key, published while the first copy is claimed and not yet
  in the log (`continuation.ts:1531-1535`), is delivered a second time:
  `CrashNeverRepeats` excludes exactly this (`raced`).
* `docs/agent-lifecycle.md` draws `step/end` before `agent/request-error`, while the
  code keeps the step open during that waterfall (`agent.ts:491-507`); the
  agent-loop README says that skipped calls are recorded without fabricated
  results, while `tool-calls.ts` writes synthetic ones.

## 6. What is proved

### The agent driver

`AgentDriverProofs` proves, for every set of messages and every value of the
bounds, with no assumption beyond `DriverAssumption`:

    DriverInv ==
      TypeOK /\ SnapshotReleased /\ LogTracksDriver /\ LogWellFormed
      /\ QueueMatchesFate /\ ProposedClaimed /\ LatchHeld /\ DrainedLeavesNone
      /\ PromptTargetFirst /\ CancelKept /\ AbortStands

    THEOREM DriverInvariant == Spec => []DriverInv

and from it `TypeCorrect`, `LogAlwaysWellFormed`, `NothingLeftOpen`,
`SnapshotNeverLeaks`, `LatchReplayed`, `DrainedStrandsNone`, from these and the
invariant all that the run checks as invariants, `ClosesWhatItOpens` (`PathsClose`),
`InboxAccounted` (`InboxConsistent`), `StrandsNoWake` (`WakesKept`) and
`AbortEndsDriver` (`AbortsAreFinal`), and the action property `PromptOpensItsTurn`.
The bound on nested calls is a constant, so all of this holds for listeners that call
back to any depth.

Why the checked properties are not inductive by themselves, and what each
strengthening adds:

* `LogTracksDriver` ties the log to the control point: which turn and step the
  fold has open, and which numbers it expects next, at every `pc`. Without it
  nothing says that the next append obeys its rule. It weakens to nothing once the
  session is fenced, as the code can then leave a turn open.
* `ProposedClaimed` says that the messages offered to a step were claimed and are
  in no list, so that dropping or entering them cannot touch a queued one.
* `LatchHeld` says that a latched message exists only while the latch is set, or while
  `kick()` has read a set latch and its replay is ahead; `DrainedLeavesNone` is the same for messages a
  running driver has accepted, at the points between its last look at the inbox
  and its exit.
* `PromptTargetFirst` ties the list a boundary claims from to the step counter.
* `CancelKept` follows what a cancel found pending between its two splices: it is still
  to be discarded by a cancel on the stack, or a driver that a listener started has
  claimed it, and then that cancel's abort is ahead or done. It is why no such message
  enters a step (`CancelledNeverEnters`).
* `AbortStands` says where a driver that was aborted in time can be: never at an empty
  decision or at the end of a completed turn, from where the loop would go on.

The proof is organised by frame lemmas. `NextCases` says that every step is one of
the driver's actions or of a few groups (`QuietCaller`, `QuietTurn`,
`SettlesClaim`, `Step`) that leave most of the state alone; `QuietCallerFrame`,
`QuietTurnFrame`, `SettlesClaimFrame` and `StepFrame` state what each group
leaves. Each conjunct then has a step lemma (`TypeStep`, `SnapshotStep`, `LogStep`,
`QueueStep`, `LatchStep`, `DrainedStep`, `PromptStep`, `CancelKeptStep`,
`AbortStandsStep`) with one case per action that matters to it. `FramesEnter`,
`FramesReturn` and `FramesKick` say what entering, leaving and replacing the innermost
call does to the stack. `TraceTypes`/`TraceSteps` say what an append that obeys its
rule does to the fold; `InsertElements`, `RemoveElements`, `ClearElements` and
`ClaimElements` what an edit does to the lists, from facts about `ToSet`,
`IsInjective`, `Append`, `Tail` and `RemoveAt` proved at the head of the module.
Every conjunct was first checked by TLC as an invariant.

### The resource locks

`ResourceLockProofs` proves, for every finite set of dispatches, every set of keys
and every sharing of signals (`LockAssumption`), that `LockInv` is invariant, and
from it all invariants and the action property the `locks` run checks:
`LocksExclude`, `WaitersSeen`, `TableIsExact` (from `LeasesBalance` and
`TableExact`), `ArrivalOrder`, and types (`LocksTyped`).

    LockInv ==
      TypeOK /\ CallsHold /\ QueuesWait /\ DrainSafe
      /\ \A k \in Keys : LeasesCounted(k) /\ Served(k) /\ Tabled(k)

The parts depend on each other, which is why they are proved together:

* Exclusion rests on `DrainSafe`: when a drain nested in a reader loop runs, the
  lock has readers. Otherwise it could admit a writer, and the loop around it,
  which does not look at `writer`, would go on to admit readers.
* `DrainSafe` rests on `Served` (no waiter is left behind): an aborted waiter that
  a drain meets was queued before the abort, so the lock was taken, and while the
  abort calls its listeners no finally block releases it.
* `LeasesCounted` (the counters are the cardinalities of the sets of holders) rests
  on `QueuesWait` (a queue lists, once, dispatches that wait for that key and do
  not hold it) and on `CallsHold`.

`NextKinds` regroups the steps by what they change; `StandingLockKept` and
`OtherLocksStand` dispose of the locks a step does not touch. The proof also
reaches what the instance of the run is too small for: with four dispatches an
aborted reader is rejected inside a loop that is itself nested.

### The tool scheduler

`ToolSchedulerProofs`, for any number of calls, pool and inbox room:

    SchedulerInv ==
      TypeOK /\ GroupStands /\ PoolStands /\ LooksFirst /\ TraceStands /\ ResultsStand
      /\ InModelOrder /\ PairedAtEnd /\ ExclusiveIsBarrier /\ NoBodyOutlivesItsResult

All four safety properties of the `tools` run follow (`CallsAreAnswered`,
`ExclusiveCallsAreBarriers`, `BodiesAreAwaited`, `StartsAreInTime`). `GroupStands`
places the group between the commit cursor and its last call; `PoolStands` says
that a call started and not committed is in the pool, has a slot, is in
preparation or was lost to a failure, so a pool that stops empty has committed
everything; `LooksFirst` that the signal is not raised between the last look at it
and the start of a call; `ResultsStand` that only the call whose commit failed can
have a result beyond the cursor, which is what the failure path completes from.
`OneMore` and `Skipping` say what the two ways of appending results do to their
order.

### The write-behind

`WriteBehindProofs`, for any flushers and number of events:
`WriteBehindInv == TypeOK /\ NothingLost /\ OneWrite /\ TargetsPast`, hence
`LosesNothing`, and `ImplementsTheLog`: every step of the controller is a step of
`DurableLog` or leaves its variables alone. `OneWrite` is the argument: whoever
may start a write finds none in progress (the timer, the continuation and the
resumed barrier each have another reason), so no batch overwrites another. That a
flush which succeeds covers its target rests on `AllStored`: a barrier passes only
when the queue and the batch are empty, and then `NothingLost` leaves everything
in the store.

### Crash recovery

`CrashRecoveryProofs`, for any calls, any number of calls in a message and any
bounds on turns and crashes:

    IInv ==
      TypeOK /\ PhaseInv /\ LiveLog /\ FileLog /\ RepairLog /\ ShownLog /\ CallLog /\ RanLog

with `TypesHold`, `RepairsHold`, `RunsStayRecorded` and `ShownStays`, which are all
the safety properties of the `recovery` run.

The code reads a log three times: the cursor of the repair (open turn, open step,
calls waiting for an answer), the companion check of calls and results, and the
check of what a provider accepts as a transcript. `Sound` says what the three
readings of a log have to agree on. The lemmas `AppendTurnStart` ... `AppendResult`
show that each event the loop may append keeps it; `ClosersSound` that whatever
sound log the repair meets, its closers answer exactly the calls that wait, close
the step and the turn, and leave a log which is sound with nothing open.

A crash may cut anywhere: through the log, an append or an earlier repair. So the
invariant is about every prefix of the log (`AllSound` in `LiveLog`), of the file with
its torn tail (`FileLog`) and of the file with an unsaved repair (`RepairLog`); a cut
then leaves a prefix of something of which every prefix is sound, and a second crash
during the repair is no different from the first.

`RunsStayRecorded` follows from `CallLog` and `RanLog`: a body starts only behind a
flush of a log that has its `tool/call`, and a repair reports as not started only
calls without one. `ShownStays` follows from `ShownLog`: requests and bodies start
behind a flush, so that what they were given is a prefix of the stored events.

Folds are iterations over sets of indices in the community modules, and the
library's induction theorems cannot be instantiated here. The module therefore
proves an induction of its own: a set of numbers has a least element
(`LeastNumber`, from the well-foundedness of `<`), hence an iteration over each
beginning of a sequence exists, two that agree on the beginning agree on the value,
and the value on `Append(l, e)` is one step from the value on `l` (`CursorStep`,
`TraceStep`, `TranscriptStep`).

### The session coordinator

`SessionCoordinatorProofs`, for any callers, roles and bounds:

    CoordinatorInv == TypeOK /\ OwnerStands /\ CallsStand

    CallsStand == HolderStands /\ ReservationStands /\ FencesStand /\ WantsStand /\ ViewsAreCurrent

with `ResumesWholeLog`, `OneSessionPerLog`, `ViewsShowWhatWasStored`, and the
refinement `ImplementsTheOwner`. Two things keep a log from moving: the one exclusive
holder of the entry (`HolderStands`) keeps this process out, since an append is refused
under it, and a held lease keeps other processes out. Without a lease nothing does, and
then only what no other process has overtaken is promised (`Sound`). So the reading a
reservation was committed with is still the log at its publication if the lease is held
or nobody wrote (`ReservationStands`), and from then on the cursor is where the log ends,
under the same condition (`OwnerStands`). `FencesStand` keeps the lease with its call.

`ImplementsTheOwner` maps the coordinator to `SessionOwner`: the owner is the
Session with the phase of its retirement, its tail what it has not stored. Calls and
readings are stutters (`CallRefines`) but for a commit, which checks the log (`Check`), a
repair, which writes to a log nobody owns (`Repair`), and the publication (`Open`); the
steps of the live Session map one to one (`LiveRefines`), as do those of other processes
(`OutsideRefines`), and the release of a Session that has unstored events is possible
after a failed closing only. `SessionOwner` itself leaves another process free to write
unless the owner's fence is held, so the refinement claims no exclusion that an optional
fence does not give.

### The services of a turn

`TurnServicesProofs`, for any finite set of jobs, any calls, questions and limits:
`TurnInv == JobInv /\ CallInv`, hence `EndsAreKnown`, `WorkIsBounded`,
`TeardownIsComplete`, `GrantsAreOwn`. `WorkStands` ties work to a live record, so
that counting records bounds the work; `RecordsStand` says why each reported
record may be silent (someone has its end, is about to read it, or a teardown took
it over beforehand); `QuestionsStand` that numbers of questions are never used
twice, so that an answer can only reach the call that asked it.

`BudgetsHold`, for any policies and budgets, has an inductive invariant of its own,
`RetryInv`: while a step is open its requests are the records of retries, the
requests another policy decided and the first one, and no normal policy has more
records than its budget allows, also when the failure being decided on came from
another route than the one before it.

### The subagent mailbox

`SubagentMailboxProofs`, for any callers, messages, keys and mishaps, in two parts.

`ReceiptInv == LogStands /\ CallersStand`, hence `ReceiptsAreKept`. A receipt is
given by a barrier that covers its acceptance (`CallersStand`), and an
acknowledgement follows the entry it stands for in the log (`LogStands`), so that a
crash that keeps the one keeps the other, and whatever prefix is kept either has
the entry or still owes the message. The proof follows how logs change: `Grows`
for appends, `Cut` for crashes and failed final flushes. It needs nothing of what
`Replay` rebuilds.

`MailboxInv == ReceiptInv /\ DeliveryInv`, hence `DeliveredInOrder`, `NothingRepeats`
and the action property `SettlementIsQuiet`:

* `EventsStand` orders the events of the log: accepted once, then enqueued, taken,
  entered and acknowledged; and nothing is entered before what was enqueued at its
  acceptance has been taken.
* That order is kept only if the inbox is in order when a turn claims its head:
  `ListStands` says that the list which the splices leave has every message once,
  each behind all it must not overtake (`Awaits`), and one that is in the transcript
  already only if its key was published again meanwhile.
* The next Activation's inbox is rebuilt from whatever beginning of the log is left,
  so `AllStand` asks it of every beginning. This is what makes the invariant hold
  through crashes and failed final flushes (`GoodCut`).
* `HandOn` carries the obligation from the claim to the entry, across the steps of
  callers in between; `Complete` says that a resident child's inbox has all that was
  enqueued and not taken, and that what is owed of it is accounted in `accepted`. The
  second half is why the settlement watcher may trust `accepted` alone.
* A replay enqueues `Pending` one message at a time (`EnqueueStep`, `EnqueueAll`). It
  stays in order because `Pending` lists what is owed in acceptance order (`PendingIs`),
  and because whatever a pending message must not overtake is pending itself
  (`OwedBefore`, `AcceptedEarlier`).

`Replay` and `Pending` are a fold and a choice by rank; their lemmas (`ReplayStep`,
`NthIs`) rest on the same well-founded argument as those of `CrashRecoveryProofs`.

Every conjunct of every inductive invariant was first checked by TLC as an
invariant of the corresponding instance.

## 7. What is only model-checked

All safety invariants and action properties of the passing runs, and the refinements
of `DurableLog` and `SessionOwner`, are theorems. What is left to TLC:

* all liveness (`QueuedWorkServed`, `DisposalCompletes`, `WaitersServed`,
  `ExecutionEnds`, `BecomesDurable`, `FlushSettles`, `Recovers`, `CallsReturn`,
  `CallAnswered`): it needs `ENABLED`, which the prover does not handle;
* the counterexamples of section 5, which are behaviours of an instance.

## 8. Abstractions

* Contents of messages, prompts, requests, chunks and tool arguments are left out;
  hooks and providers are nondeterministic choices among the outcomes the code
  distinguishes.
* Events that move no cursor of the log rules (inbox splices, headers, contexts,
  the `session/end-seed` marker of a resumed log) are not logged in the driver, the
  scheduler and the recovery, except that the inbox's splices fail where an append
  would. `SubagentMailbox` logs the splices, since the inbox is rebuilt from them.
* `CrashRecovery` lets tool calls of a step overlap in any way; the pool and its
  barriers are in `ToolScheduler`. It has one process per file; several readers and
  another process are in `SessionCoordinator`, which counts events instead of
  naming them. A rollback that itself fails (a double I/O fault) is not modelled.
* `SessionCoordinator` leaves the order of the id's chain open: every order the
  FIFO chain produces is among its behaviours. The cache shared by several ids
  appears as evictions. A fence has `runExclusive`, as the activation lease of
  subagents does; one that only asserts could lose its lease inside a mutation. All
  writers of a leased log are taken to use the lease, although `load()` passes none
  when it repairs (`coordinator.ts:497`). What a forked log reads as is the backend's
  affair and no property is about it.
* Timers are awaits of any length: retry delays, wait timeouts, batching and
  retirement delays may end at any moment, which includes every real order.
* A job's notice that is sent arrives; a failing delivery of it is not modelled. A disposal
  that is refused because the inbox cannot be spliced detaches the agent
  (`DisposeRefused`), and `DisposalCompletes` is about the others.
* The child of `SubagentMailbox` owns no children, its parent is a top-level agent,
  and the deployment has no lease store.
* The inbox's `edit` and `move` and its byte limit are not modelled; the message
  limit is.

## 9. Plan

What would add most next, in this order:

1. An abstract specification of the mailbox (a queue of accepted messages, each
   delivered once and in order) with `SubagentMailbox` as its implementation.
2. The bytes of a JSONL file with an append whose rollback fails, for the one
   uncovered hazard.
3. The inbox's edit and move; create, resume, ensure-live and fork of the lifecycle
   owner against dispose.
4. Compaction against a step in preparation, and goals and schedules as clients of
   the driver.
