--------------------------- MODULE SubagentMailbox ---------------------------
(***************************************************************************)
(* One continuable child (packages/subagent/subagent/src/continuation.ts):  *)
(* callers deliver messages through followup(), which keeps the child's     *)
(* session as a durable mailbox (delivery.ts), publishes accepted messages  *)
(* in the child's inbox (packages/core/agent/src/inbox.ts) and resumes the  *)
(* child when it is not resident.  At most one Activation holds the child   *)
(* at a time; it is disposed when the child falls quiet, when the manager   *)
(* drains, and when a resumption has to be rolled back.  The harness may    *)
(* crash at any moment and keeps a prefix of the session's log.             *)
(*                                                                         *)
(* The child's driver is AgentDriver reduced to what a queued prompt sees;  *)
(* the parent is a top-level agent, and the deployment has no lease store.  *)
(***************************************************************************)
EXTENDS Naturals, Sequences, FiniteSets, SequencesExt

CONSTANTS
  Callers,    \* followup() calls
  Messages,   \* messages, one for each idempotency key
  Key(_),     \* the key a call presents: calls with one key are retries
  Nobody,     \* no caller
  Nothing,    \* no message
  MaxFaults   \* bound: crashes, failed calls of the store, withdrawn calls, interrupts

ASSUME MailboxAssumption ==
  /\ MaxFaults \in Nat
  /\ \A c \in Callers : Key(c) \in Messages
  /\ Nobody \notin Callers /\ Nothing \notin Messages

VARIABLES
  log,         \* the child's session events that concern delivery
  stored,      \* how many of them are known to be durable
  inbox,       \* the next-turn list of the resident child
  activation,  \* "none", "resident" or "closing" (its disposal has begun)
  accepted,    \* activation.accepted: waking messages not seen to leave the inbox
  driver,      \* "none", "idle", "maintenance", "boundary", "preStep", "turn", "leaving"
  claimed,     \* the message the turn in preparation claimed
  aborted,     \* the signal of the driver's activity
  latch,       \* phase.wakeRequested
  acks,        \* messages whose acknowledgement is scheduled
  caller,      \* where each followup() stands
  lock,        \* the caller inside the child's critical section
  fresh,       \* that caller materialized the Activation it submits to
  flushTo,     \* length of the log its durability barrier waits for
  draining,    \* the manager drains
  faults,      \* mishaps so far
  raced        \* history: published again between its claim and its user/message

sessionVars == <<log, stored>>
driverVars == <<driver, claimed, aborted, latch>>
residencyVars == <<inbox, activation, accepted, driverVars>>
callVars == <<caller, lock, fresh, flushTo>>
vars == <<sessionVars, residencyVars, acks, callVars, draining, faults, raced>>

-----------------------------------------------------------------------------
(* What the log says. *)

Kinds == {"accepted", "claimed",                \* subagent/delivery-*
          "inserted", "removed", "cleared",     \* agent/inbox/spliced
          "entered"}                            \* user/message

Logged(l, kind, m) == <<kind, m>> \in ToSet(l)

\* One splice of the log, as Inbox applies it to the list.
Splice(list, event) ==
  CASE event[1] = "inserted" -> Append(list, event[2])
    [] event[1] = "removed"  -> Tail(list)
    [] event[1] = "cleared"  -> <<>>
    [] OTHER                 -> list

\* Inbox's constructor: the list the splices of a log leave.
Replay(l) == FoldLeft(Splice, <<>>, l)

\* mutant: only the explicit acknowledgement counts
OwedUnacknowledged(l, m) == Logged(l, "accepted", m) /\ ~Logged(l, "claimed", m)

\* Accepted, neither acknowledged nor in the transcript.
Owed(l, m) == Logged(l, "accepted", m) /\ ~Logged(l, "claimed", m) /\ ~Logged(l, "entered", m)

OwedAt(l) == {i \in DOMAIN l : l[i][1] = "accepted" /\ Owed(l, l[i][2])}
Nth(S, k) == CHOOSE i \in S : Cardinality({j \in S : j <= i}) = k

\* mutant: newest first
PendingReversed(l) ==
  LET n == Cardinality(OwedAt(l))
  IN [k \in 1..n |-> l[Nth(OwedAt(l), n + 1 - k)][2]]

\* pendingSubagentDeliveries: what is owed, in acceptance order.
Pending(l) == [k \in 1..Cardinality(OwedAt(l)) |-> l[Nth(OwedAt(l), k)][2]]

\* subagentDeliveryNeedsClaim
NeedsClaim(l, m) == Logged(l, "accepted", m) /\ ~Logged(l, "claimed", m)

Events(kind, ms) == [i \in 1..Len(ms) |-> <<kind, ms[i]>>]

\* Inbox.clear: nothing is recorded for an empty list.
Clear(l, list) == IF list = <<>> THEN l ELSE Append(l, <<"cleared", Nothing>>)

-----------------------------------------------------------------------------
Init ==
  /\ log = <<>> /\ stored = 0 /\ inbox = <<>>
  /\ activation = "none" /\ accepted = {}
  /\ driver = "none" /\ claimed = Nothing /\ aborted = FALSE /\ latch = FALSE
  /\ acks = {}
  /\ caller = [c \in Callers |-> "idle"] /\ lock = Nobody /\ fresh = FALSE /\ flushTo = 0
  /\ draining = FALSE /\ faults = 0 /\ raced = {}

Running == driver \in {"boundary", "preStep", "turn", "leaving"}

\* mutant: the send is not accounted against the settlement window
PublishUncounted(m) ==
  /\ log' = Append(log, <<"inserted", m>>)
  /\ inbox' = Append(inbox, m)
  /\ driver' = IF driver = "idle" THEN "boundary" ELSE driver
  /\ latch' = (latch \/ driver = "maintenance" \/ (Running /\ aborted))
  /\ aborted' = (aborted /\ driver # "idle")
  /\ raced' = IF claimed = m THEN raced \cup {m} ELSE raced
  /\ UNCHANGED accepted

\* Agent.followup: the message joins the inbox and wakes the driver, or latches
\* the wake behind maintenance or an aborted activity.
Publish(m) ==
  /\ log' = Append(log, <<"inserted", m>>)
  /\ inbox' = Append(inbox, m)
  /\ accepted' = accepted \cup {m}
  /\ driver' = IF driver = "idle" THEN "boundary" ELSE driver
  /\ latch' = (latch \/ driver = "maintenance" \/ (Running /\ aborted))
  /\ aborted' = (aborted /\ driver # "idle")
  /\ raced' = IF claimed = m THEN raced \cup {m} ELSE raced

\* dispose(): the cutoff, then Agent.cancel, which empties the inbox.
Close(l, list) ==
  /\ activation' = "closing"
  /\ log' = Clear(l, list) /\ inbox' = <<>> /\ accepted' = {}
  /\ latch' = FALSE

\* mutant: a critical section that fails is not left
ReleaseOnSuccess(c, answer) ==
  /\ caller' = [caller EXCEPT ![c] = answer]
  /\ lock' = IF answer = "failed" THEN lock ELSE Nobody
  /\ fresh' = FALSE /\ flushTo' = 0

Release(c, answer) ==
  /\ caller' = [caller EXCEPT ![c] = answer]
  /\ lock' = Nobody /\ fresh' = FALSE /\ flushTo' = 0

\* What a call comes to; one that died with its caller has failed.
Answered == {"receipt", "failed"}

\* What may go wrong at will is counted.
Mishap == faults < MaxFaults /\ faults' = faults + 1

-----------------------------------------------------------------------------
(* followup() *)

Call(c) ==
  /\ caller[c] = "idle" /\ ~draining
  /\ caller' = [caller EXCEPT ![c] = "waiting"]
  /\ UNCHANGED <<sessionVars, residencyVars, acks, lock, fresh, flushTo, draining, faults, raced>>

\* Draining, or the caller's own signal, refuses a call before acceptance.
Refuse(c) ==
  /\ caller[c] = "waiting" /\ lock = Nobody
  /\ IF draining THEN UNCHANGED faults ELSE Mishap
  /\ caller' = [caller EXCEPT ![c] = "failed"]
  /\ UNCHANGED <<sessionVars, residencyVars, acks, lock, fresh, flushTo, draining, raced>>

\* The child's disposal has begun: wait for it inside the critical section.
AwaitClosing(c) ==
  /\ caller[c] = "waiting" /\ lock = Nobody /\ activation = "closing"
  /\ caller' = [caller EXCEPT ![c] = "awaiting"] /\ lock' = c
  /\ UNCHANGED <<sessionVars, residencyVars, acks, fresh, flushTo, draining, faults, raced>>

\* ... then start over.
Closed(c) ==
  /\ caller[c] = "awaiting" /\ activation = "none"
  /\ Release(c, "waiting")
  /\ UNCHANGED <<sessionVars, residencyVars, acks, draining, faults, raced>>

\* The child is absent: coldResume inspects its session and resumes its agent.
ColdResume(c) ==
  /\ caller[c] = "waiting" /\ lock = Nobody /\ activation = "none"
  /\ caller' = [caller EXCEPT ![c] = "resuming"] /\ lock' = c
  /\ UNCHANGED <<sessionVars, residencyVars, acks, fresh, flushTo, draining, faults, raced>>

ResumeFails(c) ==
  /\ caller[c] = "resuming" /\ Mishap
  /\ Release(c, "failed")
  /\ UNCHANGED <<sessionVars, residencyVars, acks, draining, raced>>

\* The resumed agent's inbox is rebuilt from the log; the mailbox's pending
\* messages are then enqueued, unless one of them is in the inbox already,
\* which append() refuses.
Materialize(c) ==
  LET rebuilt  == Replay(log)
      pending  == Pending(log)
      clean    == {i \in 1..Len(pending) : \A j \in 1..i : pending[j] \notin ToSet(rebuilt)}
      clashes  == \E m \in ToSet(pending) : m \in ToSet(rebuilt)
      enqueued == SubSeq(pending, 1, Cardinality(clean))
      all      == rebuilt \o enqueued
      written  == log \o Events("inserted", enqueued)
  IN
  /\ caller[c] = "resuming"
  /\ claimed' = Nothing
  /\ driver' = IF enqueued = <<>> THEN "idle" ELSE "boundary"
  /\ \/ /\ ~draining /\ ~clashes
        /\ activation' = "resident" /\ inbox' = all /\ log' = written
        /\ accepted' = ToSet(pending)
        /\ aborted' = FALSE /\ latch' = FALSE
        /\ caller' = [caller EXCEPT ![c] = "submitting"]
     \/ /\ ~draining /\ clashes
        /\ Close(written, all) /\ aborted' = (enqueued # <<>>)
        /\ caller' = [caller EXCEPT ![c] = "clashing"]
  /\ fresh' = TRUE
  /\ UNCHANGED <<stored, acks, lock, flushTo, draining, faults, raced>>

\* Draining, or the caller's signal, stops a materialization before its replay.
RollBack(c) ==
  /\ caller[c] = "resuming"
  /\ IF draining THEN UNCHANGED faults ELSE Mishap
  /\ Close(log, Replay(log)) /\ driver' = "idle" /\ aborted' = FALSE /\ claimed' = Nothing
  /\ caller' = [caller EXCEPT ![c] = "unwinding"]
  /\ UNCHANGED <<stored, acks, lock, fresh, flushTo, draining, raced>>

\* submit(): record the acceptance, unless the key's is recorded, and wait for
\* the durability barrier.
Accept(c) ==
  /\ \/ caller[c] = "waiting" /\ lock = Nobody /\ fresh' = FALSE
     \/ caller[c] = "submitting" /\ UNCHANGED fresh
  /\ activation = "resident" /\ ~draining
  /\ log' = IF Logged(log, "accepted", Key(c)) THEN log ELSE Append(log, <<"accepted", Key(c)>>)
  /\ flushTo' = Len(log') /\ lock' = c
  /\ caller' = [caller EXCEPT ![c] = "flushing"]
  /\ UNCHANGED <<stored, residencyVars, acks, draining, faults, raced>>

\* A submission that fails disposes the Activation it had materialized.
GiveUp(c) ==
  /\ IF fresh /\ activation = "resident"
       THEN Close(log, inbox) /\ aborted' = (driver # "idle")
       ELSE UNCHANGED <<activation, log, inbox, accepted, latch, aborted>>
  /\ IF fresh THEN /\ caller' = [caller EXCEPT ![c] = "unwinding"]
                   /\ UNCHANGED <<lock, fresh, flushTo>>
              ELSE Release(c, "failed")
  /\ UNCHANGED <<stored, driver, claimed, acks, draining, raced>>

SubmitRefused(c) ==
  /\ caller[c] = "submitting"
  /\ IF draining THEN UNCHANGED faults ELSE Mishap
  /\ GiveUp(c)

\* The barrier fails with a write, or because the session was retired without
\* the events it waits for.
FlushFails(c) ==
  /\ caller[c] = "flushing"
  /\ \/ flushTo > Len(log) /\ UNCHANGED faults
     \/ Mishap
  /\ GiveUp(c)

\* The acceptance is durable: publish the message, unless the Activation is
\* closing or the child has the message already, and give the receipt.
Flushed(c) ==
  /\ caller[c] = "flushing" /\ flushTo <= Len(log)
  /\ stored' = IF flushTo > stored THEN flushTo ELSE stored
  /\ IF /\ activation = "resident"
        /\ Owed(log, Key(c)) /\ Key(c) \notin ToSet(inbox)
       THEN Publish(Key(c)) /\ UNCHANGED <<activation, claimed>>
       ELSE UNCHANGED <<log, residencyVars, raced>>
  /\ Release(c, "receipt")
  /\ UNCHANGED <<acks, draining, faults>>

\* A rolled back call rejects once the Activation is gone.
Unwound(c) ==
  /\ caller[c] \in {"unwinding", "clashing"} /\ activation = "none"
  /\ Release(c, "failed")
  /\ UNCHANGED <<sessionVars, residencyVars, acks, draining, faults, raced>>

-----------------------------------------------------------------------------
(* The child's driver. *)

driverFrame == <<stored, activation, callVars, draining, raced>>

\* mutant: the claim is what gets acknowledged
ClaimAcknowledges ==
  /\ driver = "boundary" /\ ~aborted
  /\ IF inbox = <<>>
       THEN driver' = "turn" /\ UNCHANGED <<log, inbox, accepted, claimed, acks>>
       ELSE /\ log' = Append(log, <<"removed", Head(inbox)>>)
            /\ inbox' = Tail(inbox) /\ claimed' = Head(inbox)
            /\ accepted' = accepted \ {Head(inbox)}
            /\ acks' = acks \cup {Head(inbox)}
            /\ driver' = "preStep"
  /\ UNCHANGED <<driverFrame, faults, aborted, latch>>

Claim ==
  /\ driver = "boundary" /\ ~aborted
  /\ IF inbox = <<>>
       THEN driver' = "turn" /\ UNCHANGED <<log, inbox, accepted, claimed>>
       ELSE /\ log' = Append(log, <<"removed", Head(inbox)>>)
            /\ inbox' = Tail(inbox) /\ claimed' = Head(inbox)
            /\ accepted' = accepted \ {Head(inbox)}
            /\ driver' = "preStep"
  /\ UNCHANGED <<driverFrame, faults, aborted, latch, acks>>

\* The claimed message enters the transcript; its acknowledgement follows in a
\* microtask.
Enter ==
  /\ driver = "preStep" /\ ~aborted
  /\ log' = Append(log, <<"entered", claimed>>)
  /\ acks' = acks \cup {claimed}
  /\ claimed' = Nothing /\ driver' = "turn"
  /\ UNCHANGED <<driverFrame, faults, inbox, accepted, aborted, latch>>

\* A rejected, failed or aborted turn takes what it claimed with it.
TurnFails ==
  /\ driver \in {"boundary", "preStep", "turn"}
  /\ IF aborted THEN UNCHANGED faults ELSE driver # "boundary" /\ Mishap
  /\ claimed' = Nothing /\ driver' = "leaving"
  /\ UNCHANGED <<driverFrame, log, inbox, accepted, aborted, latch, acks>>

TurnDone ==
  /\ driver = "turn" /\ ~aborted
  /\ driver' = IF inbox = <<>> THEN "leaving" ELSE "boundary"
  /\ latch' = (latch /\ inbox = <<>>)
  /\ UNCHANGED <<driverFrame, faults, log, inbox, accepted, claimed, aborted, acks>>

\* kick()'s finally, or the end of a maintenance job.
Converge ==
  /\ driver \in {"leaving", "maintenance"}
  /\ driver' = IF latch /\ inbox # <<>> THEN "boundary" ELSE "idle"
  /\ aborted' = FALSE /\ latch' = FALSE
  /\ UNCHANGED <<driverFrame, faults, log, inbox, accepted, claimed, acks>>

Maintain ==
  /\ driver = "idle" /\ activation = "resident"
  /\ driver' = "maintenance"
  /\ UNCHANGED <<driverFrame, faults, log, inbox, accepted, claimed, aborted, latch, acks>>

Acknowledge(m) ==
  /\ m \in acks
  /\ acks' = acks \ {m}
  /\ log' = IF NeedsClaim(log, m) THEN Append(log, <<"claimed", m>>) ELSE log
  /\ UNCHANGED <<driverFrame, faults, inbox, accepted, driverVars>>

-----------------------------------------------------------------------------
(* Residency. *)

\* interrupt(): the turn is aborted, the inbox kept.
Interrupt ==
  /\ activation = "resident" /\ driver # "idle" /\ ~aborted /\ Mishap
  /\ aborted' = TRUE
  /\ UNCHANGED <<sessionVars, inbox, activation, accepted, driver, claimed, latch, acks,
                 callVars, draining, raced>>

\* stateOf() = "settled", for a child that owns no children.
Settled == driver \in {"idle", "maintenance"} /\ accepted = {}

\* watchSettlement: the check and the cutoff are one critical section.
Settle ==
  /\ activation = "resident" /\ lock = Nobody /\ Settled
  /\ Close(log, inbox) /\ aborted' = (driver # "idle")
  /\ UNCHANGED <<stored, driver, claimed, acks, callVars, draining, faults, raced>>

\* drain(): admission closes for good, then what is resident is disposed.
Drain ==
  /\ ~draining /\ draining' = TRUE /\ Mishap
  /\ IF activation = "resident"
       THEN Close(log, inbox) /\ aborted' = (driver # "idle")
       ELSE UNCHANGED <<log, inbox, activation, accepted, aborted, latch>>
  /\ UNCHANGED <<stored, driver, claimed, acks, callVars, raced>>

\* finishDisposal: once the child is quiet its log is flushed, as far as the
\* store allows, and its handle disposed.
Gone ==
  /\ activation = "closing" /\ driver = "idle" /\ acks = {}
  /\ activation' = "none" /\ driver' = "none"
  /\ \/ stored' = Len(log) /\ UNCHANGED <<log, faults>>
     \/ /\ Mishap
        /\ \E k \in stored..Len(log) : log' = SubSeq(log, 1, k) /\ stored' = k
  /\ UNCHANGED <<inbox, accepted, claimed, aborted, latch, acks, callVars, draining, raced>>

\* The harness dies, with the callers it served, and starts again.
Crash ==
  /\ Mishap
  /\ \E k \in stored..Len(log) : log' = SubSeq(log, 1, k) /\ stored' = k
  /\ inbox' = <<>> /\ activation' = "none" /\ accepted' = {} /\ acks' = {}
  /\ driver' = "none" /\ claimed' = Nothing /\ aborted' = FALSE /\ latch' = FALSE
  /\ caller' = [c \in Callers |->
                  IF caller[c] \in Answered \cup {"idle"} THEN caller[c] ELSE "failed"]
  /\ lock' = Nobody /\ fresh' = FALSE /\ flushTo' = 0 /\ draining' = FALSE
  /\ UNCHANGED raced

-----------------------------------------------------------------------------
\* A call goes on inside the child's critical section, or while it is free.
CallStep(c) ==
  /\ lock \in {Nobody, c} /\ caller[c] \notin Answered \cup {"idle"}
  /\ \/ Refuse(c) \/ AwaitClosing(c) \/ Closed(c)
     \/ ColdResume(c) \/ ResumeFails(c) \/ Materialize(c) \/ RollBack(c)
     \/ Accept(c) \/ SubmitRefused(c) \/ FlushFails(c) \/ Flushed(c) \/ Unwound(c)

DriverStep == Claim \/ Enter \/ TurnFails \/ TurnDone \/ Converge

Next ==
  \/ \E c \in Callers : Call(c) \/ CallStep(c)
  \/ DriverStep \/ Maintain \/ \E m \in Messages : Acknowledge(m)
  \/ Interrupt \/ Settle \/ Drain \/ Gone \/ Crash

Spec == Init /\ [][Next]_vars

\* Some call goes on as long as one can, and so does the child: its driver's
\* awaits settle, its acknowledgements are written and its disposal ends.  Calls,
\* settlements, maintenance, interrupts, drains and crashes need not happen.
FairSpec ==
  /\ Spec
  /\ WF_vars(\E c \in Callers : CallStep(c))
  /\ WF_vars(DriverStep \/ Gone \/ \E m \in Messages : Acknowledge(m))

-----------------------------------------------------------------------------
(* Properties. *)

TypeOK ==
  /\ log \in Seq(Kinds \X (Messages \cup {Nothing})) /\ stored \in 0..Len(log)
  /\ inbox \in Seq(Messages) /\ accepted \subseteq Messages
  /\ activation \in {"none", "resident", "closing"}
  /\ driver \in {"none", "idle", "maintenance", "boundary", "preStep", "turn", "leaving"}
  /\ claimed \in Messages \cup {Nothing} /\ aborted \in BOOLEAN /\ latch \in BOOLEAN
  /\ acks \subseteq Messages /\ raced \subseteq Messages
  /\ caller \in [Callers -> Answered \cup {"idle", "waiting", "awaiting", "resuming",
                                            "submitting", "flushing", "unwinding", "clashing"}]
  /\ lock \in Callers \cup {Nobody} /\ fresh \in BOOLEAN /\ flushTo \in Nat
  /\ draining \in BOOLEAN /\ faults \in 0..MaxFaults

\* A receipt is a promise: the acceptance it stands for survives every crash,
\* and the message is in the transcript or still due to be delivered, so that no
\* acknowledgement, cleared inbox or failed turn drops it (submit, followup's
\* @returns "the accepted message's durable receipt id").
ReceiptKept ==
  \A c \in Callers : caller[c] = "receipt" =>
    /\ \E i \in 1..stored : log[i] = <<"accepted", Key(c)>>
    /\ Logged(log, "entered", Key(c)) \/ Owed(log, Key(c))

Precedes(kind1, m1, kind2, m2) ==
  \E j \in 1..Len(log) : log[j] = <<kind2, m2>> /\ Logged(SubSeq(log, 1, j), kind1, m1)

\* Acceptance order is delivery order: a message that had been enqueued when a
\* later one was accepted has left the inbox for a turn before the later one
\* enters the transcript, also when disposal emptied the inbox or a crash cut
\* the log between them and the mailbox was replayed (followup, "Deliver one
\* later message ... as its next FIFO turn").
InAcceptanceOrder ==
  \A m1, m2 \in Messages :
    /\ m1 # m2 /\ Precedes("inserted", m1, "accepted", m2) /\ Logged(log, "entered", m2)
    => \E i \in 1..Len(log) : /\ log[i] = <<"removed", m1>>
                              /\ ~Logged(SubSeq(log, 1, i), "entered", m2)

\* Neither a crash nor a cold resumption delivers a message twice: only a retry
\* under the same key, published while the first copy sits between its claim and
\* its user/message, does (submit, pendingSubagentDeliveries).
CrashNeverRepeats ==
  \A m \in Messages \ raced :
    Cardinality({i \in 1..Len(log) : log[i] = <<"entered", m>>}) <= 1

\* The settlement watcher never disposes a child that still owes a delivery: when
\* no call, replay or drain closes it, nothing undelivered is in its inbox
\* (watchSettlement, stateOf).
SettlesQuiet ==
  [][ /\ activation = "resident" /\ activation' = "closing"
      /\ lock = Nobody /\ draining' = draining
      => \A m \in ToSet(inbox) : ~Owed(log, m) ]_vars

\* Every call is answered: none waits for ever on the critical section, on a
\* disposal in progress, on a durability barrier or on a rolled back Activation.
\* Each call is made once, so that in the end nobody waits.
CallAnswered == <>[](\A c \in Callers : caller[c] \in Answered \cup {"idle"})

\* What packages/subagent/subagent/README.md:20 says: "an absent child cold-resumes
\* and replays every older accepted-unclaimed delivery before the new one".  The
\* replay is never refused.
ReplaysOlderDeliveries == \A c \in Callers : caller[c] # "clashing"

=============================================================================
