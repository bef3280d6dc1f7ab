-------------------------- MODULE AgentDriverProofs --------------------------
(***************************************************************************)
(* Proofs about AgentDriver, for every set of messages and every value of   *)
(* the bounds.  The type invariant needs to know that a step's snapshot is  *)
(* held when it is released; the log rules need the driver's counters to    *)
(* match the log's; the wake latch and the stranding property need to know  *)
(* where each queued message's wake went; what a cancel found needs the     *)
(* stack of the cancels that still wait for their listeners; and an abort   *)
(* that came in time needs every way through the turn.  Each invariant is   *)
(* preserved by a lemma with one case per action.                           *)
(***************************************************************************)
EXTENDS AgentDriver, SequenceTheorems, TLAPS

-----------------------------------------------------------------------------
(* What the edits of an inbox list - append, take the head, remove at an index - do to
   the set of its elements and to their distinctness. *)

\* Appending an element adds just it, and keeps a list without duplicates so
\* when the element is new.
LEMMA AppendElements ==
  ASSUME NEW S, NEW s \in Seq(S), NEW e \in S
  PROVE  /\ Append(s, e) \in Seq(S)
         /\ ToSet(Append(s, e)) = ToSet(s) \cup {e}
         /\ IsInjective(s) /\ e \notin ToSet(s) => IsInjective(Append(s, e))
  <1> DEFINE t == Append(s, e)
  <1>1. /\ t \in Seq(S) /\ Len(t) = Len(s) + 1 /\ DOMAIN t = 1..Len(s) + 1
        /\ DOMAIN s = 1..Len(s) /\ Len(s) \in Nat
    OBVIOUS
  <1>2. t[Len(s) + 1] = e /\ \A j \in 1..Len(s) : t[j] = s[j]
    OBVIOUS
  <1>3. ToSet(t) = ToSet(s) \cup {e}
    BY <1>1, <1>2 DEF ToSet
  <1>4. ASSUME IsInjective(s), e \notin ToSet(s)  PROVE IsInjective(t)
    <2> SUFFICES ASSUME NEW a \in 1..Len(s) + 1, NEW b \in 1..Len(s) + 1, t[a] = t[b]
                 PROVE  a = b
      BY <1>1 DEF IsInjective
    <2>1. \A j \in 1..Len(s) : t[j] # e
      BY <1>1, <1>2, <1>4 DEF ToSet
    <2>2. CASE a \in 1..Len(s) /\ b \in 1..Len(s)
      BY <1>1, <1>2, <1>4, <2>2 DEF IsInjective
    <2>3. CASE a = Len(s) + 1 \/ b = Len(s) + 1
      <3>1. a = Len(s) + 1 \/ a \in 1..Len(s)
        BY <1>1
      <3>2. b = Len(s) + 1 \/ b \in 1..Len(s)
        BY <1>1
      <3>3. QED
        BY <1>2, <2>1, <2>3, <3>1, <3>2
    <2>4. QED
      BY <1>1, <2>2, <2>3
  <1>5. QED
    BY <1>1, <1>3, <1>4

\* Taking the head leaves the other elements.
LEMMA TailElements ==
  ASSUME NEW S, NEW s \in Seq(S), s # <<>>
  PROVE  /\ Head(s) \in S /\ Tail(s) \in Seq(S) /\ Head(s) \in ToSet(s)
         /\ ToSet(s) = {Head(s)} \cup ToSet(Tail(s))
         /\ IsInjective(s) => IsInjective(Tail(s)) /\ Head(s) \notin ToSet(Tail(s))
  <1> DEFINE t == Tail(s)
  <1>1. /\ t \in Seq(S) /\ Len(s) \in Nat \ {0} /\ Len(t) = Len(s) - 1
        /\ DOMAIN t = 1..Len(s) - 1 /\ DOMAIN s = 1..Len(s) /\ Head(s) \in S
    BY EmptySeq, HeadTailProperties, LenProperties
  <1>2. Head(s) = s[1] /\ \A j \in 1..Len(s) - 1 : t[j] = s[j + 1]
    BY <1>1, HeadTailProperties
  <1>3. ToSet(s) = {Head(s)} \cup ToSet(t)
    <2>1. \A j \in 1..Len(s) : j = 1 \/ (j - 1 \in 1..Len(s) - 1 /\ s[j] = t[j - 1])
      BY <1>1, <1>2
    <2>2. ASSUME NEW x \in ToSet(s)  PROVE x \in {Head(s)} \cup ToSet(t)
      <3>1. PICK j \in 1..Len(s) : x = s[j]
        BY <1>1 DEF ToSet
      <3>2. QED
        BY <1>1, <1>2, <2>1, <3>1 DEF ToSet
    <2>3. \A j \in 1..Len(s) - 1 : j + 1 \in 1..Len(s) /\ t[j] = s[j + 1]
      BY <1>1, <1>2
    <2>4. 1 \in 1..Len(s)
      BY <1>1
    <2>5. {Head(s)} \cup ToSet(t) \subseteq ToSet(s)
      BY <1>1, <1>2, <2>3, <2>4 DEF ToSet
    <2>6. QED
      BY <2>2, <2>5
  <1>4. ASSUME IsInjective(s)  PROVE IsInjective(t) /\ Head(s) \notin ToSet(t)
    <2>1. \A a, b \in 1..Len(s) : s[a] = s[b] => a = b
      BY <1>1, <1>4 DEF IsInjective
    <2>2. \A a, b \in 1..Len(s) - 1 : t[a] = t[b] => a = b
      <3> TAKE a, b \in 1..Len(s) - 1
      <3>1. a + 1 \in 1..Len(s) /\ b + 1 \in 1..Len(s)
        BY <1>1
      <3>2. QED
        BY <1>2, <2>1, <3>1
    <2>3. \A j \in 1..Len(s) - 1 : t[j] # s[1]
      <3> TAKE j \in 1..Len(s) - 1
      <3>1. j + 1 \in 1..Len(s) /\ 1 \in 1..Len(s) /\ j + 1 # 1
        BY <1>1
      <3>2. QED
        BY <1>2, <2>1, <3>1
    <2>4. QED
      BY <1>1, <1>2, <2>2, <2>3 DEF IsInjective, ToSet
  <1>5. Head(s) \in ToSet(s)
    BY <1>3
  <1>6. QED
    BY <1>1, <1>3, <1>4, <1>5

\* Removing at an index drops that occurrence and keeps the order of the rest.
LEMMA RemoveAtElements ==
  ASSUME NEW S, NEW s \in Seq(S), NEW i \in 1..Len(s)
  PROVE  /\ RemoveAt(s, i) \in Seq(S)
         /\ ToSet(RemoveAt(s, i)) \subseteq ToSet(s)
         /\ IsInjective(s) =>
              IsInjective(RemoveAt(s, i)) /\ ToSet(RemoveAt(s, i)) = ToSet(s) \ {s[i]}
  <1> DEFINE a == SubSeq(s, 1, i - 1)
             b == SubSeq(s, i + 1, Len(s))
             t == RemoveAt(s, i)
             At(j) == IF j < i THEN j ELSE j + 1
  <1> HIDE DEF a, b, t, At
  <1>0. /\ Len(s) \in Nat /\ DOMAIN s = 1..Len(s)
        /\ i \in Nat /\ 1 <= i /\ i <= Len(s)
    OBVIOUS
  <1>1. /\ a \in Seq(S) /\ Len(a) = i - 1
        /\ \A j \in 1..i - 1 : a[j] = s[j]
    BY <1>0, SubSeqProperties DEF a
  <1>2. /\ b \in Seq(S) /\ Len(b) = Len(s) - i
        /\ \A j \in 1..Len(s) - i : b[j] = s[i + j]
    <2>1. \A j \in i + 1..Len(s) : s[j] \in S
      BY <1>0
    <2>2. /\ b \in Seq(S)
          /\ Len(b) = IF i + 1 <= Len(s) THEN Len(s) - (i + 1) + 1 ELSE 0
          /\ \A j \in 1..Len(s) - (i + 1) + 1 : b[j] = s[i + 1 + j - 1]
      BY <1>0, <2>1, SubSeqProperties DEF b
    <2>3. Len(s) - (i + 1) + 1 = Len(s) - i
      BY <1>0
    <2>4. Len(b) = Len(s) - i
      <3>1. \A n, k \in Nat :
              k <= n => (IF k + 1 <= n THEN n - (k + 1) + 1 ELSE 0) = n - k
        OBVIOUS
      <3>2. QED
        BY <1>0, <2>2, <3>1
    <2>5. ASSUME NEW j \in 1..Len(s) - i  PROVE b[j] = s[i + j]
      <3>1. i + 1 + j - 1 = i + j
        BY <1>0
      <3>2. QED
        BY <2>2, <2>3, <3>1
    <2>6. QED
      BY <2>2, <2>4, <2>5
  <1>3. /\ t \in Seq(S) /\ Len(t) = Len(s) - 1
        /\ \A j \in 1..Len(s) - 1 : t[j] = IF j <= i - 1 THEN a[j] ELSE b[j - (i - 1)]
    <2>1. t = a \o b
      BY DEF RemoveAt, a, b, t
    <2>2. /\ a \o b \in Seq(S) /\ Len(a \o b) = Len(a) + Len(b)
          /\ \A j \in 1..Len(a) + Len(b) :
               (a \o b)[j] = IF j <= Len(a) THEN a[j] ELSE b[j - Len(a)]
      BY <1>1, <1>2, ConcatProperties
    <2>3. Len(a) + Len(b) = Len(s) - 1
      BY <1>0, <1>1, <1>2
    <2>4. QED
      BY <1>1, <2>1, <2>2, <2>3
  <1>4. \A j \in 1..Len(s) - 1 : At(j) \in 1..Len(s) /\ At(j) # i /\ t[j] = s[At(j)]
    <2> TAKE j \in 1..Len(s) - 1
    <2>1. CASE j < i
      BY <1>0, <1>1, <1>3, <2>1 DEF At
    <2>2. CASE ~(j < i)
      <3>1. j - (i - 1) \in 1..Len(s) - i /\ i + (j - (i - 1)) = j + 1
        BY <1>0, <2>2
      <3>2. b[j - (i - 1)] = s[j + 1]
        BY <1>2, <3>1
      <3>3. QED
        BY <1>0, <1>3, <2>2, <3>2 DEF At
    <2>3. QED
      BY <2>1, <2>2
  <1>5. DOMAIN t = 1..Len(s) - 1
    BY <1>3, LenProperties
  <1>6. ToSet(t) \subseteq ToSet(s)
    BY <1>0, <1>4, <1>5 DEF ToSet
  <1>7. ASSUME IsInjective(s)  PROVE IsInjective(t) /\ ToSet(t) = ToSet(s) \ {s[i]}
    <2>1. \A x, y \in 1..Len(s) : s[x] = s[y] => x = y
      BY <1>0, <1>7 DEF IsInjective
    <2>2. \A x, y \in 1..Len(s) - 1 : t[x] = t[y] => x = y
      <3> TAKE x, y \in 1..Len(s) - 1
      <3>1. At(x) = At(y) => x = y
        BY <1>0 DEF At
      <3>2. QED
        BY <1>4, <2>1, <3>1
    <2>3. \A x \in 1..Len(s) - 1 : t[x] # s[i]
      BY <1>4, <2>1
    <2>4. \A x \in 1..Len(s) : x = i \/ \E j \in 1..Len(s) - 1 : x = At(j)
      <3> TAKE x \in 1..Len(s)
      <3>1. CASE x < i
        <4>1. x \in 1..Len(s) - 1 /\ At(x) = x
          BY <1>0, <3>1 DEF At
        <4>2. QED
          BY <4>1
      <3>2. CASE x > i
        <4>1. x - 1 \in 1..Len(s) - 1 /\ At(x - 1) = x
          BY <1>0, <3>2 DEF At
        <4>2. QED
          BY <4>1
      <3>3. QED
        BY <1>0, <3>1, <3>2
    <2>5. ASSUME NEW e \in ToSet(s), e # s[i]  PROVE e \in ToSet(t)
      <3>1. PICK x \in 1..Len(s) : e = s[x]
        BY <1>0 DEF ToSet
      <3>2. PICK j \in 1..Len(s) - 1 : x = At(j)
        BY <2>4, <2>5, <3>1
      <3>3. QED
        BY <1>4, <1>5, <3>1, <3>2 DEF ToSet
    <2>6. QED
      BY <1>5, <1>6, <2>2, <2>3, <2>5 DEF IsInjective, ToSet
  <1>8. QED
    BY <1>3, <1>6, <1>7 DEF t

\* Putting an element in front adds just it.
LEMMA PrependElements ==
  ASSUME NEW S, NEW s \in Seq(S), NEW e \in S
  PROVE  <<e>> \o s \in Seq(S) /\ ToSet(<<e>> \o s) = {e} \cup ToSet(s)
  <1> DEFINE t == <<e>> \o s
  <1>1. <<e>> \in Seq(S) /\ Len(<<e>>) = 1 /\ <<e>>[1] = e
    OBVIOUS
  <1>2. /\ t \in Seq(S) /\ Len(t) = 1 + Len(s)
        /\ \A j \in 1..1 + Len(s) : t[j] = IF j <= 1 THEN <<e>>[j] ELSE s[j - 1]
    BY <1>1, ConcatProperties
  <1> HIDE DEF t
  <1>3. Len(s) \in Nat /\ DOMAIN s = 1..Len(s) /\ DOMAIN t = 1..1 + Len(s)
    BY <1>2
  <1>4. t[1] = e /\ \A j \in 1..Len(s) : j + 1 \in 1..1 + Len(s) /\ t[j + 1] = s[j]
    BY <1>1, <1>2, <1>3
  <1>5. \A j \in 1..1 + Len(s) : j = 1 \/ (j - 1 \in 1..Len(s) /\ t[j] = s[j - 1])
    BY <1>2, <1>3
  <1>6. ToSet(t) \subseteq {e} \cup ToSet(s)
    <2> SUFFICES ASSUME NEW x \in ToSet(t)  PROVE x \in {e} \cup ToSet(s)
      OBVIOUS
    <2>1. PICK j \in 1..1 + Len(s) : x = t[j]
      BY <1>3 DEF ToSet
    <2>2. QED
      BY <1>3, <1>4, <1>5, <2>1 DEF ToSet
  <1>7. {e} \cup ToSet(s) \subseteq ToSet(t)
    <2>1. 1 \in 1..1 + Len(s)
      BY <1>3
    <2>2. QED
      BY <1>3, <1>4, <2>1 DEF ToSet
  <1>8. QED
    BY <1>2, <1>6, <1>7 DEF t

-----------------------------------------------------------------------------
(* The inductive invariant. *)

TurnPoints == {"boundary", "context", "assembling", "decided", "request", "stream",
               "requestError", "tools", "stepEnd", "stopping", "closing"}
StepPoints == {"request", "stream", "requestError", "tools", "stepEnd"}

\* The open turn and step of the log are those of the control point, and the
\* numbers the log expects next are the driver's own counters plus one.
LogTracksDriver ==
  /\ pc \in TurnPoints => turn # 0 /\ trace.openTurn = turn /\ trace.nextTurn = turn
  /\ pc \in StepPoints => step # 0 /\ trace.openStep = step /\ trace.nextStep = step
  /\ pc \in TurnPoints \ StepPoints => trace.openStep = 0 /\ trace.nextStep = step + 1
  /\ pc \notin TurnPoints /\ ~fenced =>
       trace.openTurn = 0 /\ trace.openStep = 0 /\ trace.nextTurn = turn + 1
  /\ pc = "turn" => step = 0

\* Messages offered to a step left the inbox by a claim; they are offered until
\* the step is entered or given up.
ProposedClaimed ==
  /\ \A m \in proposed : fate[m] = "claimed"
  /\ proposed # {} => pc \in {"context", "assembling", "decided"}

\* A latched message has an activity whose latch is set, or a kick() that has
\* read the latch and will replay it once its listeners have returned.
LatchHeld ==
  /\ \A m \in Messages :
       fate[m] = "latched" => wakeRequested \/ (phase # "running" /\ replaying)
  /\ wakeRequested => phase # "idle"
  /\ abort = "disposed" => \A m \in Messages : fate[m] # "latched"

\* A driver that left its loop because the inbox was empty, and has not been
\* restarted, accepted the wake of no message that waits.
DrainedLeavesNone ==
  /\ lastExit # "none" => pc \in {"none", "exit"}
  /\ lastExit = "drained" => \A m \in Messages : fate[m] # "live"

\* The first claim of a turn is the only one that takes from next-turn.
PromptTargetFirst ==
  /\ pc \in {"boundary", "context", "assembling", "decided"} /\ target = "next-turn" => step = 0
  /\ pc = "stopping" => target = "next-step"

\* A cancel that found a prompt is still to discard it, or the prompt has been
\* claimed from under it: then it is still to abort the driver, or has done so.
CancelKept ==
  /\ \A m \in cancelled : m \in Messages /\ fate[m] \notin {"unsent", "entered"}
  /\ cancelled \cap ToSet(nextStep) = {}
  /\ cancelled \cap ToSet(nextTurn) # {} =>
       \E c \in ToSet(calls) : c.op = "cancel" /\ c.left = "next-turn"
  /\ cancelled \cap proposed # {} =>
       Aborted \/ \E c \in ToSet(calls) : c.op = "cancel"

\* An abort that came in time keeps the turn from ending as a completed one.
AbortStands ==
  caught => /\ phase = "running" /\ Aborted
            /\ ~(pc = "decided" /\ OwesNothing)
            /\ ~(pc = "closing" /\ ends \in {"completed", "max-tokens"})
            /\ (pc = "exit" => lastExit = "gaveUp")

\* The step that PromptOpensTurn allows.
PromptClaim ==
  (pc = "boundary" /\ pc' = "context" /\ nextTurn' # nextTurn)
    => (trace.nextStep = 1 /\ trace.openStep = 0 /\ nextTurn' = Tail(nextTurn))

DriverInv ==
  /\ TypeOK /\ SnapshotReleased
  /\ LogTracksDriver /\ LogWellFormed
  /\ QueueMatchesFate /\ ProposedClaimed
  /\ LatchHeld /\ DrainedLeavesNone /\ PromptTargetFirst
  /\ CancelKept /\ AbortStands

-----------------------------------------------------------------------------
(* What groups of actions leave alone. *)

QuietCaller == DisposeRefused \/ Release \/ LoseOwnership \/ UNCHANGED vars

QuietTurn ==
  \/ TurnAbandoned \/ OpenTurn \/ BoundaryAborted \/ ContextPrepared
  \/ SkipStep \/ EndStep \/ StoppingSettles

SettlesClaim ==
  \/ PreStepThrows \/ PreStepRejects \/ DecidedAborted \/ AppendRefused
  \/ StackEmpty /\ EnterStep
  \/ \E kept \in SUBSET proposed, extended \in BOOLEAN : PreStepEnters(kept, extended)

Submits(m) == \E list, wakeup : Send(m, list, wakeup)

\* The driver runs between two callbacks, or as the innermost call.
DriverFree == calls = <<>> \/ InCall("kick")

\* Every step of the driver is one of these.
LEMMA NextCases ==
  ASSUME [Next]_vars
  PROVE  \/ WakeDriver \/ Cancel \/ Dispose \/ CancelGoesOn \/ CancelKeepingInbox
         \/ QuietCaller \/ ReplayWake
         \/ \E m \in Messages : Submits(m) \/ AcceptContext(m) \/ RemoveMessage(m)
         \/ RunMaintenance \/ (StackEmpty /\ (MaintenanceSettles \/ ExitDriver))
         \/ DriverFree /\ (QuietTurn \/ BeginPreStep \/ SettlesClaim \/ CloseTurn)
         \/ Step
  <1>1. CASE Resume
    BY <1>1 DEF Resume, Opening, QuietTurn, SettlesClaim, DriverFree
  <1>2. CASE Callers
    <2>1. ASSUME NEW m \in Messages, Followup(m) \/ Steer(m) \/ Inject(m)
          PROVE  Submits(m)
      BY <2>1 DEF Followup, Steer, Inject, Submits
    <2>2. CASE \E m \in Messages : Followup(m) \/ Steer(m) \/ Inject(m) \/ RemoveMessage(m)
      BY <2>1, <2>2
    <2>3. CASE Cancel \/ CancelKeepingInbox \/ Dispose \/ DisposeRefused \/ RunMaintenance
      BY <2>3 DEF QuietCaller
    <2>4. QED
      BY <1>2, <2>2, <2>3 DEF Callers
  <1>3. CASE StackEmpty /\ (Turn \/ Step \/ Outside \/ MaintenanceSettles)
    <2>1. DriverFree
      BY <1>3 DEF StackEmpty, DriverFree
    <2>2. CASE Turn
      BY <1>3, <2>1, <2>2 DEF Turn, QuietTurn, SettlesClaim
    <2>3. CASE \E m \in Messages : AcceptContext(m)
      BY <2>3
    <2>4. CASE Release \/ LoseOwnership
      BY <2>4 DEF QuietCaller
    <2>5. QED
      BY <1>3, <2>2, <2>3, <2>4 DEF Outside
  <1>4. QED
    BY <1>1, <1>2, <1>3 DEF Next, QuietCaller

\* They change the owner or the fence, and nothing else.
LEMMA QuietCallerFrame ==
  ASSUME QuietCaller
  PROVE  UNCHANGED <<inboxVars, phaseVars, stepVars, trace, history, callVars, pc, fate>>
  BY DEF QuietCaller, DisposeRefused, Release, LoseOwnership, vars, logVars

\* A cancel empties a list and announces it, or stops the activity.
CancelStep ==
  /\ UNCHANGED <<phase, turn, stepVars, logVars, lastExit, replaying, pc>>
  /\ \/ (ClearNextStep \/ ClearNextTurn) /\ UNCHANGED <<abort, caught, wakeRequested>>
     \/ \E cause \in Cause : StopActivity(cause) /\ UNCHANGED inboxVars

LEMMA CancelCases ==
  ASSUME TypeOK, Cancel \/ Dispose \/ CancelGoesOn
  PROVE  CancelStep
  <1>1. ASSUME NEW cause \in Cause, CancelClearing(cause)
        PROVE  CancelStep
    BY <1>1 DEF CancelClearing, CancelStep
  <1>2. CASE CancelGoesOn
    <2>1. Head(calls) \in Call /\ Head(calls).op = "cancel"
      BY <1>2, TailElements DEF CancelGoesOn, InCall, TypeOK
    <2>2. Head(calls).cause \in Cause
      BY <2>1 DEF Call, Kick
    <2>3. QED
      BY <1>2, <2>2 DEF CancelGoesOn, CancelStep
  <1>3. QED
    BY <1>1, <1>2 DEF Cancel, Dispose, Cause

\* They touch no message and keep the activity.
LEMMA QuietTurnFrame ==
  ASSUME QuietTurn
  PROVE  /\ UNCHANGED <<inboxVars, phase, abort, caught, wakeRequested, step, proposed,
                        cancelled, replaying, fate>>
         /\ calls' = calls \/ KickReturns
         /\ pc \notin {"none", "exit"}
         /\ pc' \in TurnPoints \cup {"exit"} /\ pc' # "context"
         /\ pc' = "decided" => FALSE
         /\ pc' = "exit" => lastExit' = "gaveUp"
         /\ pc' # "exit" => lastExit' = lastExit
  <1> USE DEF inboxVars, phaseVars, stepVars, logVars, history, callVars, TurnPoints
  <1>1. CASE TurnAbandoned
    BY <1>1 DEF TurnAbandoned, LeaveLoop
  <1>2. CASE OpenTurn
    BY <1>2 DEF OpenTurn
  <1>3. CASE BoundaryAborted \/ ContextPrepared \/ SkipStep
    BY <1>3 DEF BoundaryAborted, ContextPrepared, SkipStep, Throw
  <1>4. CASE EndStep \/ StoppingSettles
    BY <1>4 DEF EndStep, StoppingSettles, Throw
  <1>5. QED
    BY <1>1, <1>2, <1>3, <1>4 DEF QuietTurn

\* Claimed messages enter or are dropped; no other message is touched.
SettlesOnlyClaim ==
  /\ UNCHANGED <<inboxVars, phaseVars, cancelled, replaying, target>>
  /\ calls' = calls \/ KickReturns
  /\ proposed' \subseteq proposed
  /\ \A m \in Messages \ (proposed \ proposed') : fate'[m] = fate[m]
  /\ \A m \in proposed \ proposed' :
       fate'[m] = "gone" \/ (fate'[m] = "entered" /\ StackEmpty /\ ~Aborted)
  /\ pc \notin {"none", "exit", "stopping"} /\ (pc' = "exit" => lastExit' = "gaveUp")
  /\ pc' # "none" /\ (pc' # "exit" => lastExit' = lastExit)
  /\ pc' = "decided" => pc = "assembling" /\ step' = step /\ ~Aborted
  /\ pc' # "decided" => proposed' = {}
  /\ pc' = "closing" => (~Aborted \/ ends' = "aborted")
  /\ pc' \notin {"boundary", "context", "assembling", "stopping"}

\* So do the boundary's outcomes.
LEMMA SettlesClaimFrame ==
  ASSUME TypeOK, SettlesClaim
  PROVE  SettlesOnlyClaim
  <1> USE DEF inboxVars, phaseVars, stepVars, logVars, history, callVars, TypeOK,
              SettlesOnlyClaim, Become
  <1>1. CASE PreStepThrows
    BY <1>1 DEF PreStepThrows, Throw, DropClaimed
  <1>2. CASE PreStepRejects
    BY <1>2 DEF PreStepRejects, DropClaimed
  <1>3. CASE DecidedAborted
    BY <1>3 DEF DecidedAborted, Throw, DropClaimed
  <1>4. CASE StackEmpty /\ EnterStep
    BY <1>4 DEF EnterStep
  <1>5. CASE AppendRefused
    BY <1>5 DEF AppendRefused, Appending, LeaveLoop, DropClaimed
  <1>6. ASSUME NEW kept \in SUBSET proposed, NEW extended \in BOOLEAN,
               PreStepEnters(kept, extended)
        PROVE  SettlesOnlyClaim
    BY <1>6 DEF PreStepEnters, DropClaimed
  <1> HIDE DEF TypeOK, SettlesOnlyClaim
  <1>7. QED
    BY <1>1, <1>2, <1>3, <1>4, <1>5, <1>6 DEF SettlesClaim

\* No message is touched and the step stays open.
StaysInStep ==
  /\ UNCHANGED <<inboxVars, phaseVars, step, target, proposed, history, callVars, fate>>
  /\ pc \in StepPoints /\ pc' \in StepPoints

\* Every action of step() does.
LEMMA StepFrame ==
  ASSUME Step
  PROVE  StaysInStep
  <1> USE DEF inboxVars, phaseVars, stepVars, logVars, history, callVars, StepPoints,
              StaysInStep
  <1>1. CASE RequestBuilt \/ Chunk \/ ProviderFails \/ RetryRequest
    BY <1>1 DEF RequestBuilt, Chunk, ProviderFails, RetryRequest
  <1>2. CASE RequestFails \/ StreamBreaks \/ RequestErrorThrown \/ ToolsThrow
    BY <1>2 DEF RequestFails, StreamBreaks, RequestErrorThrown, ToolsThrow, StepSettles
  <1>3. CASE AnswerCallsTools
    BY <1>3 DEF AnswerCallsTools, Answer
  <1>4. ASSUME NEW result \in {"completed", "max-tokens"}, AnswerEndsStep(result)
        PROVE  StaysInStep
    BY <1>4 DEF AnswerEndsStep, Answer, StepSettles
  <1>5. ASSUME NEW concluded \in BOOLEAN, ToolsReturn(concluded)
        PROVE  StaysInStep
    BY <1>5 DEF ToolsReturn, StepSettles
  <1> HIDE DEF StaysInStep
  <1>6. QED
    BY <1>1, <1>2, <1>3, <1>4, <1>5 DEF Step

\* A message that waits may change what it waits for, and nothing else moves.
RelabelsQueued ==
  /\ UNCHANGED <<inboxVars, proposed>>
  /\ \A m \in Messages : fate'[m] = fate[m] \/ (m \in Queued /\ fate'[m] \in Waiting)

\* That is all a wake, a replay or a fresh signal does to the messages.
LEMMA WakesRelabel ==
  ASSUME TypeOK, WakeDriver \/ ReplayWake \/ MaintenanceSettles \/ CloseTurn
                 \/ \E cause \in Cause : StopActivity(cause) /\ UNCHANGED <<inboxVars, proposed>>
  PROVE  RelabelsQueued
  <1> USE DEF inboxVars, phaseVars, stepVars, logVars, history, RelabelsQueued, Become,
              ServesQueued, Waiting, StartDriver, TypeOK
  <1>1. CASE WakeDriver
    BY <1>1 DEF WakeDriver
  <1>2. CASE ReplayWake
    BY <1>2 DEF ReplayWake
  <1>3. CASE MaintenanceSettles
    BY <1>3 DEF MaintenanceSettles
  <1>4. CASE CloseTurn
    BY <1>4 DEF CloseTurn
  <1>5. CASE \E cause \in Cause : StopActivity(cause) /\ UNCHANGED <<inboxVars, proposed>>
    BY <1>5 DEF StopActivity
  <1>6. QED
    BY <1>1, <1>2, <1>3, <1>4, <1>5

-----------------------------------------------------------------------------
(* The log. *)

\* Every append keeps the shape of the log's trace.
LEMMA TraceTypes ==
  ASSUME NEW tr \in Traces({}), NEW t \in Nat, NEW s \in Nat
  PROVE  /\ TurnStart(tr, t) \in Traces({})
         /\ TurnEnd(tr, t) \in Traces({})
         /\ StepStart(tr, t, s) \in Traces({})
         /\ StepEnd(tr, t, s) \in Traces({})
         /\ StepEvent(tr, t, s) \in Traces({})
         /\ TurnEvent(tr) \in Traces({})
  <1> USE DEF Traces, Accept
  <1>1. tr.nextTurn + 1 \in Nat /\ tr.nextStep + 1 \in Nat
    OBVIOUS
  <1>2. TurnStart(tr, t) \in Traces({})
    BY DEF TurnStart
  <1>3. TurnEnd(tr, t) \in Traces({})
    BY <1>1 DEF TurnEnd
  <1>4. StepStart(tr, t, s) \in Traces({})
    BY DEF StepStart
  <1>5. StepEnd(tr, t, s) \in Traces({})
    BY <1>1 DEF StepEnd
  <1>6. StepEvent(tr, t, s) \in Traces({}) /\ TurnEvent(tr) \in Traces({})
    BY DEF StepEvent, TurnEvent
  <1>7. QED
    BY <1>2, <1>3, <1>4, <1>5, <1>6

\* What an append that obeys its rule does to the trace.
LEMMA TraceSteps ==
  ASSUME NEW tr \in Traces({}), NEW t \in Nat, NEW s \in Nat, ~tr.broken
  PROVE  /\ tr.openTurn = 0 /\ t = tr.nextTurn =>
              LET n == TurnStart(tr, t)
              IN  /\ n.openTurn = t /\ n.openStep = tr.openStep
                  /\ n.nextTurn = t /\ n.nextStep = 1 /\ ~n.broken
         /\ tr.openTurn = t /\ tr.openStep = 0 =>
              LET n == TurnEnd(tr, t)
              IN  /\ n.openTurn = 0 /\ n.openStep = 0
                  /\ n.nextTurn = tr.nextTurn + 1 /\ ~n.broken
         /\ tr.openTurn = t /\ tr.openStep = 0 /\ s = tr.nextStep =>
              LET n == StepStart(tr, t, s)
              IN  /\ n.openTurn = t /\ n.openStep = s
                  /\ n.nextTurn = tr.nextTurn /\ n.nextStep = s /\ ~n.broken
         /\ InOpenStep(tr, t, s) =>
              LET n == StepEnd(tr, t, s)
              IN  /\ n.openTurn = t /\ n.openStep = 0
                  /\ n.nextTurn = tr.nextTurn /\ n.nextStep = tr.nextStep + 1 /\ ~n.broken
         /\ InOpenStep(tr, t, s) => StepEvent(tr, t, s) = tr
         /\ tr.openTurn # 0 => TurnEvent(tr) = tr
  BY
  DEF Traces, Accept, TurnStart, TurnEnd, StepStart, StepEnd, StepEvent, TurnEvent, InOpenStep

\* No append breaks a log rule, because the open turn and step of the log are
\* those of the control point.
LEMMA LogStep ==
  ASSUME TypeOK, LogTracksDriver, LogWellFormed, [Next]_vars
  PROVE  LogTracksDriver' /\ LogWellFormed'
  <1> USE DEF inboxVars, phaseVars, stepVars, logVars, history
  <1>1. CASE Cancel \/ Dispose \/ CancelGoesOn
    BY <1>1, CancelCases
    DEF CancelStep, LogTracksDriver, LogWellFormed, TurnPoints, StepPoints
  <1>2. CASE CancelKeepingInbox \/ DisposeRefused \/ Release \/ LoseOwnership \/ UNCHANGED vars
    BY <1>2
    DEF CancelKeepingInbox, DisposeRefused, Release, LoseOwnership, vars, LogTracksDriver,
        LogWellFormed, TurnPoints, StepPoints
  <1>3. ASSUME NEW m \in Messages, NEW list, NEW wakeup, Send(m, list, wakeup)
        PROVE  LogTracksDriver' /\ LogWellFormed'
    BY <1>3 DEF Send, LogTracksDriver, LogWellFormed, TurnPoints, StepPoints
  <1>4. ASSUME NEW m \in Messages, AcceptContext(m)
        PROVE  LogTracksDriver' /\ LogWellFormed'
    BY <1>4 DEF AcceptContext, LogTracksDriver, LogWellFormed, TurnPoints, StepPoints
  <1>5. ASSUME NEW m \in Messages, RemoveMessage(m)
        PROVE  LogTracksDriver' /\ LogWellFormed'
    BY <1>5 DEF RemoveMessage, LogTracksDriver, LogWellFormed, TurnPoints, StepPoints
  <1>6. CASE WakeDriver \/ ReplayWake \/ RunMaintenance
    BY <1>6
    DEF WakeDriver, ReplayWake, StartDriver, TypeOK, RunMaintenance, LogTracksDriver,
        LogWellFormed, TurnPoints, StepPoints
  <1>7. CASE ExitDriver \/ MaintenanceSettles
    BY <1>7
    DEF ExitDriver, StartDriver, MaintenanceSettles, TypeOK, LogTracksDriver,
        LogWellFormed, TurnPoints, StepPoints
  <1>8. CASE TurnAbandoned
    BY <1>8
    DEF TurnAbandoned, LeaveLoop, LogTracksDriver, LogWellFormed, TurnPoints, StepPoints
  <1>9. CASE OpenTurn
    <2>1. /\ trace.openTurn = 0 /\ trace.openStep = 0 /\ trace.nextTurn = turn + 1 /\ step = 0
          /\ ~trace.broken /\ trace \in Traces({}) /\ turn + 1 \in Nat /\ turn + 1 # 0
      BY <1>9 DEF OpenTurn, TypeOK, LogTracksDriver, LogWellFormed, TurnPoints
    <2>2. LET n == trace'
          IN  /\ n.openTurn = turn + 1 /\ n.openStep = 0
              /\ n.nextTurn = turn + 1 /\ n.nextStep = 1 /\ ~n.broken
      BY <1>9, <2>1, TraceSteps DEF OpenTurn
    <2>3. turn' = turn + 1 /\ step' = 0 /\ pc' = "boundary"
      BY <1>9, <2>1 DEF OpenTurn
    <2>4. QED
      BY <2>1, <2>2, <2>3 DEF LogTracksDriver, LogWellFormed, TurnPoints, StepPoints
  <1>10. CASE BoundaryAborted \/ BeginPreStep \/ ContextPrepared
    BY <1>10
    DEF BoundaryAborted, Throw, BeginPreStep, Claim, ContextPrepared, LogTracksDriver,
        LogWellFormed, TurnPoints, StepPoints
  <1>11. CASE SkipStep \/ PreStepThrows \/ PreStepRejects \/ DecidedAborted
    BY <1>11
    DEF SkipStep, PreStepThrows, Throw, PreStepRejects, DecidedAborted, LogTracksDriver,
        LogWellFormed, TurnPoints, StepPoints
  <1>12. ASSUME NEW kept \in SUBSET proposed, NEW extended \in BOOLEAN, PreStepEnters(kept,
                extended)
        PROVE  LogTracksDriver' /\ LogWellFormed'
    BY <1>12 DEF PreStepEnters, LogTracksDriver, LogWellFormed, TurnPoints, StepPoints
  <1>13. CASE EnterStep
    <2>1. /\ turn # 0 /\ trace.openTurn = turn /\ trace.nextTurn = turn
          /\ trace.openStep = 0 /\ trace.nextStep = step + 1
          /\ ~trace.broken /\ trace \in Traces({}) /\ turn \in Nat
          /\ step + 1 \in Nat /\ step + 1 # 0
      BY <1>13 DEF EnterStep, TypeOK, LogTracksDriver, LogWellFormed, TurnPoints, StepPoints
    <2>2. LET n == trace'
          IN  /\ n.openTurn = turn /\ n.openStep = step + 1
              /\ n.nextTurn = turn /\ n.nextStep = step + 1 /\ ~n.broken
      BY <1>13, <2>1, TraceSteps DEF EnterStep
    <2>3. turn' = turn /\ step' = step + 1 /\ pc' = "request"
      BY <1>13 DEF EnterStep
    <2>4. QED
      BY <2>1, <2>2, <2>3 DEF LogTracksDriver, LogWellFormed, TurnPoints, StepPoints
  <1>14. CASE EndStep
    <2>1. /\ turn # 0 /\ trace.openTurn = turn /\ trace.nextTurn = turn
          /\ trace.openStep = step /\ trace.nextStep = step
          /\ ~trace.broken /\ trace \in Traces({}) /\ turn \in Nat /\ step \in Nat
      BY <1>14 DEF EndStep, TypeOK, LogTracksDriver, LogWellFormed, TurnPoints, StepPoints
    <2>2. LET n == trace'
          IN  /\ n.openTurn = turn /\ n.openStep = 0
              /\ n.nextTurn = turn /\ n.nextStep = step + 1 /\ ~n.broken
      BY <1>14, <2>1, TraceSteps DEF EndStep, InOpenStep
    <2>3. turn' = turn /\ step' = step /\ pc' \in {"closing", "stopping", "boundary"}
      BY <1>14 DEF EndStep, Throw
    <2>4. QED
      BY <2>1, <2>2, <2>3 DEF LogTracksDriver, LogWellFormed, TurnPoints, StepPoints
  <1>15. CASE StoppingSettles
    BY <1>15
    DEF StoppingSettles, Throw, LogTracksDriver, LogWellFormed, TurnPoints, StepPoints
  <1>16. CASE CloseTurn
    <2>1. /\ trace.openTurn = turn /\ trace.nextTurn = turn /\ trace.openStep = 0
          /\ ~trace.broken /\ trace \in Traces({}) /\ turn \in Nat
      BY <1>16 DEF CloseTurn, TypeOK, LogTracksDriver, LogWellFormed, TurnPoints, StepPoints
    <2>2. LET n == trace'
          IN  n.openTurn = 0 /\ n.openStep = 0 /\ n.nextTurn = turn + 1 /\ ~n.broken
      BY <1>16, <2>1, TraceSteps DEF CloseTurn
    <2>3. turn' = turn /\ (pc' = "exit" \/ (pc' = "turn" /\ step' = 0))
      BY <1>16 DEF CloseTurn, LeaveLoop
    <2>4. QED
      BY <2>2, <2>3 DEF LogTracksDriver, LogWellFormed, TurnPoints, StepPoints
  <1>17. CASE AppendRefused
    BY <1>17
    DEF AppendRefused, LeaveLoop, LogTracksDriver, LogWellFormed, TurnPoints, StepPoints
  <1>18. CASE RequestBuilt
    <2>1. trace' = trace
      BY <1>18, TraceSteps
      DEF RequestBuilt, InOpenStep, TypeOK, LogTracksDriver, LogWellFormed, TurnPoints,
          StepPoints
    <2>2. QED
      BY <1>18, <2>1 DEF RequestBuilt, LogTracksDriver, LogWellFormed, TurnPoints, StepPoints
  <1>19. CASE Chunk
    <2>1. trace' = trace
      BY <1>19, TraceSteps
      DEF Chunk, InOpenStep, TypeOK, LogTracksDriver, LogWellFormed, TurnPoints, StepPoints
    <2>2. QED
      BY <1>19, <2>1 DEF Chunk, LogTracksDriver, LogWellFormed, TurnPoints, StepPoints
  <1>20. CASE StreamBreaks
    <2>1. trace' = trace
      BY <1>20, TraceSteps
      DEF StreamBreaks, StepSettles, InOpenStep, TypeOK, LogTracksDriver, LogWellFormed,
          TurnPoints, StepPoints
    <2>2. QED
      BY <1>20, <2>1
      DEF StreamBreaks, StepSettles, LogTracksDriver, LogWellFormed, TurnPoints, StepPoints
  <1>21. CASE ProviderFails \/ RetryRequest
    BY <1>21
    DEF ProviderFails, RetryRequest, LogTracksDriver, LogWellFormed, TurnPoints, StepPoints
  <1>22. CASE RequestFails \/ RequestErrorThrown \/ ToolsThrow
    BY <1>22
    DEF RequestFails, StepSettles, RequestErrorThrown, ToolsThrow, LogTracksDriver,
        LogWellFormed, TurnPoints, StepPoints
  <1>23. CASE AnswerCallsTools
    <2>1. trace' = trace
      BY <1>23, TraceSteps
      DEF AnswerCallsTools, Answer, InOpenStep, TypeOK, LogTracksDriver, LogWellFormed,
          TurnPoints, StepPoints
    <2>2. QED
      BY <1>23, <2>1
      DEF AnswerCallsTools, Answer, LogTracksDriver, LogWellFormed, TurnPoints, StepPoints
  <1>24. ASSUME NEW result \in {"completed", "max-tokens"}, AnswerEndsStep(result)
        PROVE  LogTracksDriver' /\ LogWellFormed'
    <2>1. trace' = trace
      BY <1>24, TraceSteps
      DEF AnswerEndsStep, Answer, StepSettles, InOpenStep, TypeOK, LogTracksDriver,
          LogWellFormed, TurnPoints, StepPoints
    <2>2. QED
      BY <1>24, <2>1
      DEF AnswerEndsStep, Answer, StepSettles, LogTracksDriver, LogWellFormed, TurnPoints,
          StepPoints
  <1>25. ASSUME NEW concluded \in BOOLEAN, ToolsReturn(concluded)
        PROVE  LogTracksDriver' /\ LogWellFormed'
    BY <1>25
    DEF ToolsReturn, StepSettles, LogTracksDriver, LogWellFormed, TurnPoints, StepPoints
  <1>26. QED
    BY NextCases, <1>1, <1>2, <1>3, <1>4, <1>5, <1>6, <1>7, <1>8, <1>9, <1>10, <1>11, <1>12,
       <1>13, <1>14, <1>15, <1>16, <1>17, <1>18, <1>19, <1>20, <1>21, <1>22, <1>23, <1>24, <1>25
    DEF QuietCaller, QuietTurn, SettlesClaim, Step, Submits

-----------------------------------------------------------------------------
(* Types and snapshots. *)

\* What the stack of calls goes through keeps its type.
LEMMA CallsTyped ==
  ASSUME TypeOK
  PROVE  /\ KickReturns => calls' \in Seq(Call)
         /\ Return /\ calls # <<>> => calls' \in Seq(Call)
         /\ \A c \in Call : Enter(c) => calls' \in Seq(Call)
         /\ \A c \in Call : GoOnAs(c) /\ calls # <<>> => calls' \in Seq(Call)
  <1>1. calls \in Seq(Call) /\ <<>> \in Seq(Call)
    BY EmptySeq DEF TypeOK
  <1>2. calls # <<>> => Tail(calls) \in Seq(Call)
    BY <1>1, TailElements
  <1>3. KickReturns => calls' \in Seq(Call)
    BY <1>1, <1>2 DEF KickReturns
  <1>4. Return /\ calls # <<>> => calls' \in Seq(Call)
    BY <1>2 DEF Return
  <1>5. ASSUME NEW c \in Call, Enter(c)  PROVE calls' \in Seq(Call)
    BY <1>1, <1>5, PrependElements DEF Enter
  <1>6. ASSUME NEW c \in Call, GoOnAs(c), calls # <<>>  PROVE calls' \in Seq(Call)
    BY <1>2, <1>6, PrependElements DEF GoOnAs
  <1>7. QED
    BY <1>3, <1>4, <1>5, <1>6

\* So does the record of the messages' fates.
LEMMA FatesTyped ==
  ASSUME TypeOK, NEW ms, NEW what \in Fates
  PROVE  /\ Become(ms, what) => fate' \in [Messages -> Fates]
         /\ \A m \in Messages : fate' = [fate EXCEPT ![m] = what] => fate' \in [Messages -> Fates]
  BY DEF TypeOK, Become

\* Every action keeps the variables in their types; the snapshot count, because
\* a snapshot is released only where one is held.
LEMMA TypeStep ==
  ASSUME TypeOK, SnapshotReleased, [Next]_vars
  PROVE  TypeOK'
  <1> USE DEF inboxVars, phaseVars, stepVars, logVars, history, callVars
  <1>0. /\ pc \in {"assembling", "decided", "request", "stream", "requestError", "tools"}
             => snapshot - 1 \in Nat
        /\ snapshot + 1 \in Nat /\ turn + 1 \in Nat /\ step + 1 \in Nat
    BY DEF TypeOK, SnapshotReleased
  <1>a. /\ Kick \in Call
        /\ \A m \in Messages, b \in BOOLEAN :
             [op |-> "send", message |-> m, afterAbort |-> b] \in Call
        /\ \A cause \in Cause, left \in {"next-turn", "abort"} :
             CancelCall(cause, left) \in Call
    BY DEF Call, CancelCall
  <1>b. \A f \in {"queued", "live", "latched", "parked", "late", "claimed", "entered", "gone"} :
          f \in Fates
    BY DEF Fates, Waiting
  <1>c. ASSUME NEW cause \in Cause, StopActivity(cause)
        PROVE  /\ abort' \in Cause \cup {"none"} /\ caught' \in BOOLEAN
               /\ wakeRequested' \in BOOLEAN /\ fate' \in [Messages -> Fates]
    <2>1. fate' \in [Messages -> Fates]
      BY <1>b, <1>c, FatesTyped DEF StopActivity, TypeOK
    <2>2. caught' \in BOOLEAN
      <3>1. CASE phase # "idle" /\ ~Aborted
        BY <1>c, <3>1 DEF StopActivity, Abort, TurnIsOver, OwesNothing, TypeOK
      <3>2. CASE ~(phase # "idle" /\ ~Aborted)
        BY <1>c, <3>2 DEF StopActivity, Abort, TypeOK
      <3>3. QED
        BY <3>1, <3>2
    <2>3. QED
      BY <1>c, <2>1, <2>2 DEF StopActivity, Abort, TypeOK
  <1>d. ClearNextStep \/ ClearNextTurn =>
          /\ nextTurn' \in Seq(Messages) /\ nextStep' \in Seq(Messages)
          /\ fate' \in [Messages -> Fates]
    <2>1. <<>> \in Seq(Messages)
      BY EmptySeq
    <2>2. QED
      BY <1>b, <2>1, FatesTyped DEF ClearNextStep, ClearNextTurn, TypeOK
  <1>e. ToSet(nextTurn) \subseteq Messages
    BY DEF ToSet, TypeOK
  <1>1. CASE WakeDriver
    <2>1. Head(calls) \in Call /\ Head(calls).op = "send"
      BY <1>1, TailElements DEF WakeDriver, InCall, TypeOK
    <2>2. Head(calls).message \in Messages
      BY <2>1 DEF Call, Kick
    <2>3. fate' \in [Messages -> Fates]
      BY <1>1, <1>b, FatesTyped DEF WakeDriver
    <2>4. wakeRequested' \in BOOLEAN /\ caught' \in BOOLEAN
      BY <1>1 DEF WakeDriver, StartDriver, TypeOK
    <2>5. calls' \in Seq(Call)
      BY <1>1, <1>a, CallsTyped DEF WakeDriver, InCall
    <2>6. lastExit' \in {"none", "drained", "gaveUp"} /\ abort' \in Cause \cup {"none"}
      BY <1>1 DEF WakeDriver, StartDriver, TypeOK
    <2>7. QED
      BY <1>1, <2>3, <2>4, <2>5, <2>6
      DEF WakeDriver, StartDriver, TypeOK, Phases, Points
  <1>2. CASE Cancel \/ Dispose
    <2>1. PICK cause \in Cause : CancelClearing(cause)
      BY <1>2 DEF Cancel, Dispose, Cause
    <2>2. calls' \in Seq(Call)
      BY <1>a, <2>1, CallsTyped DEF CancelClearing, TypeOK
    <2>3. cancelled' \subseteq Messages
      BY <1>e, <2>1 DEF CancelClearing, TypeOK
    <2>4. /\ nextTurn' \in Seq(Messages) /\ nextStep' \in Seq(Messages)
          /\ fate' \in [Messages -> Fates]
          /\ abort' \in Cause \cup {"none"} /\ caught' \in BOOLEAN
          /\ wakeRequested' \in BOOLEAN
      BY <1>c, <1>d, <2>1 DEF CancelClearing, TypeOK
    <2>5. owner' \in {"live", "disposing", "detached", "released"}
      BY <1>2 DEF Cancel, Dispose, TypeOK
    <2>6. QED
      BY <2>1, <2>2, <2>3, <2>4, <2>5 DEF CancelClearing, TypeOK
  <1>f. CASE CancelGoesOn
    <2>1. Head(calls) \in Call /\ Head(calls).op = "cancel"
      BY <1>f, TailElements DEF CancelGoesOn, InCall, TypeOK
    <2>2. Head(calls).cause \in Cause
      BY <2>1 DEF Call, Kick
    <2>3. calls' \in Seq(Call)
      BY <1>f, <1>a, <2>2, CallsTyped DEF CancelGoesOn, InCall
    <2>4. cancelled' \subseteq Messages
      BY <1>f DEF CancelGoesOn, TypeOK
    <2>5. /\ nextTurn' \in Seq(Messages) /\ nextStep' \in Seq(Messages)
          /\ fate' \in [Messages -> Fates]
          /\ abort' \in Cause \cup {"none"} /\ caught' \in BOOLEAN
          /\ wakeRequested' \in BOOLEAN
      BY <1>c, <1>d, <1>f, <2>2 DEF CancelGoesOn, TypeOK
    <2>6. QED
      BY <1>f, <2>3, <2>4, <2>5 DEF CancelGoesOn, TypeOK
  <1>g. CASE CancelKeepingInbox
    <2>1. caught' \in BOOLEAN
      <3>1. CASE phase # "idle" /\ ~Aborted
        BY <1>g, <3>1 DEF CancelKeepingInbox, Abort, TurnIsOver, OwesNothing, TypeOK
      <3>2. CASE ~(phase # "idle" /\ ~Aborted)
        BY <1>g, <3>2 DEF CancelKeepingInbox, Abort, TypeOK
      <3>3. QED
        BY <3>1, <3>2
    <2>2. abort' \in Cause \cup {"none"}
      BY <1>g DEF CancelKeepingInbox, Abort, Cause, TypeOK
    <2>3. QED
      BY <1>g, <2>1, <2>2 DEF CancelKeepingInbox, TypeOK
  <1>h. CASE ReplayWake
    <2>1. fate' \in [Messages -> Fates]
      BY <1>h, <1>b, FatesTyped DEF ReplayWake, ServesQueued, TypeOK
    <2>2. wakeRequested' \in BOOLEAN /\ caught' \in BOOLEAN
      BY <1>h DEF ReplayWake, StartDriver, TypeOK
    <2>3. calls' \in Seq(Call)
      BY <1>h, <1>a, CallsTyped DEF ReplayWake, TypeOK
    <2>4. lastExit' \in {"none", "drained", "gaveUp"} /\ abort' \in Cause \cup {"none"}
      BY <1>h DEF ReplayWake, StartDriver, TypeOK
    <2>5. phase' \in Phases /\ pc' \in Points /\ (pc' = "none" <=> phase' # "running")
      BY <1>h DEF ReplayWake, StartDriver, TypeOK, Phases, Points
    <2>6. (step' = 0 \/ step' = step) /\ turn' = turn
      <3>1. CASE phase = "idle" /\ Pending
        BY <1>h, <3>1 DEF ReplayWake, StartDriver
      <3>2. CASE ~(phase = "idle" /\ Pending)
        BY <1>h, <3>2 DEF ReplayWake
      <3>3. QED
        BY <3>1, <3>2
    <2>r. replaying' \in BOOLEAN
      BY <1>h DEF ReplayWake
    <2>7. UNCHANGED <<target, ends, nextTurn, nextStep, proposed, context, stepResult, partial,
                      snapshot, trace, fenced, owner, cancelled>>
      BY <1>h DEF ReplayWake, StartDriver
    <2>8. QED
      BY <2>1, <2>2, <2>3, <2>4, <2>5, <2>6, <2>r, <2>7 DEF TypeOK
  <1>3. CASE DisposeRefused \/ Release
    BY <1>3 DEF DisposeRefused, Release, TypeOK
  <1>4. CASE TurnAbandoned
    BY <1>4, CallsTyped DEF TurnAbandoned, LeaveLoop, TypeOK, Points
  <1>5. CASE OpenTurn
    <2>1. trace' \in Traces({})
      BY <1>5, <1>0, TraceTypes DEF OpenTurn, TypeOK
    <2>2. turn' \in Nat
      BY <1>5, <1>0 DEF OpenTurn
    <2>3. QED
      BY <1>5, <2>1, <2>2 DEF OpenTurn, TypeOK, Points, Endings
  <1>6. CASE BeginPreStep
    <2>1. nextTurn' \in Seq(Messages) /\ nextStep' \in Seq(Messages)
      BY <1>6 DEF BeginPreStep, Claim, TakesPrompt, TypeOK
    <2>2. Batch \subseteq Messages
      BY <1>6 DEF TypeOK, Batch, TakesPrompt, ToSet
    <2>3. fate' \in [Messages -> Fates] /\ calls' \in Seq(Call)
      BY <1>6, <1>b, FatesTyped, CallsTyped DEF BeginPreStep, Claim
    <2>4. QED
      BY <1>6, <2>1, <2>2, <2>3 DEF BeginPreStep, Claim, TypeOK, Points
  <1>7. CASE SkipStep \/ BoundaryAborted
    <2>1. snapshot' \in Nat
      BY <1>7, <1>0 DEF SkipStep, BoundaryAborted, Throw, TypeOK
    <2>2. QED
      BY <1>7, <2>1 DEF SkipStep, BoundaryAborted, Throw, TypeOK, Points, Endings
  <1>8. CASE ContextPrepared
    BY <1>8, <1>0 DEF ContextPrepared, TypeOK, Points
  <1>9. CASE PreStepThrows \/ PreStepRejects
    <2>1. fate' \in [Messages -> Fates]
      BY <1>9, <1>b, FatesTyped DEF PreStepThrows, PreStepRejects, DropClaimed
    <2>2. snapshot' \in Nat
      BY <1>9, <1>0 DEF PreStepThrows, Throw, PreStepRejects, TypeOK
    <2>3. QED
      BY <1>9, <2>1, <2>2
      DEF PreStepThrows, Throw, PreStepRejects, TypeOK, Points, Endings
  <1>10. ASSUME NEW kept \in SUBSET proposed, NEW extended \in BOOLEAN, PreStepEnters(kept,
                extended)
        PROVE  TypeOK'
    <2>1. fate' \in [Messages -> Fates]
      BY <1>10, <1>b, FatesTyped DEF PreStepEnters, DropClaimed
    <2>2. QED
      BY <1>10, <2>1 DEF PreStepEnters, TypeOK, Points
  <1>11. CASE DecidedAborted
    <2>1. fate' \in [Messages -> Fates]
      BY <1>11, <1>b, FatesTyped DEF DecidedAborted, DropClaimed
    <2>2. snapshot' \in Nat
      BY <1>11, <1>0 DEF DecidedAborted
    <2>3. context' \in BOOLEAN
      BY <1>11 DEF DecidedAborted
    <2>4. QED
      BY <1>11, <2>1, <2>2, <2>3 DEF DecidedAborted, Throw, TypeOK, Points, Endings
  <1>12. CASE EnterStep
    <2>1. fate' \in [Messages -> Fates]
      BY <1>12, <1>b, FatesTyped DEF EnterStep
    <2>2. step' \in Nat
      BY <1>12, <1>0 DEF EnterStep
    <2>3. context' \in BOOLEAN
      BY <1>12 DEF EnterStep
    <2>4. trace' \in Traces({})
      BY <1>12, <1>0, TraceTypes DEF EnterStep, TypeOK
    <2>5. QED
      BY <1>12, <2>1, <2>2, <2>3, <2>4 DEF EnterStep, TypeOK, Points
  <1>13. CASE EndStep
    <2>1. trace' \in Traces({})
      BY <1>13, TraceTypes DEF EndStep, TypeOK
    <2>2. ends' \in Endings
      BY <1>13 DEF EndStep, Throw, StepEnding, Endings, TypeOK
    <2>3. QED
      BY <1>13, <2>1, <2>2 DEF EndStep, Throw, TypeOK, Points
  <1>14. CASE StoppingSettles
    BY <1>14 DEF StoppingSettles, Throw, TypeOK, Points, Endings
  <1>15. CASE CloseTurn
    <2>1. trace' \in Traces({})
      BY <1>15, TraceTypes DEF CloseTurn, TypeOK
    <2>2. fate' \in [Messages -> Fates] /\ calls' \in Seq(Call)
      BY <1>15, <1>b, FatesTyped, CallsTyped DEF CloseTurn, ServesQueued, LeaveLoop, TypeOK
    <2>3. wakeRequested' \in BOOLEAN
      BY <1>15 DEF CloseTurn, TypeOK
    <2>4. abort' \in Cause \cup {"none"}
      BY <1>15 DEF CloseTurn, TypeOK
    <2>5. lastExit' \in {"none", "drained", "gaveUp"}
      BY <1>15 DEF CloseTurn, LeaveLoop, TypeOK
    <2>6. QED
      BY <1>15, <2>1, <2>2, <2>3, <2>4, <2>5 DEF CloseTurn, LeaveLoop, TypeOK, Points
  <1>16. CASE AppendRefused
    <2>1. fate' \in [Messages -> Fates] /\ calls' \in Seq(Call)
      BY <1>16, <1>b, FatesTyped, CallsTyped DEF AppendRefused, LeaveLoop, DropClaimed
    <2>2. context' \in BOOLEAN /\ partial' \in BOOLEAN
      BY <1>16 DEF AppendRefused
    <2>3. QED
      BY <1>16, <2>1, <2>2 DEF AppendRefused, LeaveLoop, Appending, TypeOK, Points
  <1>17. CASE ExitDriver
    <2>1. replaying' \in BOOLEAN
      BY <1>17 DEF ExitDriver, TypeOK
    <2>2. phase' = "idle" /\ pc' = "none" /\ abort' = "none" /\ cancelled' = {}
      BY <1>17 DEF ExitDriver
    <2>3. wakeRequested' = FALSE /\ caught' = FALSE
      BY <1>17 DEF ExitDriver
    <2>4. QED
      BY <1>17, <2>1, <2>2, <2>3 DEF ExitDriver, TypeOK, Points, Phases
  <1>i. CASE MaintenanceSettles
    <2>1. fate' \in [Messages -> Fates] /\ calls' \in Seq(Call)
      BY <1>i, <1>a, <1>b, FatesTyped, CallsTyped DEF MaintenanceSettles, ServesQueued, TypeOK
    <2>2. wakeRequested' \in BOOLEAN /\ caught' \in BOOLEAN
      BY <1>i DEF MaintenanceSettles, StartDriver, TypeOK
    <2>3. lastExit' \in {"none", "drained", "gaveUp"} /\ abort' \in Cause \cup {"none"}
      BY <1>i DEF MaintenanceSettles, StartDriver, TypeOK
    <2>4. QED
      BY <1>i, <2>1, <2>2, <2>3 DEF MaintenanceSettles, StartDriver, TypeOK, Points, Phases
  <1>18. CASE RequestBuilt
    <2>1. trace' \in Traces({})
      BY <1>18, TraceTypes DEF RequestBuilt, TypeOK
    <2>2. partial' \in BOOLEAN
      BY <1>18 DEF RequestBuilt
    <2>3. QED
      BY <1>18, <2>1, <2>2 DEF RequestBuilt, TypeOK, Points
  <1>19. CASE RequestFails \/ RequestErrorThrown \/ ToolsThrow
    <2>1. snapshot' \in Nat
      BY <1>19, <1>0 DEF RequestFails, StepSettles, RequestErrorThrown, ToolsThrow, TypeOK
    <2>2. partial' \in BOOLEAN
      BY <1>19 DEF RequestFails, StepSettles, RequestErrorThrown, ToolsThrow, TypeOK
    <2>3. QED
      BY <1>19, <2>1, <2>2
      DEF RequestFails, StepSettles, RequestErrorThrown, ToolsThrow, TypeOK, Points
  <1>20. CASE Chunk
    <2>1. trace' \in Traces({})
      BY <1>20, TraceTypes DEF Chunk, TypeOK
    <2>2. partial' \in BOOLEAN
      BY <1>20 DEF Chunk
    <2>3. QED
      BY <1>20, <2>1, <2>2 DEF Chunk, TypeOK, Points
  <1>21. CASE StreamBreaks
    <2>1. trace' \in Traces({})
      BY <1>21, TraceTypes DEF StreamBreaks, TypeOK
    <2>2. snapshot' \in Nat
      BY <1>21, <1>0 DEF StreamBreaks, StepSettles
    <2>3. partial' \in BOOLEAN
      BY <1>21 DEF StreamBreaks, StepSettles
    <2>4. QED
      BY <1>21, <2>1, <2>2, <2>3 DEF StreamBreaks, StepSettles, TypeOK, Points
  <1>22. CASE ProviderFails \/ RetryRequest
    BY <1>22 DEF ProviderFails, RetryRequest, TypeOK, Points
  <1>23. CASE AnswerCallsTools
    <2>1. trace' \in Traces({})
      BY <1>23, TraceTypes DEF AnswerCallsTools, Answer, TypeOK
    <2>2. QED
      BY <1>23, <2>1 DEF AnswerCallsTools, Answer, TypeOK, Points
  <1>24. ASSUME NEW result \in {"completed", "max-tokens"}, AnswerEndsStep(result)
        PROVE  TypeOK'
    <2>1. trace' \in Traces({})
      BY <1>24, TraceTypes DEF AnswerEndsStep, Answer, TypeOK
    <2>2. snapshot' \in Nat
      BY <1>24, <1>0 DEF AnswerEndsStep, Answer, StepSettles
    <2>3. partial' \in BOOLEAN
      BY <1>24 DEF AnswerEndsStep, StepSettles
    <2>4. QED
      BY <1>24, <2>1, <2>2, <2>3 DEF AnswerEndsStep, Answer, StepSettles, TypeOK, Points
  <1>25. ASSUME NEW concluded \in BOOLEAN, ToolsReturn(concluded)
        PROVE  TypeOK'
    <2>1. snapshot' \in Nat
      BY <1>25, <1>0 DEF ToolsReturn, StepSettles
    <2>2. partial' \in BOOLEAN
      BY <1>25 DEF ToolsReturn, StepSettles
    <2>3. QED
      BY <1>25, <2>1, <2>2 DEF ToolsReturn, StepSettles, TypeOK, Points
  <1>26. ASSUME NEW m \in Messages, NEW list, NEW wakeup, Send(m, list, wakeup)
        PROVE  TypeOK'
    <2>1. fate' \in [Messages -> Fates]
      BY <1>26, <1>b, FatesTyped DEF Send
    <2>2. nextTurn' \in Seq(Messages) /\ nextStep' \in Seq(Messages)
      <3>1. CASE nextTurn' = Append(nextTurn, m) /\ nextStep' = nextStep
        BY <3>1, AppendElements DEF TypeOK
      <3>2. CASE nextStep' = Append(nextStep, m) /\ nextTurn' = nextTurn
        BY <3>2, AppendElements DEF TypeOK
      <3>3. QED
        BY <1>26, <3>1, <3>2 DEF Send, Insert
    <2>3. calls' \in Seq(Call)
      <3>1. (wakeup /\ phase # "idle" /\ Aborted) \in BOOLEAN
        OBVIOUS
      <3>2. QED
        BY <1>26, <1>a, <3>1, CallsTyped DEF Send, TypeOK
    <2>4. QED
      BY <1>26, <2>1, <2>2, <2>3 DEF Send, TypeOK
  <1>27. ASSUME NEW m \in Messages, AcceptContext(m)
        PROVE  TypeOK'
    <2>1. fate' \in [Messages -> Fates]
      BY <1>27, <1>b, FatesTyped DEF AcceptContext
    <2>2. nextTurn' \in Seq(Messages) /\ nextStep' \in Seq(Messages)
      <3>1. CASE nextTurn' = Append(nextTurn, m) /\ nextStep' = nextStep
        BY <3>1, AppendElements DEF TypeOK
      <3>2. CASE nextStep' = Append(nextStep, m) /\ nextTurn' = nextTurn
        BY <3>2, AppendElements DEF TypeOK
      <3>3. QED
        BY <1>27, <3>1, <3>2 DEF AcceptContext, Insert
    <2>3. QED
      BY <1>27, <2>1, <2>2 DEF AcceptContext, TypeOK
  <1>28. ASSUME NEW m \in Messages, RemoveMessage(m)
        PROVE  TypeOK'
    <2>1. fate' \in [Messages -> Fates]
      BY <1>28, <1>b, FatesTyped DEF RemoveMessage
    <2>2. nextTurn' \in Seq(Messages) /\ nextStep' \in Seq(Messages)
      <3>1. ASSUME NEW i \in 1..Len(nextTurn), nextTurn' = RemoveAt(nextTurn, i),
                   nextStep' = nextStep
            PROVE  nextTurn' \in Seq(Messages) /\ nextStep' \in Seq(Messages)
        BY <3>1, RemoveAtElements DEF TypeOK
      <3>2. ASSUME NEW i \in 1..Len(nextStep), nextStep' = RemoveAt(nextStep, i),
                   nextTurn' = nextTurn
            PROVE  nextTurn' \in Seq(Messages) /\ nextStep' \in Seq(Messages)
        BY <3>2, RemoveAtElements DEF TypeOK
      <3>3. QED
        BY <1>28, <3>1, <3>2 DEF RemoveMessage
    <2>3. QED
      BY <1>28, <2>1, <2>2 DEF RemoveMessage, TypeOK
  <1>30. CASE LoseOwnership
    <2>1. fenced' \in BOOLEAN
      BY <1>30 DEF LoseOwnership
    <2>2. QED
      BY <1>30, <2>1 DEF LoseOwnership, TypeOK
  <1>31. CASE RunMaintenance
    <2>1. wakeRequested' \in BOOLEAN
      BY <1>31 DEF RunMaintenance
    <2>2. QED
      BY <1>31, <2>1 DEF RunMaintenance, TypeOK, Phases
  <1>32. CASE UNCHANGED vars
    BY <1>32 DEF vars, TypeOK
  <1>33. QED
    BY NextCases, <1>1, <1>2, <1>f, <1>g, <1>h, <1>3, <1>4, <1>5, <1>6, <1>7, <1>8, <1>9,
       <1>10, <1>11, <1>12, <1>13, <1>14, <1>15, <1>16, <1>17, <1>i, <1>18, <1>19, <1>20,
       <1>21, <1>22, <1>23, <1>24, <1>25, <1>26, <1>27, <1>28, <1>30, <1>31, <1>32
    DEF QuietCaller, QuietTurn, SettlesClaim, Step, Submits

\* Every path through preStep() and step() releases the snapshot it captured.
LEMMA SnapshotStep ==
  ASSUME TypeOK, SnapshotReleased, [Next]_vars
  PROVE  SnapshotReleased'
  <1> USE DEF inboxVars, phaseVars, stepVars, logVars, history, callVars
  <1>1. CASE Cancel \/ Dispose \/ CancelGoesOn
    BY <1>1, CancelCases DEF CancelStep, SnapshotReleased
  <1>2. CASE CancelKeepingInbox \/ DisposeRefused \/ Release \/ LoseOwnership \/ UNCHANGED vars
    BY <1>2
    DEF CancelKeepingInbox, DisposeRefused, Release, LoseOwnership, vars, SnapshotReleased
  <1>3. ASSUME NEW m \in Messages, NEW list, NEW wakeup, Send(m, list, wakeup)
        PROVE  SnapshotReleased'
    BY <1>3 DEF Send, SnapshotReleased
  <1>4. ASSUME NEW m \in Messages, AcceptContext(m)
        PROVE  SnapshotReleased'
    BY <1>4 DEF AcceptContext, SnapshotReleased
  <1>5. ASSUME NEW m \in Messages, RemoveMessage(m)
        PROVE  SnapshotReleased'
    BY <1>5 DEF RemoveMessage, SnapshotReleased
  <1>6. CASE WakeDriver \/ ReplayWake \/ RunMaintenance
    BY <1>6 DEF WakeDriver, ReplayWake, StartDriver, TypeOK, RunMaintenance, SnapshotReleased
  <1>7. CASE ExitDriver \/ MaintenanceSettles
    BY <1>7 DEF ExitDriver, StartDriver, MaintenanceSettles, TypeOK, SnapshotReleased
  <1>8. CASE TurnAbandoned
    BY <1>8 DEF TurnAbandoned, LeaveLoop, SnapshotReleased
  <1>9. CASE OpenTurn
    BY <1>9 DEF OpenTurn, SnapshotReleased
  <1>10. CASE BoundaryAborted \/ BeginPreStep \/ ContextPrepared
    BY <1>10
    DEF BoundaryAborted, Throw, BeginPreStep, Claim, ContextPrepared, SnapshotReleased
  <1>11. CASE SkipStep \/ PreStepThrows \/ PreStepRejects \/ DecidedAborted
    BY <1>11
    DEF SkipStep, PreStepThrows, Throw, PreStepRejects, DecidedAborted, SnapshotReleased
  <1>12. ASSUME NEW kept \in SUBSET proposed, NEW extended \in BOOLEAN, PreStepEnters(kept,
                extended)
        PROVE  SnapshotReleased'
    BY <1>12 DEF PreStepEnters, SnapshotReleased
  <1>13. CASE EnterStep
    BY <1>13 DEF EnterStep, SnapshotReleased
  <1>14. CASE EndStep
    BY <1>14 DEF EndStep, StepEnding, Throw, SnapshotReleased
  <1>15. CASE StoppingSettles
    BY <1>15 DEF StoppingSettles, Throw, SnapshotReleased
  <1>16. CASE CloseTurn
    BY <1>16 DEF CloseTurn, LeaveLoop, SnapshotReleased
  <1>17. CASE AppendRefused
    BY <1>17 DEF AppendRefused, LeaveLoop, SnapshotReleased
  <1>18. CASE RequestBuilt
    BY <1>18 DEF RequestBuilt, SnapshotReleased
  <1>19. CASE Chunk
    BY <1>19 DEF Chunk, SnapshotReleased
  <1>20. CASE StreamBreaks
    BY <1>20 DEF StreamBreaks, StepSettles, SnapshotReleased
  <1>21. CASE ProviderFails \/ RetryRequest
    BY <1>21 DEF ProviderFails, RetryRequest, SnapshotReleased
  <1>22. CASE RequestFails \/ RequestErrorThrown \/ ToolsThrow
    BY <1>22 DEF RequestFails, StepSettles, RequestErrorThrown, ToolsThrow, SnapshotReleased
  <1>23. CASE AnswerCallsTools
    BY <1>23 DEF AnswerCallsTools, Answer, SnapshotReleased
  <1>24. ASSUME NEW result \in {"completed", "max-tokens"}, AnswerEndsStep(result)
        PROVE  SnapshotReleased'
    BY <1>24 DEF AnswerEndsStep, Answer, StepSettles, SnapshotReleased
  <1>25. ASSUME NEW concluded \in BOOLEAN, ToolsReturn(concluded)
        PROVE  SnapshotReleased'
    BY <1>25 DEF ToolsReturn, StepSettles, SnapshotReleased
  <1>26. QED
    BY NextCases, <1>1, <1>2, <1>3, <1>4, <1>5, <1>6, <1>7, <1>8, <1>9, <1>10, <1>11, <1>12,
       <1>13, <1>14, <1>15, <1>16, <1>17, <1>18, <1>19, <1>20, <1>21, <1>22, <1>23, <1>24, <1>25
    DEF QuietCaller, QuietTurn, SettlesClaim, Step, Submits

-----------------------------------------------------------------------------
(* The inbox. *)

\* No message is pending twice.
DistinctLists ==
  IsInjective(nextTurn) /\ IsInjective(nextStep) /\ ToSet(nextTurn) \cap ToSet(nextStep) = {}

\* An insertion.
LEMMA InsertElements ==
  ASSUME TypeOK, QueueMatchesFate, NEW m \in Messages, m \notin Queued,
         NEW list, Insert(m, list)
  PROVE  DistinctLists' /\ Queued' = Queued \cup {m}
  <1>1. CASE nextTurn' = Append(nextTurn, m) /\ nextStep' = nextStep
    <2>1. IsInjective(nextTurn') /\ ToSet(nextTurn') = ToSet(nextTurn) \cup {m}
      BY <1>1, AppendElements DEF QueueMatchesFate, Queued, TypeOK
    <2>2. QED
      BY <1>1, <2>1 DEF QueueMatchesFate, DistinctLists, Queued
  <1>2. CASE nextStep' = Append(nextStep, m) /\ nextTurn' = nextTurn
    <2>1. IsInjective(nextStep') /\ ToSet(nextStep') = ToSet(nextStep) \cup {m}
      BY <1>2, AppendElements DEF QueueMatchesFate, Queued, TypeOK
    <2>2. QED
      BY <1>2, <2>1 DEF QueueMatchesFate, DistinctLists, Queued
  <1>3. QED
    BY <1>1, <1>2 DEF Insert

\* A removal by a caller.
LEMMA RemoveElements ==
  ASSUME TypeOK, QueueMatchesFate, NEW m \in Messages, RemoveMessage(m)
  PROVE  DistinctLists' /\ m \in Queued /\ Queued' = Queued \ {m}
  <1>1. ASSUME NEW i \in 1..Len(nextTurn), nextTurn[i] = m,
               nextTurn' = RemoveAt(nextTurn, i), nextStep' = nextStep
        PROVE  DistinctLists' /\ m \in Queued /\ Queued' = Queued \ {m}
    <2>1. m \in ToSet(nextTurn)
      BY <1>1 DEF ToSet, TypeOK
    <2>2. IsInjective(nextTurn') /\ ToSet(nextTurn') = ToSet(nextTurn) \ {m}
      BY <1>1, RemoveAtElements DEF QueueMatchesFate, TypeOK
    <2>3. QED
      BY <1>1, <2>1, <2>2 DEF QueueMatchesFate, DistinctLists, Queued
  <1>2. ASSUME NEW i \in 1..Len(nextStep), nextStep[i] = m,
               nextStep' = RemoveAt(nextStep, i), nextTurn' = nextTurn
        PROVE  DistinctLists' /\ m \in Queued /\ Queued' = Queued \ {m}
    <2>1. m \in ToSet(nextStep)
      BY <1>2 DEF ToSet, TypeOK
    <2>2. IsInjective(nextStep') /\ ToSet(nextStep') = ToSet(nextStep) \ {m}
      BY <1>2, RemoveAtElements DEF QueueMatchesFate, TypeOK
    <2>3. QED
      BY <1>2, <2>1, <2>2 DEF QueueMatchesFate, DistinctLists, Queued
  <1>3. QED
    BY <1>1, <1>2 DEF RemoveMessage

\* A splice of a clear.
LEMMA ClearElements ==
  ASSUME TypeOK, QueueMatchesFate, ClearNextStep \/ ClearNextTurn
  PROVE  /\ DistinctLists' /\ Queued' \subseteq Queued
         /\ \A m \in Messages :
              fate'[m] = IF m \in Queued \ Queued' THEN "gone" ELSE fate[m]
  <1>1. ToSet(<<>>) = {} /\ IsInjective(<<>>)
    BY DEF ToSet, IsInjective
  <1>2. DistinctLists /\ Queued = ToSet(nextTurn) \cup ToSet(nextStep)
    BY DEF QueueMatchesFate, DistinctLists, Queued
  <1>3. CASE ClearNextStep
    <2>1. nextStep' = <<>> /\ nextTurn' = nextTurn
      BY <1>3 DEF ClearNextStep
    <2>2. Queued' = ToSet(nextTurn) /\ DistinctLists'
      BY <1>1, <1>2, <2>1 DEF Queued, DistinctLists
    <2>3. \A m \in Messages : fate'[m] = IF m \in ToSet(nextStep) THEN "gone" ELSE fate[m]
      BY <1>3 DEF ClearNextStep, Become
    <2>4. Queued \ Queued' = ToSet(nextStep)
      BY <1>2, <2>2 DEF DistinctLists
    <2>5. QED
      BY <1>2, <2>2, <2>3, <2>4
  <1>4. CASE ClearNextTurn
    <2>1. nextTurn' = <<>> /\ nextStep' = nextStep
      BY <1>4 DEF ClearNextTurn
    <2>2. Queued' = ToSet(nextStep) /\ DistinctLists'
      BY <1>1, <1>2, <2>1 DEF Queued, DistinctLists
    <2>3. \A m \in Messages : fate'[m] = IF m \in ToSet(nextTurn) THEN "gone" ELSE fate[m]
      BY <1>4 DEF ClearNextTurn, Become
    <2>4. Queued \ Queued' = ToSet(nextTurn)
      BY <1>2, <2>2 DEF DistinctLists
    <2>5. QED
      BY <1>2, <2>2, <2>3, <2>4
  <1>5. QED
    BY <1>3, <1>4

\* A claim.
LEMMA ClaimElements ==
  ASSUME TypeOK, QueueMatchesFate, Claim
  PROVE  DistinctLists' /\ Batch \subseteq Queued /\ Queued' = Queued \ Batch
  <1>1. ToSet(nextStep') = {} /\ IsInjective(nextStep')
    BY DEF Claim, ToSet, IsInjective
  <1>2. CASE TakesPrompt
    <2>1. nextTurn # <<>> /\ nextTurn' = Tail(nextTurn) /\ nextTurn \in Seq(Messages)
      BY <1>2 DEF Claim, TakesPrompt, TypeOK
    <2>2. /\ ToSet(nextTurn) = {Head(nextTurn)} \cup ToSet(nextTurn')
          /\ IsInjective(nextTurn') /\ Head(nextTurn) \notin ToSet(nextTurn')
      BY <2>1, TailElements DEF QueueMatchesFate
    <2>3. QED
      BY <1>1, <1>2, <2>2 DEF Batch, Queued, QueueMatchesFate, DistinctLists
  <1>3. CASE ~TakesPrompt
    <2>1. nextTurn' = nextTurn
      BY <1>3 DEF Claim
    <2>2. QED
      BY <1>1, <1>3, <2>1 DEF Batch, Queued, QueueMatchesFate, DistinctLists
  <1>4. QED
    BY <1>2, <1>3

\* The inbox holds messages.
LEMMA QueuedMessages == TypeOK => Queued \subseteq Messages
  BY DEF TypeOK, Queued, ToSet

\* An inbox that is not pending is empty.
LEMMA NotPending == TypeOK /\ ~Pending => Queued = {}
  BY DEF TypeOK, Pending, Queued, ToSet

\* What waits keeps waiting.
LEMMA RelabelKeepsQueue ==
  ASSUME TypeOK, QueueMatchesFate, RelabelsQueued
  PROVE  /\ QueueMatchesFate'
         /\ \A m \in proposed : m \notin Queued => fate'[m] = fate[m]
  BY DEF RelabelsQueued, QueueMatchesFate, Queued, TypeOK, inboxVars

\* Inserts, removals, claims and clears keep the lists and the fates in step.
LEMMA QueueStep ==
  ASSUME TypeOK, QueueMatchesFate, ProposedClaimed, [Next]_vars
  PROVE  QueueMatchesFate' /\ ProposedClaimed'
  <1> USE DEF inboxVars, phaseVars, stepVars, logVars, history, callVars
  <1>0. \A m \in proposed : m \in Messages /\ m \notin Queued
    BY DEF QueueMatchesFate, ProposedClaimed, Waiting, TypeOK
  <1>a. ASSUME RelabelsQueued, proposed # {} => pc' \in {"context", "assembling", "decided"}
        PROVE  QueueMatchesFate' /\ ProposedClaimed'
    <2>1. QueueMatchesFate' /\ \A m \in proposed : fate'[m] = fate[m]
      BY <1>0, <1>a, RelabelKeepsQueue
    <2>2. QED
      BY <1>a, <2>1 DEF RelabelsQueued, ProposedClaimed
  <1>1. CASE WakeDriver
    <2>1. proposed # {} => phase = "running"
      BY DEF ProposedClaimed, TypeOK
    <2>2. proposed # {} => pc' = pc
      BY <1>1, <2>1 DEF WakeDriver
    <2>3. QED
      BY <1>1, <1>a, <2>2, WakesRelabel DEF ProposedClaimed
  <1>2. CASE Cancel \/ Dispose \/ CancelGoesOn
    <2>1. CancelStep
      BY <1>2, CancelCases
    <2>2. CASE ClearNextStep \/ ClearNextTurn
      <3>1. /\ DistinctLists' /\ Queued' \subseteq Queued
            /\ \A m \in Messages : fate'[m] = IF m \in Queued \ Queued' THEN "gone" ELSE fate[m]
        BY <2>2, ClearElements
      <3>2. \A m \in Messages : fate'[m] \in Waiting <=> m \in Queued'
        BY <3>1 DEF QueueMatchesFate, Waiting
      <3>3. proposed' = proposed /\ pc' = pc
        BY <2>1 DEF CancelStep
      <3>4. QED
        BY <1>0, <3>1, <3>2, <3>3 DEF QueueMatchesFate, ProposedClaimed, DistinctLists
    <2>3. CASE \E cause \in Cause : StopActivity(cause) /\ UNCHANGED <<inboxVars, proposed>>
      <3>1. RelabelsQueued
        BY <2>3, WakesRelabel
      <3>2. QED
        BY <1>a, <2>1, <3>1 DEF CancelStep, ProposedClaimed
    <2>4. QED
      BY <2>1, <2>2, <2>3 DEF CancelStep
  <1>3. CASE CancelKeepingInbox
    BY <1>3 DEF CancelKeepingInbox, QueueMatchesFate, ProposedClaimed, Queued
  <1>4. CASE QuietCaller
    BY <1>4, QuietCallerFrame DEF QueueMatchesFate, ProposedClaimed, Queued
  <1>5. ASSUME NEW m \in Messages, NEW list, NEW wakeup, Send(m, list, wakeup)
        PROVE  QueueMatchesFate' /\ ProposedClaimed'
    <2>1. fate[m] = "unsent" /\ m \notin Queued /\ m \notin proposed
      BY <1>5 DEF Send, QueueMatchesFate, ProposedClaimed, Waiting
    <2>2. fate' = [fate EXCEPT ![m] = "queued"] /\ proposed' = proposed /\ pc' = pc
      BY <1>5 DEF Send
    <2>3. DistinctLists' /\ Queued' = Queued \cup {m}
      BY <1>5, <2>1, InsertElements DEF Send
    <2>4. QED
      BY <1>0, <2>1, <2>2, <2>3 DEF QueueMatchesFate, ProposedClaimed, DistinctLists, TypeOK, Waiting
  <1>6. ASSUME NEW m \in Messages, AcceptContext(m)
        PROVE  QueueMatchesFate' /\ ProposedClaimed'
    <2>1. fate[m] = "unsent" /\ m \notin Queued /\ m \notin proposed
      BY <1>6 DEF AcceptContext, QueueMatchesFate, ProposedClaimed, Waiting
    <2>2. fate' = [fate EXCEPT ![m] = "queued"] /\ proposed' = proposed /\ pc' = pc
      BY <1>6 DEF AcceptContext
    <2>3. DistinctLists' /\ Queued' = Queued \cup {m}
      BY <1>6, <2>1, InsertElements DEF AcceptContext
    <2>4. QED
      BY <1>0, <2>1, <2>2, <2>3 DEF QueueMatchesFate, ProposedClaimed, DistinctLists, TypeOK, Waiting
  <1>7. ASSUME NEW m \in Messages, RemoveMessage(m)
        PROVE  QueueMatchesFate' /\ ProposedClaimed'
    <2>1. fate' = [fate EXCEPT ![m] = "gone"] /\ proposed' = proposed /\ pc' = pc
      BY <1>7 DEF RemoveMessage
    <2>2. DistinctLists' /\ m \in Queued /\ Queued' = Queued \ {m}
      BY <1>7, RemoveElements
    <2>3. QED
      BY <1>0, <2>1, <2>2 DEF QueueMatchesFate, ProposedClaimed, DistinctLists, TypeOK, Waiting
  <1>8. CASE RunMaintenance
    BY <1>8 DEF RunMaintenance, QueueMatchesFate, ProposedClaimed, Queued
  <1>9. CASE MaintenanceSettles
    <2>1. proposed = {}
      BY <1>9 DEF MaintenanceSettles, ProposedClaimed, TypeOK
    <2>2. QED
      BY <1>9, <1>a, <2>1, WakesRelabel
  <1>b. CASE ReplayWake
    <2>1. phase = "idle" => proposed = {}
      BY DEF ProposedClaimed, TypeOK
    <2>2. phase # "idle" => pc' = pc
      BY <1>b DEF ReplayWake
    <2>3. QED
      BY <1>b, <1>a, <2>1, <2>2, WakesRelabel DEF ProposedClaimed
  <1>10. CASE ExitDriver
    BY <1>10 DEF ExitDriver, QueueMatchesFate, ProposedClaimed, Queued
  <1>11. CASE QuietTurn
    <2>1. UNCHANGED <<inboxVars, proposed, fate>>
      BY <1>11, QuietTurnFrame
    <2>2. proposed # {} => pc' \in {"context", "assembling", "decided"}
      <3>1. CASE ContextPrepared
        BY <3>1 DEF ContextPrepared
      <3>2. CASE SkipStep
        BY <3>2 DEF SkipStep, OwesNothing
      <3>3. CASE TurnAbandoned \/ OpenTurn \/ BoundaryAborted
        BY <3>3 DEF TurnAbandoned, OpenTurn, BoundaryAborted, ProposedClaimed
      <3>4. CASE EndStep \/ StoppingSettles
        BY <3>4 DEF EndStep, StoppingSettles, ProposedClaimed
      <3>5. QED
        BY <1>11, <3>1, <3>2, <3>3, <3>4 DEF QuietTurn
    <2>3. QED
      BY <2>1, <2>2 DEF QueueMatchesFate, ProposedClaimed, Queued
  <1>12. CASE BeginPreStep
    <2>1. DistinctLists' /\ Batch \subseteq Queued /\ Queued' = Queued \ Batch
      BY <1>12, ClaimElements DEF BeginPreStep
    <2>2. /\ proposed' = Batch /\ pc' = "context"
          /\ \A m \in Messages : fate'[m] = IF m \in Batch THEN "claimed" ELSE fate[m]
      BY <1>12 DEF BeginPreStep, Claim, Become
    <2>3. Queued \subseteq Messages
      BY QueuedMessages
    <2>4. QED
      BY <2>1, <2>2, <2>3 DEF QueueMatchesFate, ProposedClaimed, DistinctLists, Waiting
  <1>13. CASE SettlesClaim
    <2>1. SettlesOnlyClaim
      BY <1>13, SettlesClaimFrame
    <2>2. \A m \in Messages : fate'[m] \in Waiting <=> fate[m] \in Waiting
      BY <2>1 DEF SettlesOnlyClaim, ProposedClaimed, Waiting
    <2>3. QueueMatchesFate'
      BY <2>1, <2>2 DEF SettlesOnlyClaim, QueueMatchesFate, Queued
    <2>4. \A m \in proposed' : fate'[m] = "claimed"
      BY <1>0, <2>1 DEF SettlesOnlyClaim, ProposedClaimed
    <2>5. QED
      BY <2>1, <2>3, <2>4 DEF SettlesOnlyClaim, ProposedClaimed
  <1>14. CASE CloseTurn
    <2>1. proposed = {}
      BY <1>14 DEF CloseTurn, ProposedClaimed
    <2>2. QED
      BY <1>14, <1>a, <2>1, WakesRelabel
  <1>15. CASE Step
    BY <1>15, StepFrame DEF StaysInStep, StepPoints, QueueMatchesFate, ProposedClaimed, Queued
  <1>16. QED
    BY NextCases, <1>1, <1>2, <1>3, <1>4, <1>5, <1>6, <1>7, <1>8, <1>b,
       <1>9, <1>10, <1>11, <1>12, <1>13, <1>14, <1>15 DEF Submits

-----------------------------------------------------------------------------
(* Wakes. *)

\* A latched message waits.
LEMMA LatchedQueued ==
  ASSUME TypeOK, QueueMatchesFate, NEW m \in Messages, fate[m] \in {"latched", "live"}
  PROVE  m \in Queued /\ Pending
  <1>1. m \in Queued
    BY DEF QueueMatchesFate, Waiting
  <1>2. QED
    BY <1>1, NotPending

\* The latch is dropped only where no message counts on it, where a driver takes
\* over the messages behind it, or where kick() has read it.
LEMMA LatchStep ==
  ASSUME TypeOK, QueueMatchesFate, LatchHeld, [Next]_vars
  PROVE  LatchHeld'
  <1> USE DEF inboxVars, phaseVars, stepVars, logVars, history, callVars
  <1>a. ASSUME \A m \in Messages : fate'[m] = "latched" => fate[m] = "latched",
               UNCHANGED <<phase, wakeRequested, replaying, abort>>
        PROVE  LatchHeld'
    BY <1>a DEF LatchHeld
  <1>b. ASSUME \A m \in Messages : fate'[m] # "latched", wakeRequested' = FALSE
        PROVE  LatchHeld'
    BY <1>b DEF LatchHeld
  <1>c. ServesQueued => \A m \in Messages : fate'[m] # "latched"
    BY LatchedQueued DEF ServesQueued, Become
  <1>1. CASE WakeDriver
    <2>1. CASE phase = "idle"
      <3>1. \A m \in Messages : fate'[m] # "latched"
        BY <1>1, <2>1, LatchedQueued DEF WakeDriver, Become
      <3>2. QED
        BY <1>1, <1>b, <2>1, <3>1 DEF WakeDriver, StartDriver
    <2>2. CASE phase # "idle" /\ Latches(Head(calls).afterAbort)
      <3>1. wakeRequested' = TRUE /\ abort # "disposed"
        BY <1>1, <2>2 DEF WakeDriver, Latches
      <3>2. UNCHANGED <<phase, abort>>
        BY <1>1, <2>2 DEF WakeDriver
      <3>3. QED
        BY <2>2, <3>1, <3>2 DEF LatchHeld
    <2>3. CASE phase # "idle" /\ ~Latches(Head(calls).afterAbort)
      <3>1. UNCHANGED <<phase, abort, replaying>>
        BY <1>1, <2>3 DEF WakeDriver
      <3>2. wakeRequested' = wakeRequested
        BY <1>1, <2>3 DEF WakeDriver, TypeOK
      <3>3. \A m \in Messages : fate'[m] = "latched" => fate[m] = "latched"
        BY <1>1, <2>3 DEF WakeDriver, Become
      <3>4. QED
        BY <1>a, <3>1, <3>2, <3>3
    <2>4. QED
      BY <2>1, <2>2, <2>3
  <1>2. CASE Cancel \/ Dispose \/ CancelGoesOn
    <2>1. CancelStep
      BY <1>2, CancelCases
    <2>2. CASE (ClearNextStep \/ ClearNextTurn) /\ UNCHANGED <<abort, caught, wakeRequested>>
      <3>1. \A m \in Messages : fate'[m] = "latched" => fate[m] = "latched"
        BY <2>2 DEF ClearNextStep, ClearNextTurn, Become
      <3>2. QED
        BY <1>a, <2>1, <2>2, <3>1 DEF CancelStep
    <2>3. ASSUME NEW cause \in Cause, StopActivity(cause)
          PROVE  LatchHeld'
      <3>1. CASE phase = "idle"
        <4>1. fate' = fate /\ abort' = abort /\ wakeRequested' = FALSE
          BY <2>3, <3>1 DEF StopActivity, Abort
        <4>2. QED
          BY <2>1, <3>1, <4>1 DEF CancelStep, LatchHeld
      <3>2. CASE phase # "idle"
        <4>1. \A m \in Messages : fate'[m] # "latched"
          BY <2>3, <3>2, LatchedQueued DEF StopActivity, Become
        <4>2. QED
          BY <1>b, <2>3, <4>1 DEF StopActivity
      <3>3. QED
        BY <3>1, <3>2
    <2>4. QED
      BY <2>1, <2>2, <2>3 DEF CancelStep
  <1>3. CASE CancelKeepingInbox
    BY <1>3 DEF CancelKeepingInbox, Abort, LatchHeld
  <1>4. CASE QuietCaller
    BY <1>4, <1>a, QuietCallerFrame
  <1>5. ASSUME NEW m \in Messages, NEW list, NEW wakeup, Send(m, list, wakeup)
        PROVE  LatchHeld'
    BY <1>5, <1>a DEF Send, TypeOK
  <1>6. ASSUME NEW m \in Messages, AcceptContext(m)
        PROVE  LatchHeld'
    BY <1>6, <1>a DEF AcceptContext, TypeOK
  <1>7. ASSUME NEW m \in Messages, RemoveMessage(m)
        PROVE  LatchHeld'
    BY <1>7, <1>a DEF RemoveMessage, TypeOK
  <1>8. CASE RunMaintenance
    BY <1>8 DEF RunMaintenance, LatchHeld
  <1>9. CASE StackEmpty /\ MaintenanceSettles
    <2>1. CASE wakeRequested /\ Pending
      BY <1>9, <1>b, <1>c, <2>1 DEF MaintenanceSettles, StartDriver
    <2>2. CASE ~(wakeRequested /\ Pending)
      <3>1. \A m \in Messages : fate[m] # "latched"
        BY <1>9, <2>2, LatchedQueued DEF StackEmpty, LatchHeld
      <3>2. QED
        BY <1>9, <1>b, <2>2, <3>1 DEF MaintenanceSettles
    <2>3. QED
      BY <2>1, <2>2
  <1>10. CASE ReplayWake
    <2>1. CASE phase = "idle" /\ Pending
      BY <1>10, <1>b, <1>c, <2>1 DEF ReplayWake, StartDriver
    <2>2. CASE ~(phase = "idle" /\ Pending)
      <3>1. UNCHANGED <<phase, abort, fate>>
        BY <1>10, <2>2 DEF ReplayWake
      <3>2. wakeRequested' = (wakeRequested \/ (Pending /\ Latches(FALSE)))
        BY <1>10, <2>2 DEF ReplayWake
      <3>3. ASSUME NEW m \in Messages, fate[m] = "latched"  PROVE wakeRequested'
        <4>1. Pending /\ phase # "idle" /\ abort # "disposed"
          BY <2>2, <3>3, LatchedQueued DEF LatchHeld
        <4>2. QED
          BY <3>2, <3>3, <4>1 DEF LatchHeld, Latches, TypeOK, Phases
      <3>4. wakeRequested' => phase # "idle"
        BY <3>2 DEF Latches, LatchHeld
      <3>5. QED
        BY <3>1, <3>3, <3>4 DEF LatchHeld
    <2>3. QED
      BY <2>1, <2>2
  <1>11. CASE ExitDriver
    <2>1. phase = "running"
      BY <1>11 DEF ExitDriver, TypeOK
    <2>2. QED
      BY <1>11, <2>1 DEF ExitDriver, LatchHeld
  <1>12. CASE QuietTurn
    BY <1>12, <1>a, QuietTurnFrame
  <1>13. CASE BeginPreStep
    BY <1>13, <1>a DEF BeginPreStep, Claim, Become
  <1>14. CASE SettlesClaim
    <2>1. SettlesOnlyClaim
      BY <1>14, SettlesClaimFrame
    <2>2. \A m \in Messages : fate'[m] = "latched" => fate[m] = "latched"
      BY <2>1 DEF SettlesOnlyClaim
    <2>3. QED
      BY <1>a, <2>1, <2>2 DEF SettlesOnlyClaim
  <1>15. CASE CloseTurn
    <2>1. CASE ends \in {"completed", "max-tokens"} /\ Pending
      BY <1>15, <1>b, <1>c, <2>1 DEF CloseTurn
    <2>2. CASE ~(ends \in {"completed", "max-tokens"} /\ Pending)
      BY <1>15, <1>a, <2>2 DEF CloseTurn, LeaveLoop
    <2>3. QED
      BY <2>1, <2>2
  <1>16. CASE Step
    BY <1>16, <1>a, StepFrame DEF StaysInStep
  <1>17. QED
    BY NextCases, <1>1, <1>2, <1>3, <1>4, <1>5, <1>6, <1>7, <1>8, <1>9, <1>10, <1>11, <1>12,
       <1>13, <1>14, <1>15, <1>16 DEF Submits

\* The driver leaves its loop as drained only when the inbox is empty, and what
\* arrives then is not accepted as live.
LEMMA DrainedStep ==
  ASSUME TypeOK, QueueMatchesFate, DrainedLeavesNone, [Next]_vars
  PROVE  DrainedLeavesNone'
  <1> USE DEF inboxVars, phaseVars, stepVars, logVars, history, callVars
  <1>a. ASSUME \A m \in Messages : fate'[m] = "live" => fate[m] = "live",
               lastExit' = lastExit, lastExit # "none" => pc' \in {"none", "exit"}
        PROVE  DrainedLeavesNone'
    BY <1>a DEF DrainedLeavesNone
  <1>b. lastExit' = "none" => DrainedLeavesNone'
    BY DEF DrainedLeavesNone
  <1>c. lastExit' = "gaveUp" /\ pc' \in {"none", "exit"} => DrainedLeavesNone'
    BY DEF DrainedLeavesNone
  <1>1. CASE WakeDriver
    <2>1. CASE phase = "idle"
      BY <1>1, <1>b, <2>1 DEF WakeDriver, StartDriver
    <2>2. CASE phase # "idle" /\ pc \in {"none", "exit"}
      <3>1. \A m \in Messages : fate'[m] = "live" => fate[m] = "live"
        BY <1>1, <2>2 DEF WakeDriver, Become, TypeOK, Phases
      <3>2. QED
        BY <1>1, <1>a, <2>2, <3>1 DEF WakeDriver
    <2>3. CASE phase # "idle" /\ pc \notin {"none", "exit"}
      BY <1>1, <1>b, <2>3 DEF WakeDriver, DrainedLeavesNone
    <2>4. QED
      BY <2>1, <2>2, <2>3
  <1>2. CASE Cancel \/ Dispose \/ CancelGoesOn
    <2>1. CancelStep
      BY <1>2, CancelCases
    <2>2. \A m \in Messages : fate'[m] = "live" => fate[m] = "live"
      BY <2>1 DEF CancelStep, ClearNextStep, ClearNextTurn, StopActivity, Become
    <2>3. QED
      BY <1>a, <2>1, <2>2 DEF CancelStep, DrainedLeavesNone
  <1>3. CASE CancelKeepingInbox
    BY <1>3, <1>a DEF CancelKeepingInbox, DrainedLeavesNone
  <1>4. CASE QuietCaller
    BY <1>4, <1>a, QuietCallerFrame DEF DrainedLeavesNone
  <1>5. ASSUME NEW m \in Messages, NEW list, NEW wakeup, Send(m, list, wakeup)
        PROVE  DrainedLeavesNone'
    BY <1>5, <1>a DEF Send, TypeOK, DrainedLeavesNone
  <1>6. ASSUME NEW m \in Messages, AcceptContext(m)
        PROVE  DrainedLeavesNone'
    BY <1>6, <1>a DEF AcceptContext, TypeOK, DrainedLeavesNone
  <1>7. ASSUME NEW m \in Messages, RemoveMessage(m)
        PROVE  DrainedLeavesNone'
    BY <1>7, <1>a DEF RemoveMessage, TypeOK, DrainedLeavesNone
  <1>8. CASE RunMaintenance
    BY <1>8, <1>a DEF RunMaintenance, DrainedLeavesNone
  <1>9. CASE MaintenanceSettles
    <2>1. CASE wakeRequested /\ Pending
      BY <1>9, <1>b, <2>1 DEF MaintenanceSettles, StartDriver
    <2>2. CASE ~(wakeRequested /\ Pending)
      BY <1>9, <1>a, <2>2 DEF MaintenanceSettles, DrainedLeavesNone
    <2>3. QED
      BY <2>1, <2>2
  <1>10. CASE ReplayWake
    <2>1. CASE phase = "idle" /\ Pending
      BY <1>10, <1>b, <2>1 DEF ReplayWake, StartDriver
    <2>2. CASE ~(phase = "idle" /\ Pending)
      BY <1>10, <1>a, <2>2 DEF ReplayWake, DrainedLeavesNone
    <2>3. QED
      BY <2>1, <2>2
  <1>11. CASE ExitDriver
    BY <1>11, <1>a DEF ExitDriver
  <1>12. CASE QuietTurn
    BY <1>12, <1>a, <1>c, QuietTurnFrame DEF DrainedLeavesNone
  <1>13. CASE BeginPreStep
    BY <1>13, <1>a DEF BeginPreStep, Claim, Become, DrainedLeavesNone
  <1>14. CASE SettlesClaim
    <2>1. SettlesOnlyClaim
      BY <1>14, SettlesClaimFrame
    <2>2. \A m \in Messages : fate'[m] = "live" => fate[m] = "live"
      BY <2>1 DEF SettlesOnlyClaim
    <2>3. QED
      BY <1>a, <1>c, <2>1, <2>2 DEF SettlesOnlyClaim, DrainedLeavesNone
  <1>15. CASE CloseTurn
    <2>1. CASE ends \in {"completed", "max-tokens"} /\ Pending
      BY <1>15, <1>b, <2>1 DEF CloseTurn, DrainedLeavesNone
    <2>2. CASE ends \in {"completed", "max-tokens"} /\ ~Pending
      <3>1. \A m \in Messages : fate[m] # "live"
        BY <2>2, LatchedQueued
      <3>2. fate' = fate /\ pc' = "exit"
        BY <1>15, <2>2 DEF CloseTurn, LeaveLoop
      <3>3. QED
        BY <3>1, <3>2 DEF DrainedLeavesNone
    <2>3. CASE ends \notin {"completed", "max-tokens"}
      BY <1>15, <1>c, <2>3 DEF CloseTurn, LeaveLoop
    <2>4. QED
      BY <2>1, <2>2, <2>3
  <1>16. CASE Step
    BY <1>16, <1>a, StepFrame DEF StaysInStep, StepPoints, DrainedLeavesNone
  <1>17. QED
    BY NextCases, <1>1, <1>2, <1>3, <1>4, <1>5, <1>6, <1>7, <1>8, <1>9, <1>10, <1>11, <1>12,
       <1>13, <1>14, <1>15, <1>16 DEF Submits

-----------------------------------------------------------------------------
(* Prompts. *)

\* The step counter is zero as long as a turn's boundary takes from next-turn.
LEMMA PromptStep ==
  ASSUME TypeOK, LogTracksDriver, PromptTargetFirst, [Next]_vars
  PROVE  PromptTargetFirst'
  <1> USE DEF inboxVars, phaseVars, stepVars, logVars, history, callVars
  <1>a. UNCHANGED <<pc, step, target>> => PromptTargetFirst'
    BY DEF PromptTargetFirst
  <1>b. pc' \in {"none", "turn", "exit", "closing"} => PromptTargetFirst'
    BY DEF PromptTargetFirst
  <1>1. CASE WakeDriver
    BY <1>1, <1>a, <1>b DEF WakeDriver, StartDriver
  <1>2. CASE Cancel \/ Dispose \/ CancelGoesOn
    BY <1>2, <1>a, CancelCases DEF CancelStep
  <1>3. CASE CancelKeepingInbox
    BY <1>3, <1>a DEF CancelKeepingInbox
  <1>4. CASE QuietCaller
    BY <1>4, <1>a, QuietCallerFrame
  <1>5. ASSUME NEW m \in Messages, NEW list, NEW wakeup, Send(m, list, wakeup)
        PROVE  PromptTargetFirst'
    BY <1>5, <1>a DEF Send
  <1>6. ASSUME NEW m \in Messages, AcceptContext(m)
        PROVE  PromptTargetFirst'
    BY <1>6, <1>a DEF AcceptContext
  <1>7. ASSUME NEW m \in Messages, RemoveMessage(m)
        PROVE  PromptTargetFirst'
    BY <1>7, <1>a DEF RemoveMessage
  <1>8. CASE RunMaintenance
    BY <1>8, <1>a DEF RunMaintenance
  <1>9. CASE MaintenanceSettles
    BY <1>9, <1>a, <1>b DEF MaintenanceSettles, StartDriver
  <1>10. CASE ReplayWake
    BY <1>10, <1>a, <1>b DEF ReplayWake, StartDriver
  <1>11. CASE ExitDriver
    BY <1>11, <1>b DEF ExitDriver
  <1>12. CASE QuietTurn
    <2>1. CASE OpenTurn
      BY <2>1 DEF OpenTurn, PromptTargetFirst, LogTracksDriver
    <2>2. CASE EndStep
      BY <2>2 DEF EndStep, Throw, PromptTargetFirst
    <2>3. CASE TurnAbandoned \/ BoundaryAborted \/ SkipStep
      BY <2>3, <1>b DEF TurnAbandoned, BoundaryAborted, SkipStep, LeaveLoop, Throw
    <2>4. CASE ContextPrepared \/ StoppingSettles
      BY <2>4 DEF ContextPrepared, StoppingSettles, Throw, PromptTargetFirst
    <2>5. QED
      BY <1>12, <2>1, <2>2, <2>3, <2>4 DEF QuietTurn
  <1>13. CASE BeginPreStep
    BY <1>13 DEF BeginPreStep, PromptTargetFirst
  <1>14. CASE SettlesClaim
    <2>1. SettlesOnlyClaim
      BY <1>14, SettlesClaimFrame
    <2>2. QED
      BY <2>1 DEF SettlesOnlyClaim, TypeOK, PromptTargetFirst
  <1>15. CASE CloseTurn
    BY <1>15, <1>b DEF CloseTurn, LeaveLoop
  <1>16. CASE Step
    BY <1>16, StepFrame DEF StaysInStep, StepPoints, PromptTargetFirst
  <1>17. QED
    BY NextCases, <1>1, <1>2, <1>3, <1>4, <1>5, <1>6, <1>7, <1>8, <1>9, <1>10, <1>11, <1>12,
       <1>13, <1>14, <1>15, <1>16 DEF Submits

\* A claim that takes from next-turn is the first of its turn and takes the head.
LEMMA PromptClaimStep ==
  ASSUME TypeOK, LogTracksDriver, PromptTargetFirst, [Next]_vars
  PROVE  PromptClaim
  <1> USE DEF inboxVars, phaseVars, stepVars, logVars, history, callVars
  <1>a. pc' = pc \/ pc' # "context" \/ nextTurn' = nextTurn => PromptClaim
    BY DEF PromptClaim
  <1>1. CASE WakeDriver \/ ReplayWake \/ MaintenanceSettles
    BY <1>1, <1>a DEF WakeDriver, ReplayWake, MaintenanceSettles
  <1>2. CASE Cancel \/ Dispose \/ CancelGoesOn
    BY <1>2, <1>a, CancelCases DEF CancelStep
  <1>3. CASE CancelKeepingInbox \/ RunMaintenance \/ ExitDriver
    BY <1>3, <1>a DEF CancelKeepingInbox, RunMaintenance, ExitDriver
  <1>4. CASE QuietCaller
    BY <1>4, <1>a, QuietCallerFrame
  <1>5. ASSUME NEW m \in Messages, NEW list, NEW wakeup, Send(m, list, wakeup)
        PROVE  PromptClaim
    BY <1>5, <1>a DEF Send
  <1>6. ASSUME NEW m \in Messages, AcceptContext(m) \/ RemoveMessage(m)
        PROVE  PromptClaim
    BY <1>6, <1>a DEF AcceptContext, RemoveMessage
  <1>7. CASE QuietTurn
    BY <1>7, <1>a, QuietTurnFrame
  <1>8. CASE BeginPreStep
    <2>1. CASE TakesPrompt
      <3>1. step = 0
        BY <1>8, <2>1 DEF BeginPreStep, TakesPrompt, PromptTargetFirst
      <3>2. trace.nextStep = 1 /\ trace.openStep = 0
        BY <1>8, <3>1 DEF BeginPreStep, LogTracksDriver, TurnPoints, StepPoints
      <3>3. nextTurn' = Tail(nextTurn)
        BY <1>8, <2>1 DEF BeginPreStep, Claim
      <3>4. QED
        BY <3>2, <3>3 DEF PromptClaim
    <2>2. CASE ~TakesPrompt
      BY <1>8, <2>2, <1>a DEF BeginPreStep, Claim
    <2>3. QED
      BY <2>1, <2>2
  <1>9. CASE SettlesClaim
    BY <1>9, <1>a, SettlesClaimFrame DEF SettlesOnlyClaim
  <1>10. CASE CloseTurn
    BY <1>10, <1>a DEF CloseTurn, LeaveLoop
  <1>11. CASE Step
    BY <1>11, <1>a, StepFrame DEF StaysInStep
  <1>12. QED
    BY NextCases, <1>1, <1>2, <1>3, <1>4, <1>5, <1>6, <1>7, <1>8, <1>9, <1>10, <1>11
    DEF Submits

-----------------------------------------------------------------------------
(* Aborts. *)

\* An abort that came in time stands: its signal is replaced only where the turn
\* was over, and no way through the turn leads there under it.
LEMMA AbortStandsStep ==
  ASSUME TypeOK, AbortStands, [Next]_vars
  PROVE  AbortStands'
  <1> USE DEF inboxVars, phaseVars, stepVars, logVars, history, callVars
  <1>a. caught' = FALSE => AbortStands'
    BY DEF AbortStands
  <1>b. ASSUME UNCHANGED <<phase, abort, caught, pc, ends, proposed, context, step, lastExit>>
        PROVE  AbortStands'
    BY <1>b DEF AbortStands, OwesNothing, Aborted
  <1>c. ASSUME UNCHANGED <<phase, abort, caught>>,
               pc' \notin {"decided", "closing", "exit"}
        PROVE  AbortStands'
    BY <1>c DEF AbortStands, Aborted
  <1>d. ASSUME UNCHANGED <<phase, abort, caught>>, pc' = "exit", lastExit' = "gaveUp"
        PROVE  AbortStands'
    BY <1>d DEF AbortStands, Aborted
  <1>e. ASSUME UNCHANGED <<phase, abort, caught>>, pc' = "closing",
               ends' \notin {"completed", "max-tokens"}
        PROVE  AbortStands'
    BY <1>e DEF AbortStands, Aborted
  <1>f. ASSUME UNCHANGED <<phase, abort, caught>>, ~Aborted
        PROVE  AbortStands'
    BY <1>f DEF AbortStands
  <1>g. ASSUME NEW cause \in Cause, Abort(cause),
               UNCHANGED <<phase, pc, ends, proposed, context, step, lastExit>>
        PROVE  AbortStands'
    <2>1. CASE phase # "idle" /\ ~Aborted
      <3>1. cause # "none" /\ abort' = cause /\ caught' = ~TurnIsOver
        BY <1>g, <2>1 DEF Abort, Cause
      <3>2. ~TurnIsOver => phase = "running"
        BY DEF TurnIsOver, TypeOK
      <3>3. QED
        BY <1>g, <3>1, <3>2 DEF AbortStands, TurnIsOver, OwesNothing, Aborted
    <2>2. CASE ~(phase # "idle" /\ ~Aborted)
      BY <1>g, <1>b, <2>2 DEF Abort
    <2>3. QED
      BY <2>1, <2>2
  <1>1. CASE WakeDriver
    BY <1>1, <1>a, <1>b DEF WakeDriver, StartDriver
  <1>2. CASE Cancel \/ Dispose \/ CancelGoesOn
    <2>1. CancelStep
      BY <1>2, CancelCases
    <2>2. CASE UNCHANGED <<abort, caught>>
      BY <2>1, <2>2, <1>b DEF CancelStep
    <2>3. ASSUME NEW cause \in Cause, StopActivity(cause)
          PROVE  AbortStands'
      BY <2>1, <2>3, <1>g DEF CancelStep, StopActivity
    <2>4. QED
      BY <2>1, <2>2, <2>3 DEF CancelStep
  <1>3. CASE CancelKeepingInbox
    BY <1>3, <1>g DEF CancelKeepingInbox, Cause
  <1>4. CASE QuietCaller
    BY <1>4, <1>b, QuietCallerFrame
  <1>5. ASSUME NEW m \in Messages, NEW list, NEW wakeup, Send(m, list, wakeup)
        PROVE  AbortStands'
    BY <1>5, <1>b DEF Send
  <1>6. ASSUME NEW m \in Messages, AcceptContext(m) \/ RemoveMessage(m)
        PROVE  AbortStands'
    BY <1>6, <1>b DEF AcceptContext, RemoveMessage
  <1>7. CASE RunMaintenance
    BY <1>7, <1>a DEF RunMaintenance, AbortStands
  <1>8. CASE MaintenanceSettles
    BY <1>8, <1>a DEF MaintenanceSettles, StartDriver, AbortStands
  <1>9. CASE ReplayWake
    BY <1>9, <1>a, <1>b DEF ReplayWake, StartDriver
  <1>10. CASE ExitDriver
    BY <1>10, <1>a DEF ExitDriver
  <1>11. CASE QuietTurn
    <2>1. CASE TurnAbandoned
      BY <2>1, <1>d DEF TurnAbandoned, LeaveLoop
    <2>2. CASE OpenTurn
      BY <2>2, <1>c DEF OpenTurn
    <2>3. CASE BoundaryAborted
      BY <2>3, <1>e DEF BoundaryAborted, Throw
    <2>4. CASE ContextPrepared
      BY <2>4, <1>c DEF ContextPrepared
    <2>5. CASE SkipStep
      BY <2>5 DEF SkipStep, AbortStands
    <2>6. CASE EndStep
      BY <2>6, <1>c, <1>e DEF EndStep, Throw
    <2>7. CASE StoppingSettles
      BY <2>7, <1>c, <1>e, <1>f DEF StoppingSettles, Throw
    <2>8. QED
      BY <1>11, <2>1, <2>2, <2>3, <2>4, <2>5, <2>6, <2>7 DEF QuietTurn
  <1>12. CASE BeginPreStep
    BY <1>12, <1>c DEF BeginPreStep
  <1>13. CASE SettlesClaim
    <2>1. SettlesOnlyClaim
      BY <1>13, SettlesClaimFrame
    <2>2. UNCHANGED <<phase, abort, caught>>
      BY <2>1 DEF SettlesOnlyClaim
    <2>3. CASE ~Aborted
      BY <2>2, <2>3, <1>f
    <2>4. CASE Aborted
      BY <2>1, <2>2, <2>4, <1>c, <1>d, <1>e DEF SettlesOnlyClaim
    <2>5. QED
      BY <2>3, <2>4
  <1>14. CASE CloseTurn
    <2>1. caught => ends \notin {"completed", "max-tokens"}
      BY <1>14 DEF CloseTurn, AbortStands
    <2>2. CASE ends \in {"completed", "max-tokens"}
      BY <1>14, <1>a, <2>1, <2>2 DEF CloseTurn, TypeOK
    <2>3. CASE ends \notin {"completed", "max-tokens"}
      BY <1>14, <1>d, <2>3 DEF CloseTurn, LeaveLoop
    <2>4. QED
      BY <2>2, <2>3
  <1>15. CASE Step
    <2>1. StaysInStep
      BY <1>15, StepFrame
    <2>2. QED
      BY <2>1, <1>c DEF StaysInStep, StepPoints
  <1>16. QED
    BY NextCases, <1>1, <1>2, <1>3, <1>4, <1>5, <1>6, <1>7, <1>8, <1>9, <1>10, <1>11, <1>12,
       <1>13, <1>14, <1>15 DEF Submits

-----------------------------------------------------------------------------
(* Cancels that wait for their listeners. *)

CancelFrames == {c \in ToSet(calls) : c.op = "cancel"}
FramesKept   == CancelFrames \subseteq CancelFrames'

\* A call that is entered leaves those around it.
LEMMA FramesEnter ==
  ASSUME TypeOK, NEW c \in Call, calls' = <<c>> \o calls
  PROVE  FramesKept /\ c \in ToSet(calls')
  BY PrependElements DEF FramesKept, CancelFrames, TypeOK

\* A call that returns, or goes on, keeps the cancels around it.
LEMMA FramesReturn ==
  ASSUME TypeOK, calls # <<>>, NEW c \in Call,
         calls' = Tail(calls) \/ calls' = <<c>> \o Tail(calls)
  PROVE  \A f \in CancelFrames : f # Head(calls) => f \in CancelFrames'
  <1>1. /\ Tail(calls) \in Seq(Call)
        /\ ToSet(calls) = {Head(calls)} \cup ToSet(Tail(calls))
    BY TailElements DEF TypeOK
  <1>2. ToSet(<<c>> \o Tail(calls)) = {c} \cup ToSet(Tail(calls))
    BY <1>1, PrependElements
  <1>3. ToSet(Tail(calls)) \subseteq ToSet(calls')
    BY <1>2
  <1>4. QED
    BY <1>1, <1>3 DEF CancelFrames

\* The driver's first await returns to the call that started it.
LEMMA FramesKick ==
  ASSUME TypeOK, DriverFree, calls' = calls \/ KickReturns
  PROVE  FramesKept
  <1>1. CASE calls' = calls
    BY <1>1 DEF FramesKept, CancelFrames
  <1>2. CASE calls = <<>>
    BY <1>2 DEF FramesKept, CancelFrames, KickReturns, ToSet
  <1>3. CASE calls # <<>> /\ calls' = Tail(calls)
    <2>1. Head(calls).op = "kick"
      BY <1>3 DEF DriverFree, InCall
    <2>2. Kick \in Call
      BY DEF Call
    <2>3. \A f \in CancelFrames : f # Head(calls)
      BY <2>1 DEF CancelFrames
    <2>4. QED
      BY <1>3, <2>2, <2>3, FramesReturn DEF FramesKept
  <1>4. QED
    BY <1>1, <1>2, <1>3 DEF KickReturns

\* A step that brings no cancelled prompt back and takes away no cancel.
LeavesCancelled ==
  /\ FramesKept
  /\ cancelled' \subseteq cancelled
  /\ \A m \in cancelled' :
       /\ fate'[m] = fate[m] \/ fate'[m] \in Waiting \cup {"claimed", "gone"}
       /\ m \in ToSet(nextStep') => m \in ToSet(nextStep)
       /\ m \in ToSet(nextTurn') => m \in ToSet(nextTurn)
       /\ m \in proposed' => m \in proposed
  /\ (Aborted /\ proposed' # {}) => Aborted'

\* It keeps what a cancel found on its way out.
LEMMA CancelledLeft ==
  ASSUME TypeOK, CancelKept, LeavesCancelled
  PROVE  CancelKept'
  <1>1. \A m \in cancelled' : m \in Messages /\ fate'[m] \notin {"unsent", "entered"}
    BY DEF CancelKept, LeavesCancelled, Waiting
  <1>2. cancelled' \cap ToSet(nextStep') = {}
    BY DEF CancelKept, LeavesCancelled
  <1>3. ASSUME cancelled' \cap ToSet(nextTurn') # {}
        PROVE  \E c \in ToSet(calls') : c.op = "cancel" /\ c.left = "next-turn"
    <2>1. cancelled \cap ToSet(nextTurn) # {}
      BY <1>3 DEF LeavesCancelled
    <2>2. QED
      BY <2>1 DEF CancelKept, LeavesCancelled, FramesKept, CancelFrames
  <1>4. ASSUME cancelled' \cap proposed' # {}, ~Aborted'
        PROVE  \E c \in ToSet(calls') : c.op = "cancel"
    <2>1. cancelled \cap proposed # {} /\ ~Aborted
      BY <1>4 DEF LeavesCancelled
    <2>2. QED
      BY <2>1 DEF CancelKept, LeavesCancelled, FramesKept, CancelFrames
  <1>5. QED
    BY <1>1, <1>2, <1>3, <1>4 DEF CancelKept

\* The clears of a cancel note the prompts it has found, and drop them.
LEMMA ClearingStep ==
  ASSUME TypeOK, QueueMatchesFate, ProposedClaimed, CancelKept,
         NEW cause \in Cause, CancelClearing(cause)
  PROVE  CancelKept'
  <1> USE DEF inboxVars, phaseVars, stepVars, logVars
  <1>0. ToSet(<<>>) = {}
    BY DEF ToSet
  <1>1. UNCHANGED <<phase, proposed, pc>>
    BY DEF CancelClearing
  <1>2. ASSUME ClearNextStep, cancelled' = cancelled \cup ToSet(nextTurn),
               Enter(CancelCall(cause, "next-turn")), abort' = abort
        PROVE  CancelKept'
    <2> DEFINE c == CancelCall(cause, "next-turn")
    <2>1. c \in Call /\ c.op = "cancel" /\ c.left = "next-turn"
      BY DEF Call, CancelCall
    <2> HIDE DEF c
    <2>2. FramesKept /\ c \in ToSet(calls')
      BY <1>2, <2>1, FramesEnter DEF Enter, c
    <2>3. nextStep' = <<>> /\ nextTurn' = nextTurn
      BY <1>2 DEF ClearNextStep
    <2>4. \A m \in Messages : fate'[m] = IF m \in ToSet(nextStep) THEN "gone" ELSE fate[m]
      BY <1>2 DEF ClearNextStep, Become
    <2>5. \A m \in ToSet(nextTurn) : m \in Messages /\ fate[m] \in Waiting
      BY QueuedMessages DEF QueueMatchesFate, Queued
    <2>6. \A m \in cancelled' : m \in Messages /\ fate'[m] \notin {"unsent", "entered"}
      BY <1>2, <2>4, <2>5 DEF CancelKept, Waiting
    <2>7. cancelled' \cap ToSet(nextStep') = {}
      BY <1>0, <2>3
    <2>8. cancelled' \cap proposed' = cancelled \cap proposed
      BY <1>1, <1>2, <2>5 DEF ProposedClaimed, Waiting
    <2>9. cancelled' \cap proposed' # {} =>
            Aborted' \/ \E f \in ToSet(calls') : f.op = "cancel"
      BY <2>1, <2>2
    <2>10. QED
      BY <2>1, <2>2, <2>6, <2>7, <2>9 DEF CancelKept
  <1>3. ASSUME nextStep = <<>>, ClearNextTurn, Enter(CancelCall(cause, "abort")),
               UNCHANGED <<abort, cancelled>>
        PROVE  CancelKept'
    <2> DEFINE c == CancelCall(cause, "abort")
    <2>1. c \in Call
      BY DEF Call, CancelCall
    <2> HIDE DEF c
    <2>2. FramesKept
      BY <1>3, <2>1, FramesEnter DEF Enter, c
    <2>3. LeavesCancelled
      BY <1>0, <1>1, <1>3, <2>2 DEF ClearNextTurn, Become, CancelKept, LeavesCancelled, Aborted
    <2>4. QED
      BY <2>3, CancelledLeft
  <1>4. ASSUME StopActivity(cause), UNCHANGED <<inboxVars, calls, cancelled>>
        PROVE  CancelKept'
    <2>1. RelabelsQueued
      BY <1>1, <1>4, WakesRelabel
    <2>2. Aborted => Aborted'
      BY <1>4 DEF StopActivity, Abort, Aborted
    <2>3. FramesKept
      BY <1>4 DEF FramesKept, CancelFrames
    <2>4. LeavesCancelled
      BY <1>1, <1>4, <2>1, <2>2, <2>3 DEF RelabelsQueued, CancelKept, LeavesCancelled
    <2>5. QED
      BY <2>4, CancelledLeft
  <1>5. QED
    BY <1>2, <1>3, <1>4 DEF CancelClearing

\* When its listeners return it discards the prompts, or aborts the driver.
LEMMA GoesOnStep ==
  ASSUME TypeOK, QueueMatchesFate, ProposedClaimed, CancelKept, CancelGoesOn
  PROVE  CancelKept'
  <1> USE DEF inboxVars, phaseVars, stepVars, logVars
  <1>0. ToSet(<<>>) = {}
    BY DEF ToSet
  <1>1. UNCHANGED <<phase, proposed, pc>>
    BY DEF CancelGoesOn
  <1>2. calls # <<>> /\ Head(calls) \in Call /\ Head(calls).op = "cancel"
    BY TailElements DEF CancelGoesOn, InCall, TypeOK
  <1>3. Head(calls).cause \in Cause
    BY <1>2 DEF Call, Kick
  <1>4. ASSUME ClearNextTurn, GoOnAs(CancelCall(Head(calls).cause, "abort")),
               cancelled' = cancelled \ ToSet(nextTurn)
        PROVE  CancelKept'
    <2> DEFINE c == CancelCall(Head(calls).cause, "abort")
    <2>1. c \in Call /\ c.op = "cancel"
      BY <1>3 DEF Call, CancelCall
    <2>2. Tail(calls) \in Seq(Call)
      BY <1>2, TailElements DEF TypeOK
    <2> HIDE DEF c
    <2>3. c \in ToSet(calls')
      BY <1>4, <2>1, <2>2, PrependElements DEF GoOnAs, c
    <2>4. nextTurn' = <<>> /\ nextStep' = nextStep
      BY <1>4 DEF ClearNextTurn
    <2>5. \A m \in Messages : fate'[m] = IF m \in ToSet(nextTurn) THEN "gone" ELSE fate[m]
      BY <1>4 DEF ClearNextTurn, Become
    <2>6. \A m \in cancelled' : m \in Messages /\ fate'[m] \notin {"unsent", "entered"}
      BY <1>4, <2>5 DEF CancelKept
    <2>7. cancelled' \cap ToSet(nextStep') = {} /\ cancelled' \cap ToSet(nextTurn') = {}
      BY <1>0, <1>4, <2>4 DEF CancelKept
    <2>8. QED
      BY <2>1, <2>3, <2>6, <2>7 DEF CancelKept
  <1>5. ASSUME Head(calls).left = "abort" \/ nextTurn = <<>>,
               StopActivity(Head(calls).cause), Return, UNCHANGED <<inboxVars, cancelled>>
        PROVE  CancelKept'
    <2>1. RelabelsQueued
      BY <1>1, <1>3, <1>5, WakesRelabel
    <2>2. Kick \in Call
      BY DEF Call
    <2>3. \A f \in CancelFrames : f # Head(calls) => f \in CancelFrames'
      BY <1>2, <1>5, <2>2, FramesReturn DEF Return
    <2>4. \A m \in cancelled' : m \in Messages /\ fate'[m] \notin {"unsent", "entered"}
      BY <1>5, <2>1 DEF CancelKept, RelabelsQueued, Waiting
    <2>5. cancelled' \cap ToSet(nextStep') = {}
      BY <1>5 DEF CancelKept
    <2>6. ASSUME cancelled' \cap ToSet(nextTurn') # {}
          PROVE  \E c \in ToSet(calls') : c.op = "cancel" /\ c.left = "next-turn"
      <3>1. cancelled \cap ToSet(nextTurn) # {} /\ Head(calls).left = "abort"
        BY <1>0, <1>5, <2>6
      <3>2. PICK c \in ToSet(calls) : c.op = "cancel" /\ c.left = "next-turn"
        BY <3>1 DEF CancelKept
      <3>3. c \in CancelFrames /\ c # Head(calls)
        BY <3>1, <3>2 DEF CancelFrames
      <3>4. QED
        BY <2>3, <3>2, <3>3 DEF CancelFrames
    <2>7. proposed # {} => phase # "idle"
      BY DEF ProposedClaimed, TypeOK
    <2>8. phase # "idle" => Aborted'
      BY <1>3, <1>5 DEF StopActivity, Abort, Aborted, Cause
    <2>9. cancelled' \cap proposed' # {} =>
            Aborted' \/ \E c \in ToSet(calls') : c.op = "cancel"
      BY <1>1, <2>7, <2>8
    <2>10. QED
      BY <2>4, <2>5, <2>6, <2>9 DEF CancelKept
  <1>6. QED
    BY <1>4, <1>5 DEF CancelGoesOn

\* No action brings back to the inbox, or to a step, what a cancel has found.
LEMMA CancelKeptStep ==
  ASSUME TypeOK, QueueMatchesFate, ProposedClaimed, CancelKept, [Next]_vars
  PROVE  CancelKept'
  <1> USE DEF inboxVars, phaseVars, stepVars, logVars, history, callVars
  <1>0. ToSet(<<>>) = {} /\ Kick \in Call /\ Kick.op = "kick"
    BY DEF ToSet, Call, Kick
  <1>a. calls' = calls => FramesKept
    BY DEF FramesKept, CancelFrames
  <1>b. Enter(Kick) => FramesKept
    BY <1>0, FramesEnter DEF Enter
  <1>c. \A m \in cancelled : m \in Messages /\ fate[m] # "unsent"
    BY DEF CancelKept
  <1>d. ASSUME FramesKept, RelabelsQueued, cancelled' \subseteq cancelled,
               (Aborted /\ proposed # {}) => Aborted'
        PROVE  CancelKept'
    <2>1. LeavesCancelled
      BY <1>c, <1>d DEF RelabelsQueued, LeavesCancelled
    <2>2. QED
      BY <2>1, CancelledLeft
  <1>e. ASSUME FramesKept, UNCHANGED <<inboxVars, proposed, fate, cancelled>>,
               (Aborted /\ proposed # {}) => Aborted'
        PROVE  CancelKept'
    <2>1. LeavesCancelled
      BY <1>e DEF LeavesCancelled
    <2>2. QED
      BY <2>1, CancelledLeft
  <1>f. proposed # {} => pc \in {"context", "assembling", "decided"} /\ phase = "running"
    BY DEF ProposedClaimed, TypeOK
  <1>1. CASE WakeDriver
    <2>1. RelabelsQueued
      BY <1>1, WakesRelabel
    <2>2. calls # <<>> /\ Head(calls).op = "send"
      BY <1>1 DEF WakeDriver, InCall
    <2>3. calls' = Tail(calls) \/ calls' = <<Kick>> \o Tail(calls)
      BY <1>1 DEF WakeDriver, Return, GoOnAs
    <2>4. FramesKept
      BY <1>0, <2>2, <2>3, FramesReturn DEF FramesKept, CancelFrames
    <2>5. (Aborted /\ proposed # {}) => Aborted'
      BY <1>1, <1>f DEF WakeDriver, Aborted
    <2>6. cancelled' = cancelled
      BY <1>1 DEF WakeDriver
    <2>7. QED
      BY <1>d, <2>1, <2>4, <2>5, <2>6
  <1>2. CASE Cancel \/ Dispose
    BY <1>2, ClearingStep DEF Cancel, Dispose, Cause
  <1>3. CASE CancelGoesOn
    BY <1>3, GoesOnStep
  <1>4. CASE CancelKeepingInbox
    BY <1>4, <1>a, <1>e DEF CancelKeepingInbox, Abort, Aborted
  <1>5. CASE QuietCaller
    BY <1>5, <1>a, <1>e, QuietCallerFrame DEF Aborted
  <1>6. ASSUME NEW m \in Messages, NEW list, fate[m] = "unsent", Insert(m, list),
               fate' = [fate EXCEPT ![m] = "queued"], FramesKept,
               UNCHANGED <<proposed, cancelled, abort>>
        PROVE  CancelKept'
    <2>0. /\ nextTurn' = Append(nextTurn, m) \/ nextTurn' = nextTurn
          /\ nextStep' = Append(nextStep, m) \/ nextStep' = nextStep
      BY <1>6 DEF Insert
    <2>1. \A x \in ToSet(nextTurn') : x = m \/ x \in ToSet(nextTurn)
      <3>1. ToSet(Append(nextTurn, m)) = ToSet(nextTurn) \cup {m}
        BY AppendElements DEF TypeOK
      <3>2. QED
        BY <2>0, <3>1
    <2>2. \A x \in ToSet(nextStep') : x = m \/ x \in ToSet(nextStep)
      <3>1. ToSet(Append(nextStep, m)) = ToSet(nextStep) \cup {m}
        BY AppendElements DEF TypeOK
      <3>2. QED
        BY <2>0, <3>1
    <2>3. \A x \in Messages : x # m => fate'[x] = fate[x]
      BY <1>6 DEF TypeOK
    <2>4. m \notin cancelled
      BY <1>6, <1>c
    <2>5. LeavesCancelled
      BY <1>6, <1>c, <2>1, <2>2, <2>3, <2>4 DEF LeavesCancelled, Aborted
    <2>6. QED
      BY <2>5, CancelledLeft
  <1>7. ASSUME NEW m \in Messages, NEW list, NEW wakeup, Send(m, list, wakeup)
        PROVE  CancelKept'
    <2>1. ASSUME NEW afterAbort \in BOOLEAN,
                 Enter([op |-> "send", message |-> m, afterAbort |-> afterAbort])
          PROVE  FramesKept
      <3>1. [op |-> "send", message |-> m, afterAbort |-> afterAbort] \in Call
        BY DEF Call
      <3>2. QED
        BY <2>1, <3>1, FramesEnter DEF Enter
    <2>2. FramesKept
      BY <1>7, <1>a, <2>1 DEF Send, Aborted
    <2>3. \E where : Insert(m, where)
      BY <1>7 DEF Send
    <2>4. QED
      BY <1>6, <1>7, <2>2, <2>3 DEF Send
  <1>8. ASSUME NEW m \in Messages, AcceptContext(m)
        PROVE  CancelKept'
    BY <1>6, <1>8, <1>a DEF AcceptContext
  <1>9. ASSUME NEW m \in Messages, RemoveMessage(m)
        PROVE  CancelKept'
    <2>1. ToSet(nextTurn') \subseteq ToSet(nextTurn)
      BY <1>9, RemoveAtElements DEF RemoveMessage, TypeOK
    <2>2. ToSet(nextStep') \subseteq ToSet(nextStep)
      BY <1>9, RemoveAtElements DEF RemoveMessage, TypeOK
    <2>3. \A x \in Messages : fate'[x] = fate[x] \/ fate'[x] = "gone"
      BY <1>9 DEF RemoveMessage, TypeOK
    <2>4. FramesKept /\ UNCHANGED <<cancelled, proposed, abort>>
      BY <1>9, <1>a DEF RemoveMessage
    <2>5. LeavesCancelled
      BY <1>c, <2>1, <2>2, <2>3, <2>4 DEF LeavesCancelled, Aborted
    <2>6. QED
      BY <2>5, CancelledLeft
  <1>10. CASE RunMaintenance
    BY <1>10, <1>a, <1>e, <1>f DEF RunMaintenance
  <1>11. CASE MaintenanceSettles
    <2>1. RelabelsQueued
      BY <1>11, WakesRelabel
    <2>2. FramesKept /\ cancelled' = cancelled /\ proposed = {}
      BY <1>11, <1>a, <1>b, <1>f DEF MaintenanceSettles
    <2>3. QED
      BY <1>d, <2>1, <2>2
  <1>12. CASE ReplayWake
    <2>1. RelabelsQueued
      BY <1>12, WakesRelabel
    <2>2. FramesKept /\ cancelled' = cancelled
      BY <1>12, <1>a, <1>b DEF ReplayWake
    <2>3. (Aborted /\ proposed # {}) => Aborted'
      BY <1>12, <1>f DEF ReplayWake, Aborted
    <2>4. QED
      BY <1>d, <2>1, <2>2, <2>3
  <1>13. CASE ExitDriver
    BY <1>13 DEF ExitDriver, CancelKept
  <1>14. CASE DriverFree /\ QuietTurn
    <2>1. FramesKept
      BY <1>14, QuietTurnFrame, FramesKick
    <2>2. QED
      BY <1>14, <1>e, <2>1, QuietTurnFrame DEF Aborted
  <1>15. CASE DriverFree /\ BeginPreStep
    <2>1. /\ ToSet(nextStep') = {} /\ proposed' = Batch
          /\ UNCHANGED <<abort, cancelled>>
      BY <1>0, <1>15 DEF BeginPreStep, Claim
    <2>2. FramesKept
      BY <1>15, FramesKick DEF BeginPreStep
    <2>3. \A m \in Messages : fate'[m] = IF m \in Batch THEN "claimed" ELSE fate[m]
      BY <1>15 DEF BeginPreStep, Claim, Become
    <2>4. nextTurn \in Seq(Messages)
      BY DEF TypeOK
    <2>5. /\ ToSet(nextTurn') \subseteq ToSet(nextTurn)
          /\ Batch \subseteq ToSet(nextStep) \cup ToSet(nextTurn)
      BY <1>15, <2>4, TailElements DEF BeginPreStep, Claim, Batch, TakesPrompt
    <2>6. \A m \in cancelled' : m \in Messages /\ fate'[m] \notin {"unsent", "entered"}
      BY <1>c, <2>1, <2>3 DEF CancelKept
    <2>7. (cancelled' \cap ToSet(nextTurn')) \cup (cancelled' \cap proposed') # {} =>
            \E c \in CancelFrames' : c.left = "next-turn"
      BY <2>1, <2>2, <2>5 DEF CancelKept, FramesKept, CancelFrames
    <2>8. QED
      BY <2>1, <2>6, <2>7 DEF CancelKept, CancelFrames
  <1>16. CASE DriverFree /\ SettlesClaim
    <2>1. SettlesOnlyClaim
      BY <1>16, SettlesClaimFrame
    <2>2. FramesKept
      BY <1>16, <2>1, FramesKick DEF SettlesOnlyClaim
    <2>3. ASSUME NEW m \in cancelled, m \in proposed, StackEmpty, ~Aborted
          PROVE  FALSE
      BY <1>0, <2>3 DEF CancelKept, StackEmpty
    <2>4. \A m \in cancelled : fate'[m] = fate[m] \/ fate'[m] = "gone"
      BY <1>c, <2>1, <2>3 DEF SettlesOnlyClaim
    <2>5. UNCHANGED <<inboxVars, cancelled, abort>> /\ proposed' \subseteq proposed
      BY <2>1 DEF SettlesOnlyClaim
    <2>6. LeavesCancelled
      BY <2>2, <2>4, <2>5 DEF LeavesCancelled, Aborted
    <2>7. QED
      BY <2>6, CancelledLeft
  <1>17. CASE DriverFree /\ CloseTurn
    <2>1. RelabelsQueued
      BY <1>17, WakesRelabel
    <2>2. FramesKept
      BY <1>17, FramesKick DEF CloseTurn, LeaveLoop
    <2>3. cancelled' = cancelled /\ proposed = {}
      BY <1>17, <1>f DEF CloseTurn, LeaveLoop
    <2>4. QED
      BY <1>d, <2>1, <2>2, <2>3
  <1>18. CASE Step
    BY <1>18, <1>a, <1>e, StepFrame DEF StaysInStep, Aborted
  <1>19. QED
    BY NextCases, <1>1, <1>2, <1>3, <1>4, <1>5, <1>7, <1>8, <1>9, <1>10, <1>11, <1>12,
       <1>13, <1>14, <1>15, <1>16, <1>17, <1>18 DEF Submits

-----------------------------------------------------------------------------
(* The theorems. *)

\* A new driver satisfies the invariant.
LEMMA DriverInit == Init => DriverInv
  <1> SUFFICES ASSUME Init  PROVE DriverInv
    OBVIOUS
  <1>1. ToSet(<<>>) = {} /\ IsInjective(<<>>) /\ <<>> \in Seq(Messages) /\ <<>> \in Seq(Call)
    BY EmptySeq DEF ToSet, IsInjective
  <1>2. Queued = {} /\ QueueMatchesFate
    BY <1>1 DEF Init, Queued, QueueMatchesFate, Waiting
  <1>3. trace \in Traces({}) /\ LogTracksDriver /\ LogWellFormed
    BY DEF Init, EmptyTrace, Traces, LogTracksDriver, LogWellFormed, TurnPoints, StepPoints
  <1>4. TypeOK
    BY <1>1, <1>3 DEF Init, TypeOK, Phases, Points, Endings, Fates
  <1>5. SnapshotReleased /\ ProposedClaimed /\ LatchHeld /\ DrainedLeavesNone /\ PromptTargetFirst
    BY DEF Init, SnapshotReleased, ProposedClaimed, LatchHeld, DrainedLeavesNone,
           PromptTargetFirst
  <1>6. CancelKept /\ AbortStands
    BY DEF Init, CancelKept, AbortStands
  <1>7. QED
    BY <1>2, <1>3, <1>4, <1>5, <1>6 DEF DriverInv

\* The conjunction is inductive.
THEOREM DriverInvariant == Spec => []DriverInv
  <1>1. DriverInv /\ [Next]_vars => DriverInv'
    BY TypeStep, SnapshotStep, LogStep, QueueStep, LatchStep, DrainedStep, PromptStep,
       CancelKeptStep, AbortStandsStep
    DEF DriverInv
  <1>2. QED
    BY DriverInit, <1>1, PTL DEF Spec

\* Every variable of the driver keeps its type.
THEOREM TypeCorrect == Spec => []TypeOK
  <1>1. DriverInv => TypeOK
    BY DEF DriverInv
  <1>2. QED
    BY DriverInvariant, <1>1, PTL

\* The appends of turn() and step() obey the session's log rules on every path.
THEOREM LogAlwaysWellFormed == Spec => []LogWellFormed
  <1>1. DriverInv => LogWellFormed
    BY DEF DriverInv
  <1>2. QED
    BY DriverInvariant, <1>1, PTL

\* A driver that is not running left no turn and no step open in an accepting log.
THEOREM NothingLeftOpen == Spec => []ClosedWhenNotRunning
  <1>1. DriverInv => ClosedWhenNotRunning
    BY DEF DriverInv, TypeOK, LogTracksDriver, ClosedWhenNotRunning, TurnPoints
  <1>2. QED
    BY DriverInvariant, <1>1, PTL

\* The tool snapshot is held exactly between its capture and its one release.
THEOREM SnapshotNeverLeaks == Spec => []SnapshotReleased
  <1>1. DriverInv => SnapshotReleased
    BY DEF DriverInv
  <1>2. QED
    BY DriverInvariant, <1>1, PTL

\* A queued message is in exactly one list, once, and no other message is; and
\* none that a cancel found pending enters a step, whatever its listeners do.
THEOREM InboxConsistent == Spec => []InboxAccounted
  <1>1. DriverInv => InboxAccounted
    BY DEF DriverInv, CancelKept, InboxAccounted, CancelledNeverEnters
  <1>2. QED
    BY DriverInvariant, <1>1, PTL

\* No message behind a latched wake is left with an idle agent.
THEOREM LatchReplayed == Spec => []LatchedWakeReplayed
  <1>1. DriverInv => LatchedWakeReplayed
    BY DEF DriverInv, LatchHeld, LatchedWakeReplayed
  <1>2. QED
    BY DriverInvariant, <1>1, PTL

\* A driver that drained its inbox strands no message it accepted as live.
THEOREM DrainedStrandsNone == Spec => []StrandedOnlyByFailure
  <1>1. DriverInv => StrandedOnlyByFailure
    BY DEF DriverInv, TypeOK, DrainedLeavesNone, StrandedOnlyByFailure
  <1>2. QED
    BY DriverInvariant, <1>1, PTL

\* An abort that comes before its turn is over stands until the driver has given up.
THEOREM AbortsAreFinal == Spec => []AbortEndsDriver
  <1>1. DriverInv => AbortEndsDriver
    BY DEF DriverInv, AbortStands, AbortEndsDriver
  <1>2. QED
    BY DriverInvariant, <1>1, PTL

\* Prompts are claimed one per turn, by its first boundary.
THEOREM PromptOpensItsTurn == Spec => PromptOpensTurn
  <1>1. DriverInv /\ [Next]_vars => PromptClaim
    BY PromptClaimStep DEF DriverInv
  <1>2. QED
    BY DriverInvariant, <1>1, PTL DEF Spec, PromptOpensTurn, PromptClaim

\* On every path the log nests, and no turn, step or snapshot is left open.
THEOREM PathsClose == Spec => []ClosesWhatItOpens
  BY LogAlwaysWellFormed, NothingLeftOpen, SnapshotNeverLeaks, PTL DEF ClosesWhatItOpens

\* An idle agent is left with a woken message by a failure, a late arrival or a
\* cancel that dropped its latch only.
THEOREM WakesKept == Spec => []StrandsNoWake
  BY LatchReplayed, DrainedStrandsNone, PTL DEF StrandsNoWake
=============================================================================
