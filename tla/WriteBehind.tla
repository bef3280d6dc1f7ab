----------------------------- MODULE WriteBehind -----------------------------
(***************************************************************************)
(* SessionWriteBehind (packages/session/session-persistence/src/            *)
(* write-behind.ts): the batching write controller of one live session, as  *)
(* the persistence coordinator drives it.  Events are numbered by their     *)
(* place in the session's log.                                              *)
(*                                                                         *)
(* A settled write reaches the controller in several microtasks: the catch  *)
(* of startWrite, its finally, then the continuation of whoever waited.     *)
(* Producers can run between them, timers cannot; each is an action.        *)
(***************************************************************************)
EXTENDS Naturals, Sequences

CONSTANTS
  Flushers,   \* concurrent callers of the coordinator's flush
  MaxEvents   \* bound: events the session appends

ASSUME WriteBehindAssumption == MaxEvents \in Nat

VARIABLES
  submitted,   \* events in the session's log
  seed,        \* how many of them the coordinator's init stores
  init,        \* live.init: "pending", "ready" or "failed"
  stored,      \* the durable log
  pending,     \* queued events
  batch,       \* the events of the write in progress
  active,      \* "none", "writing", "resolved" or "rejected" (finally is due)
  background,  \* the active write was started by the automatic path
  timer,       \* the batching deadline is armed
  expired,     \* deadlineExpired
  paused,      \* automaticPaused
  continuing,  \* continueAutomatic is due
  barrier,     \* drainBarrier: "none", "overlap", "overlapped", "writing", "resume", "reject"
  flush,       \* each flush: "none", "init", "barrier", "done" or "failed"
  target       \* history: what the log held when the flush was called

queueVars == <<pending, batch, active, background, timer, expired>>
flushVars == <<flush, target>>
vars == <<submitted, seed, init, stored, queueVars, paused, continuing, barrier, flushVars>>

Init ==
  /\ seed \in 0..1 /\ submitted = seed /\ init = "pending" /\ stored = <<>>
  \* A session adopted at its first event has that event both in its seed and
  \* in the queue.
  /\ \/ pending = <<>> /\ timer = FALSE
     \/ seed = 1 /\ pending = <<1>> /\ timer = TRUE
  /\ batch = <<>> /\ active = "none" /\ background = FALSE /\ expired = FALSE
  /\ paused = FALSE /\ continuing = FALSE /\ barrier = "none"
  /\ flush = [f \in Flushers |-> "none"] /\ target = [f \in Flushers |-> 0]

-----------------------------------------------------------------------------
(* The coordinator's initialization of the session. *)

InitReady ==
  /\ init = "pending" /\ init' = "ready"
  /\ stored' = [i \in 1..seed |-> i]
  /\ UNCHANGED <<submitted, seed, queueVars, paused, continuing, barrier, flushVars>>

InitFails ==
  /\ init = "pending" /\ init' = "failed"
  /\ UNCHANGED <<submitted, seed, stored, queueVars, paused, continuing, barrier, flushVars>>

-----------------------------------------------------------------------------
(* enqueue() *)

Enqueue ==
  /\ submitted < MaxEvents
  /\ submitted' = submitted + 1
  /\ pending' = Append(pending, submitted + 1)
  /\ IF barrier = "none" /\ (paused \/ pending = <<>>)
       THEN /\ timer' = TRUE /\ paused' = FALSE
            /\ expired' = IF paused THEN FALSE ELSE expired
       ELSE UNCHANGED <<timer, paused, expired>>
  /\ UNCHANGED <<seed, init, stored, batch, active, background, continuing, barrier, flushVars>>

-----------------------------------------------------------------------------
(* Writes *)

StartWrite(automatic) ==
  /\ batch' = pending /\ pending' = <<>>
  /\ timer' = FALSE /\ expired' = FALSE
  /\ active' = "writing" /\ background' = automatic

\* appendLiveBatch: the events initialization stored, the first n of the batch, are
\* filtered; the rest must continue the stored log.
Fresh(n) == SubSeq(batch, n + 1, Len(batch))

WriteSucceeds ==
  /\ active = "writing" /\ init = "ready"
  /\ \E n \in 0..Len(batch) :
       /\ \A i \in 1..Len(batch) : batch[i] <= Len(stored) <=> i <= n
       /\ \A i \in 1..Len(Fresh(n)) : Fresh(n)[i] = Len(stored) + i
       /\ stored' = stored \o Fresh(n)
  /\ batch' = <<>> /\ active' = "resolved"
  /\ UNCHANGED <<submitted, seed, init, pending, background, timer, expired, paused,
                 continuing, barrier, flushVars>>

\* mutant: the failed batch goes behind what was queued meanwhile
WriteFailsRequeueing ==
  /\ active = "writing"
  /\ pending' = pending \o batch /\ batch' = <<>>
  /\ timer' = FALSE /\ expired' = FALSE /\ paused' = TRUE
  /\ active' = "rejected"
  /\ UNCHANGED <<submitted, seed, init, stored, background, continuing, barrier, flushVars>>

\* The backend, the initialization it awaits or the ownership check rejects.
WriteFails ==
  /\ active = "writing"
  /\ pending' = batch \o pending /\ batch' = <<>>
  /\ timer' = FALSE /\ expired' = FALSE /\ paused' = TRUE
  /\ active' = "rejected"
  /\ UNCHANGED <<submitted, seed, init, stored, background, continuing, barrier, flushVars>>

\* The finally of startWrite, which wakes whoever awaits the write.
WriteFinally ==
  /\ active \in {"resolved", "rejected"}
  /\ active' = "none"
  /\ continuing' = (background /\ active = "resolved")
  /\ barrier' = IF barrier = "overlap" THEN "overlapped"
                ELSE IF barrier = "writing"
                  THEN IF active = "resolved" THEN "resume" ELSE "reject"
                ELSE barrier
  /\ UNCHANGED <<submitted, seed, init, stored, pending, batch, background, timer, expired,
                 paused, flushVars>>

-----------------------------------------------------------------------------
(* The automatic path *)

MicrotaskDue ==
  active \in {"resolved", "rejected"} \/ continuing \/ barrier \in {"overlapped", "resume", "reject"}

OnDeadline ==
  /\ timer /\ ~MicrotaskDue
  /\ IF active # "none"
       THEN timer' = FALSE /\ expired' = TRUE /\ UNCHANGED <<pending, batch, active, background>>
       ELSE StartWrite(TRUE)
  /\ UNCHANGED <<submitted, seed, init, stored, paused, continuing, barrier, flushVars>>

\* mutant: the automatic path never continues by itself
ContinueNever ==
  /\ continuing /\ continuing' = FALSE
  /\ UNCHANGED <<submitted, seed, init, stored, queueVars, paused, barrier, flushVars>>

ContinueAutomatic ==
  /\ continuing /\ continuing' = FALSE
  /\ IF barrier = "none" /\ pending # <<>> /\ expired
       THEN StartWrite(TRUE)
       ELSE UNCHANGED queueVars
  /\ UNCHANGED <<submitted, seed, init, stored, paused, barrier, flushVars>>

-----------------------------------------------------------------------------
(* flush() and drainBarrier() *)

\* The coordinator's flush cancels the automatic wait and awaits the init.
CallFlush(f) ==
  /\ flush[f] \notin {"init", "barrier"}
  /\ flush' = [flush EXCEPT ![f] = "init"]
  /\ target' = [target EXCEPT ![f] = submitted]
  /\ timer' = FALSE /\ expired' = FALSE
  /\ UNCHANGED <<submitted, seed, init, stored, pending, batch, active, background, paused,
                 continuing, barrier>>

FlushInitFailed(f) ==
  /\ flush[f] = "init" /\ init = "failed"
  /\ flush' = [flush EXCEPT ![f] = "failed"]
  /\ timer' = FALSE /\ expired' = FALSE
  /\ UNCHANGED <<submitted, seed, init, stored, pending, batch, active, background, paused,
                 continuing, barrier, target>>

NotOverlapping == FALSE  \* mutant: a flush does not await the active write
Overlapping == active # "none"

JoinBarrier(f) ==
  /\ flush[f] = "init" /\ init = "ready" /\ barrier # "none"
  /\ flush' = [flush EXCEPT ![f] = "barrier"]
  /\ UNCHANGED <<submitted, seed, init, stored, queueVars, paused, continuing, barrier, target>>

OpenBarrier(f) ==
  /\ flush[f] = "init" /\ init = "ready" /\ barrier = "none"
  /\ paused' = FALSE
  /\ IF Overlapping
       THEN /\ timer' = FALSE /\ expired' = FALSE
            /\ barrier' = "overlap" /\ flush' = [flush EXCEPT ![f] = "barrier"]
            /\ UNCHANGED <<pending, batch, active, background>>
       ELSE IF pending # <<>>
       THEN /\ StartWrite(FALSE)
            /\ barrier' = "writing" /\ flush' = [flush EXCEPT ![f] = "barrier"]
       ELSE /\ timer' = FALSE /\ expired' = FALSE
            /\ flush' = [flush EXCEPT ![f] = "done"]
            /\ UNCHANGED <<pending, batch, active, background, barrier>>
  /\ UNCHANGED <<submitted, seed, init, stored, continuing, target>>

SettleBarrier(result) ==
  /\ barrier' = "none"
  /\ flush' = [f \in Flushers |-> IF flush[f] = "barrier" THEN result ELSE flush[f]]

DrainResumes ==
  /\ barrier \in {"overlapped", "resume"}
  /\ paused' = IF barrier = "overlapped" THEN FALSE ELSE paused
  /\ IF pending # <<>>
       THEN StartWrite(FALSE) /\ barrier' = "writing" /\ UNCHANGED flush
       ELSE SettleBarrier("done") /\ UNCHANGED queueVars
  /\ UNCHANGED <<submitted, seed, init, stored, continuing, target>>

\* mutant: the barrier goes away without telling who waits for it
DrainRejectsSilently ==
  /\ barrier = "reject" /\ barrier' = "none"
  /\ UNCHANGED <<submitted, seed, init, stored, queueVars, paused, continuing, flushVars>>

DrainRejects ==
  /\ barrier = "reject"
  /\ SettleBarrier("failed")
  /\ UNCHANGED <<submitted, seed, init, stored, queueVars, paused, continuing, target>>

-----------------------------------------------------------------------------
Microtask == WriteFinally \/ ContinueAutomatic \/ DrainResumes \/ DrainRejects

Settling == WriteSucceeds \/ WriteFails

EnterFlush(f) == FlushInitFailed(f) \/ JoinBarrier(f) \/ OpenBarrier(f)

Next ==
  \/ InitReady \/ InitFails \/ Enqueue \/ Settling \/ Microtask \/ OnDeadline
  \/ \E f \in Flushers : CallFlush(f) \/ EnterFlush(f)

Spec == Init /\ [][Next]_vars

\* The event loop runs its microtasks and timers, and the storage backend
\* settles every write and the initialization, one way or the other.
Fairness ==
  /\ WF_vars(InitReady \/ InitFails) /\ WF_vars(Settling)
  /\ WF_vars(Microtask) /\ WF_vars(OnDeadline)
  /\ \A f \in Flushers : WF_vars(EnterFlush(f))

FairSpec == Spec /\ Fairness

-----------------------------------------------------------------------------
(* Properties. *)

Events == 1..MaxEvents

\* Every variable keeps its shape; a batch exists only while it is written.
TypeOK ==
  /\ submitted \in Nat /\ seed \in 0..1 /\ init \in {"pending", "ready", "failed"}
  /\ stored \in Seq(Nat) /\ pending \in Seq(Nat) /\ batch \in Seq(Nat)
  /\ active \in {"none", "writing", "resolved", "rejected"} /\ background \in BOOLEAN
  /\ (batch # <<>>) = (active = "writing")
  /\ timer \in BOOLEAN /\ expired \in BOOLEAN /\ paused \in BOOLEAN /\ continuing \in BOOLEAN
  /\ barrier \in {"none", "overlap", "overlapped", "writing", "resume", "reject"}
  /\ flush \in [Flushers -> {"none", "init", "barrier", "done", "failed"}]
  /\ target \in [Flushers -> Nat]

\* No failure, retry, overlap of a flush with an automatic write or filtering
\* of the seed loses, repeats or reorders an event: what is stored is a prefix
\* of the log, and the write in progress with the queue is the whole rest.
NothingLost ==
  LET rest  == batch \o pending
      known == IF init = "ready" THEN Len(stored) ELSE seed
  IN /\ \A i \in 1..Len(stored) : stored[i] = i
     /\ \A i \in 1..Len(rest) : rest[i] = (submitted - Len(rest)) + i
     /\ submitted - Len(rest) <= known /\ known <= submitted

\* An event submitted while the backend works becomes durable without any
\* further call, unless a failed write pauses the automatic path.
BecomesDurable ==
  \A event \in Events :
    submitted >= event ~> (Len(stored) >= event \/ paused \/ init = "failed")

\* Every flush settles, also when it joined another's barrier or when the
\* write it waited for failed.
FlushSettles ==
  \A f \in Flushers : flush[f] \in {"init", "barrier"} ~> flush[f] \in {"done", "failed"}

\* The controller implements the durable log: in particular a flush succeeds
\* only when all that was in the log at its call is stored.
Abstract == INSTANCE DurableLog WITH
  stored <- Len(stored),
  flush  <- [f \in Flushers |-> IF flush[f] \in {"init", "barrier"} THEN "waiting" ELSE flush[f]]

ImplementsDurableLog == Abstract!Spec
=============================================================================
