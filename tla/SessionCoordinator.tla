------------------------- MODULE SessionCoordinator -------------------------
(***************************************************************************)
(* Cold and live access to one persisted session                           *)
(* (packages/session/session-persistence/src/coordinator.ts, with the      *)
(* reservation table of preparations.ts): resumptions, loads and           *)
(* inspections share one reading of the log, a resumption reserves the      *)
(* unpublished Session and publishes it, the live Session writes its tail   *)
(* and retires.  Another process may write the log at any time, unless this  *)
(* one holds the session's lease: a resumption may carry it as a fence       *)
(* (mutation.ts), and nothing else keeps another process out.                *)
(*                                                                         *)
(* Every write changes the revision of the log, which is the number of        *)
(* events ever written.  An operation of the per-id chain is one step, but    *)
(* for a repair, which follows its revision check; the FIFO order is left     *)
(* open.                                                                      *)
(***************************************************************************)
EXTENDS Integers, FiniteSets

CONSTANTS
  Callers,      \* calls of prepare(), load() and inspect()
  Roles(_),     \* what a call may be: "prepare", "fenced" (a prepare with a fence), "load", "inspect"
  MaxStored,    \* bound: events in the log
  MaxMishaps    \* bound: failing operations, cancelled calls, evictions

ASSUME CoordinatorAssumption ==
  /\ MaxStored \in Nat /\ MaxMishaps \in Nat
  /\ \A c \in Callers : Roles(c) \subseteq {"prepare", "fenced", "load", "inspect"}

VARIABLES
  stored,      \* events written to the log, its revision
  torn,        \* the log ends in a tail that needs repair
  entry,       \* the preparation: its phase, and the length its reading found
  state,       \* the id's bookkeeping: "none", "ownerless" or "owned", and the cursor
  session,     \* the Session over this log: "none", "live" or "retired"
  length,      \* its events
  retirement,  \* "none", "draining", "backoff" or "retrying"
  fence,       \* the Session's: "none", "held", or "lost" to another process
  overtaken,   \* history: another process wrote since the last commit
  role,        \* what each call is, once it is made
  call,        \* where it stands
  joined,      \* the reading it waits for: the entry's, or one whose entry is gone
  wants,       \* the events its answer has to be flushed to, or begins with
  proof,       \* the fence it carries, until its Session has it: "none", "held" or "lost"
  missing,     \* history: events stored when it was made that its answer lacks
  mishaps

storeVars == <<stored, torn>>
liveVars == <<state, session, length, retirement, fence>>
callVars == <<role, call, joined, wants, proof, missing>>
vars == <<storeVars, overtaken, entry, liveVars, callVars, mishaps>>

Pending == -1
Failed == -2
Entry == -3     \* the entry's reading
Nowhere == -4   \* no reading
NoEntry == [phase |-> "none", reading |-> Pending]
Exclusive == entry.phase \in {"committing", "reserved"}
NoState == [owner |-> "none", cursor |-> 0]

Prepares(c) == role[c] \in {"prepare", "fenced"}

\* This process has the lease, which every process takes that writes under one.
LeaseHeld == fence = "held" \/ \E c \in Callers : proof[c] = "held"

Init ==
  /\ stored = 1 /\ torn \in BOOLEAN
  /\ entry = NoEntry
  /\ state = NoState /\ session = "none" /\ length = 0 /\ retirement = "none"
  /\ fence = "none" /\ overtaken = FALSE
  /\ role = [c \in Callers |-> "none"] /\ call = [c \in Callers |-> "idle"] /\ joined = [c \in Callers |-> Nowhere]
  /\ wants = [c \in Callers |-> 0] /\ missing = [c \in Callers |-> 0]
  /\ proof = [c \in Callers |-> "none"]
  /\ mishaps = 0

Mishap == mishaps < MaxMishaps /\ mishaps' = mishaps + 1

\* Those who joined an entry keep its reading when it is removed.
Detached == [c \in Callers |-> IF joined[c] = Entry THEN entry.reading ELSE joined[c]]

\* c goes on without a reading, and the entry is removed or not.
RemoveForgotten(c) ==  \* mutant: the entry stays in the table
  entry' = entry /\ joined' = [joined EXCEPT ![c] = Nowhere]

Remove(c) == entry' = NoEntry /\ joined' = [Detached EXCEPT ![c] = Nowhere]
Keep(c) == UNCHANGED entry /\ joined' = [joined EXCEPT ![c] = Nowhere]

StartsOver(c) == call' = [call EXCEPT ![c] = "start"] /\ UNCHANGED <<role, wants, proof, missing>>

\* c is over, with an answer that lacks that many of the events it has to show.
Ends(c, lacks) ==
  /\ call' = [call EXCEPT ![c] = "over"] /\ missing' = [missing EXCEPT ![c] = lacks]
  /\ role' = [role EXCEPT ![c] = "none"] /\ wants' = [wants EXCEPT ![c] = 0]
  /\ proof' = [proof EXCEPT ![c] = "none"]

Rejects(c) == Ends(c, 0)
Returns(c, n) == Ends(c, IF n < wants[c] THEN wants[c] - n ELSE 0)
Borrows(c) == Ends(c, 0)  \* a view that may be out of date

Reading(c) == IF joined[c] = Entry THEN entry.reading ELSE joined[c]

-----------------------------------------------------------------------------
(* prepare(), load(), inspect() *)

\* The lease is acquired before the call that carries it, and by one at a time.
Begin(c) ==
  /\ call[c] = "idle"
  /\ \E r \in Roles(c) :
       /\ r = "fenced" => ~LeaseHeld
       /\ role' = [role EXCEPT ![c] = r]
       /\ proof' = [proof EXCEPT ![c] = IF r = "fenced" THEN "held" ELSE "none"]
  /\ call' = [call EXCEPT ![c] = "start"] /\ wants' = [wants EXCEPT ![c] = stored]
  /\ UNCHANGED <<storeVars, overtaken, entry, liveVars, joined, missing, mishaps>>

\* waitForRetirement
Admit(c) ==
  /\ call[c] = "start" /\ retirement = "none"
  /\ call' = [call EXCEPT ![c] = "admitted"]
  /\ UNCHANGED <<role, storeVars, overtaken, entry, liveVars, joined, wants, proof, missing, mishaps>>

\* A live Session refuses a resumption and answers an inspection and, once its
\* events are flushed, a load.  The answer is the Session's, whatever another
\* process has written behind it.
LiveView(c) == IF state.cursor = stored THEN Returns(c, length) ELSE Borrows(c)

MeetLive(c) ==
  /\ call[c] = "admitted" /\ session = "live"
  /\ \/ Prepares(c) /\ Rejects(c)
     \/ role[c] = "inspect" /\ LiveView(c)
     \/ /\ role[c] = "load"
        /\ call' = [call EXCEPT ![c] = "flushing"] /\ wants' = [wants EXCEPT ![c] = length]
        /\ UNCHANGED <<role, proof, missing>>
  /\ UNCHANGED <<storeVars, overtaken, entry, liveVars, joined, mishaps>>

\* loadLiveSnapshot rejects a snapshot that fails to be stored, whose Session lost
\* its fence, or whose turn is open.
LoadLive(c) ==
  /\ call[c] = "flushing"
  /\ \/ fence # "lost" /\ state.cursor >= wants[c] /\ Returns(c, state.cursor) /\ UNCHANGED mishaps
     \/ (session = "none" \/ fence = "lost") /\ Rejects(c) /\ UNCHANGED mishaps
     \/ Mishap /\ Rejects(c)
  /\ UNCHANGED <<storeVars, overtaken, entry, liveVars, joined>>

\* entryFor: join the reading in the table or start one.
Join(c) ==
  /\ call[c] = "admitted" /\ session # "live"
  /\ call' = [call EXCEPT ![c] = "reading"] /\ joined' = [joined EXCEPT ![c] = Entry]
  /\ entry' = IF entry = NoEntry THEN [entry EXCEPT !.phase = "loading"] ELSE entry
  /\ UNCHANGED <<role, storeVars, overtaken, liveVars, wants, proof, missing, mishaps>>

\* prepareCore
Read ==
  /\ entry.phase = "loading"
  /\ \/ /\ entry' = [phase |-> "ready", reading |-> stored]
        /\ UNCHANGED <<joined, mishaps>>
     \/ /\ Mishap /\ entry' = NoEntry
        /\ joined' = [c \in Callers |-> IF joined[c] = Entry THEN Failed ELSE joined[c]]
  /\ UNCHANGED <<role, storeVars, overtaken, liveVars, call, wants, proof, missing>>

\* A reading whose entry was removed is still delivered to those who joined it.
ReadDetached(c) ==
  /\ joined[c] = Pending
  /\ joined' = [joined EXCEPT ![c] = stored]
  /\ UNCHANGED <<role, storeVars, overtaken, entry, liveVars, call, wants, proof, missing, mishaps>>

ReadFailed(c) ==
  /\ call[c] = "reading" /\ joined[c] = Failed
  /\ Rejects(c) /\ Keep(c)
  /\ UNCHANGED <<storeVars, overtaken, liveVars, mishaps>>

Delivered(c) == call[c] = "reading" /\ Reading(c) \notin {Pending, Failed}

ReadyOrHeld(c) == joined[c] = Entry /\ entry.phase # "loading"  \* mutant: waits once only
Ready(c) == joined[c] = Entry /\ entry.phase = "ready"

\* reserve(): take the entry once it is ready; start over when it is gone.
Reserve(c) ==
  /\ Delivered(c) /\ role[c] # "inspect"
  /\ \/ joined[c] # Entry /\ StartsOver(c) /\ Keep(c)
     \/ /\ Ready(c)
        /\ call' = [call EXCEPT ![c] = "committing"]
        /\ entry' = [entry EXCEPT !.phase = "committing"]
        /\ UNCHANGED <<role, joined, wants, proof, missing>>
  /\ UNCHANGED <<storeVars, overtaken, liveVars, mishaps>>

CurrentEnough(c) == Reading(c) <= stored  \* mutant: never compares the revisions

\* isPreparedSourceCurrent
Current(c) == Reading(c) = stored

\* commitPrepared for a log that someone owns or whose lease was lost, or that moved
\* on: the entry goes, and the last starts over.
CommitRefused(c) ==
  /\ call[c] = "committing" /\ Remove(c)
  /\ \/ (state.owner = "owned" \/ proof[c] = "lost") /\ Rejects(c) /\ UNCHANGED mishaps
     \/ state.owner # "owned" /\ proof[c] # "lost" /\ ~Current(c) /\ StartsOver(c) /\ UNCHANGED mishaps
     \/ Mishap /\ Rejects(c)
  /\ UNCHANGED <<storeVars, overtaken, liveVars>>

\* commitPrepared for a log that needs repair: it was current when it was compared.
StartRepair(c) ==
  /\ call[c] = "committing"
  /\ state.owner # "owned" /\ proof[c] # "lost" /\ Current(c) /\ torn
  /\ call' = [call EXCEPT ![c] = "repairing"]
  /\ UNCHANGED <<role, storeVars, overtaken, entry, liveVars, joined, wants, proof, missing, mishaps>>

\* commitRepair, whatever was appended in between; the reading starts over.  One that
\* fails may have cut the tail off.
Repair(c) ==
  /\ call[c] = "repairing" /\ Remove(c)
  /\ \/ stored' = stored + 1 /\ torn' = FALSE /\ StartsOver(c) /\ UNCHANGED mishaps
     \/ Mishap /\ Rejects(c) /\ stored' \in {stored, stored + 1} /\ UNCHANGED torn
  /\ UNCHANGED <<overtaken, liveVars>>

\* commitPrepared for a settled log.  A load gives its reservation back at once; a
\* caller that was cancelled meanwhile leaves the reading ready for others.
Commit(c) ==
  /\ call[c] = "committing"
  /\ state.owner # "owned" /\ proof[c] # "lost" /\ Current(c) /\ ~torn
  /\ state' = [owner |-> "ownerless", cursor |-> Reading(c)] /\ overtaken' = FALSE
  /\ \/ /\ role[c] = "load" /\ Remove(c)
        /\ Returns(c, Reading(c)) /\ UNCHANGED mishaps
     \/ /\ Prepares(c) /\ entry' = [entry EXCEPT !.phase = "reserved"]
        /\ call' = [call EXCEPT ![c] = "reserved"]
        /\ UNCHANGED <<role, joined, wants, proof, missing, mishaps>>
     \/ /\ Prepares(c) /\ Mishap /\ Rejects(c)
        /\ entry' = [entry EXCEPT !.phase = "ready"]
        /\ joined' = [joined EXCEPT ![c] = Nowhere]
  /\ UNCHANGED <<storeVars, session, length, retirement, fence>>

\* initFor and attachPrepared; setup may have appended an event already.  The fence
\* the resumption carried is the Session's for life.
Publish(c) ==
  /\ call[c] = "reserved" /\ state = [owner |-> "ownerless", cursor |-> Reading(c)]
  /\ Returns(c, Reading(c)) /\ Remove(c)
  /\ state' = [state EXCEPT !.owner = "owned"] /\ fence' = proof[c]
  /\ session' = "live"
  /\ \/ length' = state.cursor
     \/ stored < MaxStored /\ length' = state.cursor + 1
  /\ UNCHANGED <<storeVars, overtaken, retirement, mishaps>>

\* SessionPreparation's release; the reading is reusable if setup left no trace.
RollBack(c) ==
  /\ call[c] = "reserved" /\ Mishap /\ Rejects(c)
  /\ \/ Remove(c)
     \/ /\ entry' = [entry EXCEPT !.phase = "ready"]
        /\ joined' = [joined EXCEPT ![c] = Nowhere]
  /\ UNCHANGED <<storeVars, overtaken, liveVars>>

\* inspect(): the reading counts if the log has not moved on.  A stale one is
\* discarded, or borrowed when a reservation holds it.
Inspect(c) ==
  /\ Delivered(c) /\ role[c] = "inspect"
  /\ \/ session = "live" /\ LiveView(c) /\ Keep(c)
     \/ session # "live" /\ Current(c) /\ Returns(c, Reading(c)) /\ Keep(c)
     \/ /\ session # "live" /\ ~Current(c)
        /\ \/ joined[c] = Entry /\ Exclusive /\ Borrows(c) /\ Keep(c)
           \/ joined[c] = Entry /\ ~Exclusive /\ StartsOver(c) /\ Remove(c)
           \/ joined[c] # Entry /\ StartsOver(c) /\ Keep(c)
  /\ UNCHANGED <<storeVars, overtaken, liveVars, mishaps>>

\* The caller's signal, while it only waits.
Cancel(c) ==
  /\ call[c] \in {"start", "admitted", "reading"} /\ Mishap
  /\ Rejects(c) /\ Keep(c)
  /\ UNCHANGED <<storeVars, overtaken, liveVars>>

\* touch(): other sessions push a ready reading out of the table.
Evict ==
  /\ entry.phase = "ready" /\ Mishap
  /\ entry' = NoEntry /\ joined' = Detached
  /\ UNCHANGED <<role, storeVars, overtaken, liveVars, call, wants, proof, missing>>

-----------------------------------------------------------------------------
(* The live Session and its retirement. *)

\* Session.append and every write of the coordinator ask the fence first.
Fenced == fence # "lost"

Emit ==
  /\ session = "live" /\ Fenced /\ stored + (length - state.cursor) < MaxStored
  /\ length' = length + 1
  /\ UNCHANGED <<storeVars, overtaken, entry, state, session, retirement, fence, callVars, mishaps>>

\* appendCore: refused under a reservation; what was read before is stale.  The
\* events go where the log ends, also when that is no longer where the cursor is.
Store(n) ==
  /\ ~Exclusive /\ Fenced /\ state.owner = "owned" /\ n > state.cursor
  /\ stored' = stored + (n - state.cursor)
  /\ entry' = NoEntry /\ joined' = Detached

Write ==
  /\ session # "none"
  /\ \E n \in state.cursor + 1 .. length :
       Store(n) /\ state' = [state EXCEPT !.cursor = n]
  /\ UNCHANGED <<role, torn, overtaken, session, length, retirement, fence, call, wants, proof, missing, mishaps>>

Dispose ==
  /\ session = "live"
  /\ session' = "retired" /\ retirement' = "draining"
  /\ UNCHANGED <<storeVars, overtaken, entry, state, length, fence, callVars, mishaps>>

\* releaseRetired
Release == state' = NoState /\ session' = "none" /\ length' = 0 /\ retirement' = "none" /\ fence' = "none"

Drained == state.cursor = length

\* retireCore's flush fails once the fence is lost, under a reservation, in a backend
\* that finds the log's next event taken, and with the store, which may go on failing.
DrainFails ==
  /\ ~Fenced \/ ~Drained
  /\ IF ~Fenced \/ Exclusive \/ state.cursor # stored \/ retirement = "retrying"
       THEN UNCHANGED mishaps ELSE Mishap

Retire ==
  /\ retirement \in {"draining", "retrying"} /\ Drained /\ Fenced
  /\ Release
  /\ UNCHANGED <<storeVars, overtaken, entry, callVars, mishaps>>

\* mutant: the first failure releases the Session
RetireFailsReleasing ==
  /\ retirement = "draining" /\ DrainFails
  /\ Release
  /\ UNCHANGED <<storeVars, overtaken, entry, callVars>>

RetireFails ==
  /\ retirement = "draining" /\ DrainFails
  /\ retirement' = "backoff"
  /\ UNCHANGED <<storeVars, overtaken, entry, state, session, length, fence, callVars>>

RetryRetire ==
  /\ retirement = "backoff" /\ retirement' = "retrying"
  /\ UNCHANGED <<storeVars, overtaken, entry, state, session, length, fence, callVars, mishaps>>

\* The retry failed too: the Session is released with what it had not stored.
GiveUp ==
  /\ retirement = "retrying" /\ DrainFails
  /\ Release /\ torn' \in {torn, torn \/ Fenced}
  /\ UNCHANGED <<stored, overtaken, entry, callVars>>

-----------------------------------------------------------------------------
(* Other processes. *)

\* Another process appends, and may die at it.
External ==
  /\ stored < MaxStored /\ ~LeaseHeld
  /\ stored' = stored + 1 /\ torn' \in BOOLEAN /\ overtaken' = TRUE
  /\ UNCHANGED <<entry, liveVars, callVars, mishaps>>

\* mutant: a fence without runExclusive, which is asserted before the mutation only
TakeOverAnytime(c) == proof[c] = "held"

\* runExclusive: no process takes the lease over in a mutation under it.
MayTakeOver(c) == proof[c] = "held" /\ call[c] # "repairing"

\* Another process takes the lease when it expired or was given back.
TakeOver ==
  /\ \/ fence = "held" /\ fence' = "lost" /\ UNCHANGED proof
     \/ \E c \in Callers :
          MayTakeOver(c) /\ proof' = [proof EXCEPT ![c] = "lost"] /\ UNCHANGED fence
  /\ UNCHANGED <<role, storeVars, overtaken, entry, state, session, length, retirement,
                 call, joined, wants, missing, mishaps>>

CallStep(c) ==
  \/ Admit(c) \/ MeetLive(c) \/ LoadLive(c) \/ Join(c) \/ ReadFailed(c)
  \/ Reserve(c) \/ CommitRefused(c) \/ StartRepair(c) \/ Repair(c) \/ Commit(c)
  \/ Publish(c) \/ RollBack(c) \/ Inspect(c)

WriteStep == Write \/ Retire \/ RetireFails \/ RetryRetire \/ GiveUp

Next ==
  \/ \E c \in Callers : Begin(c) \/ Cancel(c) \/ CallStep(c)
  \/ Read \/ \E c \in Callers : ReadDetached(c)
  \/ Evict \/ Emit \/ WriteStep \/ Dispose \/ External \/ TakeOver

Spec == Init /\ [][Next]_vars

\* Every operation of the backend settles, every setup ends and every armed retry
\* fires; nobody has to call, write, dispose or cancel.
FairSpec ==
  /\ Spec
  /\ \A c \in Callers : WF_vars(CallStep(c))
  /\ WF_vars(Read) /\ \A c \in Callers : WF_vars(ReadDetached(c))
  /\ WF_vars(WriteStep)

-----------------------------------------------------------------------------
(* Properties. *)

TypeOK ==
  /\ stored \in Nat /\ torn \in BOOLEAN
  /\ entry \in [phase : {"none", "loading", "ready", "committing", "reserved"},
                reading : Nat \cup {Pending}]
  /\ state \in [owner : {"none", "ownerless", "owned"}, cursor : Nat]
  /\ session \in {"none", "live", "retired"} /\ length \in Nat
  /\ retirement \in {"none", "draining", "backoff", "retrying"}
  /\ fence \in {"none", "held", "lost"} /\ overtaken \in BOOLEAN
  /\ call \in [Callers -> {"idle", "start", "admitted", "reading", "flushing",
                          "committing", "repairing", "reserved", "over"}]
  /\ role \in [Callers -> {"none", "prepare", "fenced", "load", "inspect"}]
  /\ proof \in [Callers -> {"none", "held", "lost"}]
  /\ joined \in [Callers -> Nat \cup {Pending, Failed, Entry, Nowhere}]
  /\ wants \in [Callers -> Nat] /\ missing \in [Callers -> Nat]
  /\ mishaps \in 0..MaxMishaps

\* A resumed Session continues exactly the log it is over: however long ago its
\* history was read, the log ends where that history ends as long as no other
\* process wrote since the commit that checked its revision, and as long as the
\* Session's fence is held whatever other processes do; and a repair under a fence
\* is made to the log that was checked (commitPrepared, attachPrepared,
\* runPersistenceMutation).  Without a fence the check excludes nobody.
ContinuesItsLog ==
  /\ state.owner = "owned" /\ (fence = "held" \/ ~overtaken) => state.cursor = stored
  /\ \A c \in Callers : call[c] = "repairing" /\ role[c] = "fenced" => Reading(c) = stored

\* One log has one Session: an unpublished one is held by one resumption, and
\* never beside another that is live or still draining its tail (reserve's phases,
\* waitForRetirement, commitPrepared's owner check).
OneSession ==
  LET holders == {c \in Callers : call[c] = "reserved"}
  IN /\ Cardinality(holders) <= 1
     /\ holders # {} => session = "none" /\ entry.phase = "reserved"

\* The Session that owns the log, and what it has not stored.
Owner == IF session # "retired" THEN session
         ELSE IF retirement = "draining" THEN "closing" ELSE "retrying"
Seen == IF session = "none" THEN 0 ELSE state.cursor
Unstored == IF session = "none" THEN 0 ELSE length - state.cursor

\* Through all its readings, reservations and retirements, the log is one that
\* Sessions own in turn: each continues it where it ends, alone in its process
\* writes it, never after its fence was lost, and gives up events it has not stored
\* only when the retry of its retirement failed too (commitPrepared,
\* attachPrepared, appendCore, retireWithRetry).
Abstract == INSTANCE SessionOwner WITH owner <- Owner, seen <- Seen, tail <- Unstored

ImplementsSessionOwner == Abstract!Spec

\* An inspection or a load shows everything that was stored when it was asked for,
\* from whatever shared reading it is answered, unless it borrowed the reading of
\* a resumption in progress, or is shown a live Session that another process has
\* overtaken (inspect, discardReady).
ViewsAreCurrent == \A c \in Callers : missing[c] = 0

\* Every call is answered: sharing a reading, waiting for a reservation or for a
\* retirement, and starting over when the log moved on all come to an end.
CallsReturn == <>[](\A c \in Callers : call[c] \in {"idle", "over"})

=============================================================================
