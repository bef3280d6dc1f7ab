---------------------------- MODULE ResourceLock ----------------------------
(***************************************************************************)
(* ToolResourceLockManager (packages/core/tools/src/resource-lock.ts): fair *)
(* read/write locks that concurrent tool dispatches take, key by key in key *)
(* order, before their bodies run.                                          *)
(*                                                                         *)
(* A dispatch is one call of run(); it stands at                            *)
(*   idle       no call                                                     *)
(*   acquiring  about to run the next iteration of the acquisition loop     *)
(*   queued     awaiting the grant of its next key                          *)
(*   acting     every key held, awaiting the action                         *)
(*   unwinding  about to run the finally block                              *)
(*   releasing  inside the finally block                                    *)
(* acquire(), an abort's dispatch to its listeners and the finally block    *)
(* run to completion, so nothing else moves while `at` says that drain() is *)
(* on the stack, while a dispatch is releasing, or while an aborted signal  *)
(* still has listeners to call.                                             *)
(***************************************************************************)
EXTENDS Naturals, Sequences, SequencesExt, FiniteSets

CONSTANTS
  Dispatches,   \* concurrent calls of run()
  Keys,         \* resource keys, numbered in their sort order
  Signals,      \* abort signals; the calls of one step share the step's
  SignalOf(_),  \* the signal a dispatch was given
  ClaimsOf(_)   \* the sets of claims its tool may make

ASSUME LockAssumption ==
  /\ IsFiniteSet(Dispatches)
  /\ Keys \subseteq Nat
  /\ \A d \in Dispatches : SignalOf(d) \in Signals
  /\ \A d \in Dispatches : ClaimsOf(d) \subseteq SUBSET (Keys \X {"read", "write"})

VARIABLES
  pc,        \* where each dispatch stands
  intent,    \* its normalized claim on each key
  held,      \* the leases it keeps for its finally block
  aborted,   \* aborted signals
  readers, writer, queue,  \* ResourceState of each key
  present,   \* keys of the `states` map
  drainKey, at, outer  \* the drain() on the stack; outer: a reader loop encloses it

lockVars  == <<readers, writer, queue, present>>
drainVars == <<drainKey, at, outer>>
callVars  == <<pc, intent, held>>
vars == <<callVars, aborted, lockVars, drainVars>>

Access == {"read", "write"}
NoIntent == [k \in Keys |-> "none"]

Holds(d, k, access) == k \in held[d] /\ intent[d][k] = access
IsAborted(d)   == SignalOf(d) \in aborted
Unclaimed(d)   == {k \in Keys : intent[d][k] # "none"} \ held[d]
QueuedOn(k)    == ToSet(queue[k])

Init ==
  /\ pc = [d \in Dispatches |-> "idle"]
  /\ intent = [d \in Dispatches |-> NoIntent]
  /\ held = [d \in Dispatches |-> {}]
  /\ aborted = {}
  /\ readers = [k \in Keys |-> 0] /\ writer = [k \in Keys |-> FALSE]
  /\ queue = [k \in Keys |-> <<>>] /\ present = {}
  /\ drainKey \in Keys /\ at = "none" /\ outer = FALSE

\* A listener an abort has yet to call: that of a waiter of an aborted signal.
Dispatching == \E d \in Dispatches : pc[d] = "queued" /\ IsAborted(d)
Quiet == at = "none" /\ ~Dispatching /\ \A d \in Dispatches : pc[d] # "releasing"

Goto(d, point) == pc' = [pc EXCEPT ![d] = point]
Drain(k)       == drainKey' = k /\ at' = "head" /\ outer' = FALSE

-----------------------------------------------------------------------------
(* run() and acquire() *)

\* normalizeIntents(): write dominates read among the claims on one key.
Normalize(claims) ==
  [k \in Keys |-> IF <<k, "write">> \in claims THEN "write"
                  ELSE IF <<k, "read">> \in claims THEN "read" ELSE "none"]

Call(d, claims) ==
  /\ pc[d] = "idle"
  /\ intent' = [intent EXCEPT ![d] = Normalize(claims)]
  /\ Goto(d, "acquiring")
  /\ UNCHANGED <<held, aborted, lockVars, drainVars>>

\* mutant: claims are taken in the order the tool listed them
AnyUnclaimed(d, k) == k \in Unclaimed(d)
\* The acquisition loop goes through the keys in sort order.
NextInOrder(d, k) == k \in Unclaimed(d) /\ \A j \in Unclaimed(d) : k <= j

\* mutant: a reader joins other readers past the queue
AcquireBarging(d, k) ==
  /\ pc[d] = "acquiring" /\ NextInOrder(d, k)
  /\ IF IsAborted(d)
       THEN Goto(d, "unwinding") /\ UNCHANGED <<held, lockVars, drainVars>>
       ELSE /\ present' = present \cup {k}
            /\ IF intent[d][k] = "read" /\ ~writer[k]
                 THEN /\ readers' = [readers EXCEPT ![k] = @ + 1]
                      /\ held' = [held EXCEPT ![d] = @ \cup {k}]
                      /\ UNCHANGED <<pc, queue, writer, drainVars>>
                 ELSE /\ queue' = [queue EXCEPT ![k] = Append(@, d)]
                      /\ Goto(d, "queued") /\ Drain(k)
                      /\ UNCHANGED <<held, readers, writer>>
  /\ UNCHANGED <<intent, aborted>>

Acquire(d, k) ==
  /\ pc[d] = "acquiring" /\ NextInOrder(d, k)
  /\ IF IsAborted(d)
       THEN Goto(d, "unwinding") /\ UNCHANGED <<lockVars, drainVars>>
       ELSE /\ present' = present \cup {k}
            /\ queue' = [queue EXCEPT ![k] = Append(@, d)]
            /\ Goto(d, "queued") /\ Drain(k)
            /\ UNCHANGED <<readers, writer>>
  /\ UNCHANGED <<intent, held, aborted>>

\* Every key is held: signal.throwIfAborted(), then the action.
Enter(d) ==
  /\ pc[d] = "acquiring" /\ Unclaimed(d) = {}
  /\ Goto(d, IF IsAborted(d) THEN "unwinding" ELSE "acting")
  /\ UNCHANGED <<intent, held, aborted, lockVars, drainVars>>

ActionSettles(d) ==
  /\ pc[d] = "acting"
  /\ Goto(d, "unwinding")
  /\ UNCHANGED <<intent, held, aborted, lockVars, drainVars>>

\* mutant: a failed acquisition skips the finally block
BeginReleaseSkips(d) ==
  /\ pc[d] = "unwinding"
  /\ Goto(d, IF IsAborted(d) THEN "idle" ELSE "releasing")
  /\ UNCHANGED <<intent, held, aborted, lockVars, drainVars>>

\* The finally block releases the leases in reverse order, then run() settles.
BeginRelease(d) ==
  /\ pc[d] = "unwinding"
  /\ Goto(d, "releasing")
  /\ UNCHANGED <<intent, held, aborted, lockVars, drainVars>>

\* mutant: the lease is given back without a drain
ReleaseSilently(d, k) ==
  /\ pc[d] = "releasing" /\ at = "none"
  /\ k \in held[d] /\ \A j \in held[d] : j <= k
  /\ held' = [held EXCEPT ![d] = @ \ {k}]
  /\ IF intent[d][k] = "write"
       THEN writer' = [writer EXCEPT ![k] = FALSE] /\ UNCHANGED readers
       ELSE readers' = [readers EXCEPT ![k] = @ - 1] /\ UNCHANGED writer
  /\ UNCHANGED <<pc, intent, aborted, queue, present, drainVars>>

Release(d, k) ==
  /\ pc[d] = "releasing" /\ at = "none"
  /\ k \in held[d] /\ \A j \in held[d] : j <= k
  /\ held' = [held EXCEPT ![d] = @ \ {k}]
  /\ IF intent[d][k] = "write"
       THEN writer' = [writer EXCEPT ![k] = FALSE] /\ UNCHANGED readers
       ELSE readers' = [readers EXCEPT ![k] = @ - 1] /\ UNCHANGED writer
  /\ Drain(k)
  /\ UNCHANGED <<pc, intent, aborted, queue, present>>

Return(d) ==
  /\ pc[d] = "releasing" /\ at = "none" /\ held[d] = {}
  /\ Goto(d, "idle")
  /\ intent' = [intent EXCEPT ![d] = NoIntent]
  /\ UNCHANGED <<held, aborted, lockVars, drainVars>>

-----------------------------------------------------------------------------
(* Cancellation *)

Abort(s) ==
  /\ s \notin aborted
  /\ aborted' = aborted \cup {s}
  /\ UNCHANGED <<callVars, lockVars, drainVars>>

\* The next step has a signal of its own.
Renew(s) ==
  /\ s \in aborted
  /\ \A d \in Dispatches : SignalOf(d) = s => pc[d] = "idle"
  /\ aborted' = aborted \ {s}
  /\ UNCHANGED <<callVars, lockVars, drainVars>>

\* A waiter's abort listener.
OnAbort(d, k) ==
  /\ at = "none" /\ pc[d] = "queued" /\ IsAborted(d)
  /\ \E i \in 1..Len(queue[k]) :
       queue[k][i] = d /\ queue' = [queue EXCEPT ![k] = RemoveAt(@, i)]
  /\ Goto(d, "unwinding")
  /\ Drain(k)
  /\ UNCHANGED <<intent, held, aborted, readers, writer, present>>

-----------------------------------------------------------------------------
(***************************************************************************)
(* drain() and grant(), which call each other: at = "head" is the entry of  *)
(* drain, at = "readers" the test of its reader loop.  A waiter found       *)
(* aborted is rejected and drain entered again, from inside the loop when   *)
(* it was a reader.                                                         *)
(***************************************************************************)
HeadWants(access) ==
  queue[drainKey] # <<>> /\ intent[Head(queue[drainKey])][drainKey] = access

LeaveDrain == at' = (IF outer THEN "readers" ELSE "none") /\ outer' = FALSE /\ UNCHANGED drainKey

\* mutant: a waiting writer does not stop later readers
BlockedByWriterOnly == writer[drainKey]
Blocked == writer[drainKey] \/ (readers[drainKey] > 0 /\ HeadWants("write"))

DrainBlocked ==
  /\ at = "head" /\ Blocked
  /\ LeaveDrain
  /\ UNCHANGED <<callVars, aborted, lockVars>>

DrainEmpty ==
  /\ at = "head" /\ ~Blocked /\ queue[drainKey] = <<>>
  /\ present' = IF readers[drainKey] = 0 THEN present \ {drainKey} ELSE present
  /\ LeaveDrain
  /\ UNCHANGED <<callVars, aborted, readers, writer, queue>>

\* grant(): the head of the queue gets its lease.
Shift(d) == d = Head(queue[drainKey]) /\ queue' = [queue EXCEPT ![drainKey] = Tail(@)]

Lease(d) ==
  /\ Goto(d, "acquiring")
  /\ held' = [held EXCEPT ![d] = @ \cup {drainKey}]
  /\ UNCHANGED <<intent, aborted, present>>

Reject(d) ==
  /\ Goto(d, "unwinding")
  /\ UNCHANGED <<intent, held, aborted, readers, writer, present>>

GrantWriter(d) ==
  /\ at = "head" /\ ~Blocked /\ HeadWants("write") /\ Shift(d)
  /\ IF IsAborted(d)
       THEN Reject(d) /\ UNCHANGED drainVars
       ELSE /\ Lease(d) /\ LeaveDrain
            /\ writer' = [writer EXCEPT ![drainKey] = TRUE] /\ UNCHANGED readers

DrainReaders ==
  /\ at = "head" /\ ~Blocked /\ HeadWants("read")
  /\ at' = "readers"
  /\ UNCHANGED <<callVars, aborted, lockVars, drainKey, outer>>

GrantReader(d) ==
  /\ at = "readers" /\ HeadWants("read") /\ Shift(d)
  /\ IF IsAborted(d)
       THEN Reject(d) /\ at' = "head" /\ outer' = TRUE /\ UNCHANGED drainKey
       ELSE /\ Lease(d) /\ UNCHANGED drainVars
            /\ readers' = [readers EXCEPT ![drainKey] = @ + 1] /\ UNCHANGED writer

ReadersDone ==
  /\ at = "readers" /\ ~HeadWants("read")
  /\ at' = "none" /\ outer' = FALSE
  /\ UNCHANGED <<callVars, aborted, lockVars, drainKey>>

-----------------------------------------------------------------------------
Draining ==
  \/ DrainBlocked \/ DrainEmpty \/ DrainReaders \/ ReadersDone
  \/ \E d \in Dispatches : GrantWriter(d) \/ GrantReader(d)

Progress(d) ==
  \/ Quiet /\ (Enter(d) \/ BeginRelease(d) \/ \E k \in Keys : Acquire(d, k))
  \/ (\E k \in Keys : Release(d, k)) \/ Return(d)
  \/ \E k \in Keys : OnAbort(d, k)

Environment ==
  Quiet /\ ( \/ \E d \in Dispatches : \E claims \in ClaimsOf(d) : Call(d, claims)
             \/ \E s \in Signals : Abort(s) \/ Renew(s) )

Next ==
  \/ Draining \/ Environment
  \/ \E d \in Dispatches : Progress(d) \/ (Quiet /\ ActionSettles(d))

Spec == Init /\ [][Next]_vars

\* The event loop serves its callbacks in order, so a dispatch that can resume
\* again and again does (strong fairness), and a tool body that runs returns.
Fairness ==
  /\ WF_vars(Draining)
  /\ \A d \in Dispatches : SF_vars(Progress(d)) /\ SF_vars(Quiet /\ ActionSettles(d))

FairSpec == Spec /\ Fairness

-----------------------------------------------------------------------------
(* Properties. *)

Points == {"idle", "acquiring", "queued", "acting", "unwinding", "releasing"}

\* Every variable keeps its shape; leases are only kept on claimed keys.
TypeOK ==
  /\ pc \in [Dispatches -> Points]
  /\ intent \in [Dispatches -> [Keys -> Access \cup {"none"}]]
  /\ held \in [Dispatches -> SUBSET Keys]
  /\ aborted \subseteq Signals
  /\ readers \in [Keys -> Nat] /\ writer \in [Keys -> BOOLEAN]
  /\ queue \in [Keys -> Seq(Dispatches)] /\ present \subseteq Keys
  /\ drainKey \in Keys /\ at \in {"none", "head", "readers"} /\ outer \in BOOLEAN

\* Two dispatches that hold a lease on one key are both readers.
MutualExclusion ==
  \A d, e \in Dispatches : \A k \in Keys :
    (d # e /\ Holds(d, k, "write")) => ~Holds(e, k, "read") /\ ~Holds(e, k, "write")

\* The counters of a lock count its leases, and every lease goes back whatever
\* way its dispatch ends: an idle dispatch holds nothing.
LeasesAccounted ==
  /\ \A k \in Keys :
       /\ writer[k] <=> \E d \in Dispatches : Holds(d, k, "write")
       /\ readers[k] = Cardinality({d \in Dispatches : Holds(d, k, "read")})
  /\ \A d \in Dispatches : pc[d] = "idle" => held[d] = {}

\* Between callbacks nobody waits for a lock that would admit the head of its
\* queue: no release, grant or abort leaves a waiter behind.
NoLostWaiter ==
  at = "none" => \A k \in Keys :
    queue[k] # <<>> => \/ writer[k]
                       \/ readers[k] > 0 /\ intent[Head(queue[k])][k] = "write"

\* The table has an entry exactly for the keys somebody holds or waits for.
MapTracksUse ==
  at = "none" => \A k \in Keys :
    k \in present <=> (writer[k] \/ readers[k] > 0 \/ queue[k] # <<>>)

\* The lock table is exact: its counters are the leases given out, and it forgets
\* a key when nobody holds it or waits for it.
TableMatchesLeases == LeasesAccounted /\ MapTracksUse

\* A lock serves its waiters in arrival order: nobody is granted a key while an
\* earlier waiter stays in the queue.
NoOvertaking ==
  [][\A k \in Keys, d \in Dispatches :
       (k \in held'[d] /\ k \notin held[d]) =>
         \A e \in ToSet(queue'[k]) : \E i \in 1..Len(queue[k]) :
           queue[k][i] = d /\ \A j \in 1..i : queue[k][j] # e]_vars

\* No order of claims, grants and cancellations deadlocks: a waiter is served
\* or rejected.
WaitersServed ==
  \A d \in Dispatches : pc[d] = "queued" ~> pc[d] # "queued"
=============================================================================
