------------------------- MODULE ResourceLockProofs -------------------------
(***************************************************************************)
(* Proofs about ResourceLock, for every set of dispatches, keys, signals    *)
(* and assignment of signals.  Mutual exclusion is not a local matter here: *)
(* a waiter rejected inside the reader loop enters drain again, and when    *)
(* that inner drain grants a writer, the loop around it would go on to      *)
(* grant readers.  It cannot, because aborted waiters are found only where  *)
(* readers already hold the lock, which in turn is the statement that no    *)
(* waiter was left behind before.  The invariants are therefore proved      *)
(* together.                                                                *)
(***************************************************************************)
EXTENDS ResourceLock, FiniteSetTheorems, SequenceTheorems, TLAPS

-----------------------------------------------------------------------------
(* What the edits of a queue - append, take the head, remove at an index - do to
   the set of its elements and to their distinctness. *)

\* Appending an element adds just it, and keeps a list without duplicates so
\* when the element is new.
LEMMA AppendElements ==
  ASSUME NEW S, NEW s \in Seq(S), NEW e \in S
  PROVE  /\ Append(s, e) \in Seq(S)
         /\ ToSet(Append(s, e)) = ToSet(s) \cup {e}
         /\ IsInjective(s) /\ e \notin ToSet(s) => IsInjective(Append(s, e))
  <1> DEFINE t == Append(s, e)
  <1>1. /\ t \in Seq(S) /\ Len(t) = Len(s) + 1 /\ DOMAIN t = 1..Len(s) + 1
        /\ DOMAIN s = 1..Len(s) /\ Len(s) \in Nat
    OBVIOUS
  <1>2. t[Len(s) + 1] = e /\ \A j \in 1..Len(s) : t[j] = s[j]
    OBVIOUS
  <1>3. ToSet(t) = ToSet(s) \cup {e}
    BY <1>1, <1>2 DEF ToSet
  <1>4. ASSUME IsInjective(s), e \notin ToSet(s)  PROVE IsInjective(t)
    <2> SUFFICES ASSUME NEW a \in 1..Len(s) + 1, NEW b \in 1..Len(s) + 1, t[a] = t[b]
                 PROVE  a = b
      BY <1>1 DEF IsInjective
    <2>1. \A j \in 1..Len(s) : t[j] # e
      BY <1>1, <1>2, <1>4 DEF ToSet
    <2>2. CASE a \in 1..Len(s) /\ b \in 1..Len(s)
      BY <1>1, <1>2, <1>4, <2>2 DEF IsInjective
    <2>3. CASE a = Len(s) + 1 \/ b = Len(s) + 1
      <3>1. a = Len(s) + 1 \/ a \in 1..Len(s)
        BY <1>1
      <3>2. b = Len(s) + 1 \/ b \in 1..Len(s)
        BY <1>1
      <3>3. QED
        BY <1>2, <2>1, <2>3, <3>1, <3>2
    <2>4. QED
      BY <1>1, <2>2, <2>3
  <1>5. QED
    BY <1>1, <1>3, <1>4

\* Taking the head leaves the other elements.
LEMMA TailElements ==
  ASSUME NEW S, NEW s \in Seq(S), s # <<>>
  PROVE  /\ Head(s) \in S /\ Tail(s) \in Seq(S) /\ Head(s) \in ToSet(s)
         /\ ToSet(s) = {Head(s)} \cup ToSet(Tail(s))
         /\ IsInjective(s) => IsInjective(Tail(s)) /\ Head(s) \notin ToSet(Tail(s))
  <1> DEFINE t == Tail(s)
  <1>1. /\ t \in Seq(S) /\ Len(s) \in Nat \ {0} /\ Len(t) = Len(s) - 1
        /\ DOMAIN t = 1..Len(s) - 1 /\ DOMAIN s = 1..Len(s) /\ Head(s) \in S
    BY EmptySeq, HeadTailProperties, LenProperties
  <1>2. Head(s) = s[1] /\ \A j \in 1..Len(s) - 1 : t[j] = s[j + 1]
    BY <1>1, HeadTailProperties
  <1>3. ToSet(s) = {Head(s)} \cup ToSet(t)
    <2>1. \A j \in 1..Len(s) : j = 1 \/ (j - 1 \in 1..Len(s) - 1 /\ s[j] = t[j - 1])
      BY <1>1, <1>2
    <2>2. ASSUME NEW x \in ToSet(s)  PROVE x \in {Head(s)} \cup ToSet(t)
      <3>1. PICK j \in 1..Len(s) : x = s[j]
        BY <1>1 DEF ToSet
      <3>2. QED
        BY <1>1, <1>2, <2>1, <3>1 DEF ToSet
    <2>3. \A j \in 1..Len(s) - 1 : j + 1 \in 1..Len(s) /\ t[j] = s[j + 1]
      BY <1>1, <1>2
    <2>4. 1 \in 1..Len(s)
      BY <1>1
    <2>5. {Head(s)} \cup ToSet(t) \subseteq ToSet(s)
      BY <1>1, <1>2, <2>3, <2>4 DEF ToSet
    <2>6. QED
      BY <2>2, <2>5
  <1>4. ASSUME IsInjective(s)  PROVE IsInjective(t) /\ Head(s) \notin ToSet(t)
    <2>1. \A a, b \in 1..Len(s) : s[a] = s[b] => a = b
      BY <1>1, <1>4 DEF IsInjective
    <2>2. \A a, b \in 1..Len(s) - 1 : t[a] = t[b] => a = b
      <3> TAKE a, b \in 1..Len(s) - 1
      <3>1. a + 1 \in 1..Len(s) /\ b + 1 \in 1..Len(s)
        BY <1>1
      <3>2. QED
        BY <1>2, <2>1, <3>1
    <2>3. \A j \in 1..Len(s) - 1 : t[j] # s[1]
      <3> TAKE j \in 1..Len(s) - 1
      <3>1. j + 1 \in 1..Len(s) /\ 1 \in 1..Len(s) /\ j + 1 # 1
        BY <1>1
      <3>2. QED
        BY <1>2, <2>1, <3>1
    <2>4. QED
      BY <1>1, <1>2, <2>2, <2>3 DEF IsInjective, ToSet
  <1>5. Head(s) \in ToSet(s)
    BY <1>3
  <1>6. QED
    BY <1>1, <1>3, <1>4, <1>5

\* Removing at an index drops that occurrence and keeps the order of the rest.
LEMMA RemoveAtElements ==
  ASSUME NEW S, NEW s \in Seq(S), NEW i \in 1..Len(s)
  PROVE  /\ RemoveAt(s, i) \in Seq(S)
         /\ ToSet(RemoveAt(s, i)) \subseteq ToSet(s)
         /\ IsInjective(s) =>
              IsInjective(RemoveAt(s, i)) /\ ToSet(RemoveAt(s, i)) = ToSet(s) \ {s[i]}
  <1> DEFINE a == SubSeq(s, 1, i - 1)
             b == SubSeq(s, i + 1, Len(s))
             t == RemoveAt(s, i)
             At(j) == IF j < i THEN j ELSE j + 1
  <1> HIDE DEF a, b, t, At
  <1>0. /\ Len(s) \in Nat /\ DOMAIN s = 1..Len(s)
        /\ i \in Nat /\ 1 <= i /\ i <= Len(s)
    OBVIOUS
  <1>1. /\ a \in Seq(S) /\ Len(a) = i - 1
        /\ \A j \in 1..i - 1 : a[j] = s[j]
    BY <1>0, SubSeqProperties DEF a
  <1>2. /\ b \in Seq(S) /\ Len(b) = Len(s) - i
        /\ \A j \in 1..Len(s) - i : b[j] = s[i + j]
    <2>1. \A j \in i + 1..Len(s) : s[j] \in S
      BY <1>0
    <2>2. /\ b \in Seq(S)
          /\ Len(b) = IF i + 1 <= Len(s) THEN Len(s) - (i + 1) + 1 ELSE 0
          /\ \A j \in 1..Len(s) - (i + 1) + 1 : b[j] = s[i + 1 + j - 1]
      BY <1>0, <2>1, SubSeqProperties DEF b
    <2>3. Len(s) - (i + 1) + 1 = Len(s) - i
      BY <1>0
    <2>4. Len(b) = Len(s) - i
      <3>1. \A n, k \in Nat :
              k <= n => (IF k + 1 <= n THEN n - (k + 1) + 1 ELSE 0) = n - k
        OBVIOUS
      <3>2. QED
        BY <1>0, <2>2, <3>1
    <2>5. ASSUME NEW j \in 1..Len(s) - i  PROVE b[j] = s[i + j]
      <3>1. i + 1 + j - 1 = i + j
        BY <1>0
      <3>2. QED
        BY <2>2, <2>3, <3>1
    <2>6. QED
      BY <2>2, <2>4, <2>5
  <1>3. /\ t \in Seq(S) /\ Len(t) = Len(s) - 1
        /\ \A j \in 1..Len(s) - 1 : t[j] = IF j <= i - 1 THEN a[j] ELSE b[j - (i - 1)]
    <2>1. t = a \o b
      BY DEF RemoveAt, a, b, t
    <2>2. /\ a \o b \in Seq(S) /\ Len(a \o b) = Len(a) + Len(b)
          /\ \A j \in 1..Len(a) + Len(b) :
               (a \o b)[j] = IF j <= Len(a) THEN a[j] ELSE b[j - Len(a)]
      BY <1>1, <1>2, ConcatProperties
    <2>3. Len(a) + Len(b) = Len(s) - 1
      BY <1>0, <1>1, <1>2
    <2>4. QED
      BY <1>1, <2>1, <2>2, <2>3
  <1>4. \A j \in 1..Len(s) - 1 : At(j) \in 1..Len(s) /\ At(j) # i /\ t[j] = s[At(j)]
    <2> TAKE j \in 1..Len(s) - 1
    <2>1. CASE j < i
      BY <1>0, <1>1, <1>3, <2>1 DEF At
    <2>2. CASE ~(j < i)
      <3>1. j - (i - 1) \in 1..Len(s) - i /\ i + (j - (i - 1)) = j + 1
        BY <1>0, <2>2
      <3>2. b[j - (i - 1)] = s[j + 1]
        BY <1>2, <3>1
      <3>3. QED
        BY <1>0, <1>3, <2>2, <3>2 DEF At
    <2>3. QED
      BY <2>1, <2>2
  <1>5. DOMAIN t = 1..Len(s) - 1
    BY <1>3, LenProperties
  <1>6. ToSet(t) \subseteq ToSet(s)
    BY <1>0, <1>4, <1>5 DEF ToSet
  <1>7. ASSUME IsInjective(s)  PROVE IsInjective(t) /\ ToSet(t) = ToSet(s) \ {s[i]}
    <2>1. \A x, y \in 1..Len(s) : s[x] = s[y] => x = y
      BY <1>0, <1>7 DEF IsInjective
    <2>2. \A x, y \in 1..Len(s) - 1 : t[x] = t[y] => x = y
      <3> TAKE x, y \in 1..Len(s) - 1
      <3>1. At(x) = At(y) => x = y
        BY <1>0 DEF At
      <3>2. QED
        BY <1>4, <2>1, <3>1
    <2>3. \A x \in 1..Len(s) - 1 : t[x] # s[i]
      BY <1>4, <2>1
    <2>4. \A x \in 1..Len(s) : x = i \/ \E j \in 1..Len(s) - 1 : x = At(j)
      <3> TAKE x \in 1..Len(s)
      <3>1. CASE x < i
        <4>1. x \in 1..Len(s) - 1 /\ At(x) = x
          BY <1>0, <3>1 DEF At
        <4>2. QED
          BY <4>1
      <3>2. CASE x > i
        <4>1. x - 1 \in 1..Len(s) - 1 /\ At(x - 1) = x
          BY <1>0, <3>2 DEF At
        <4>2. QED
          BY <4>1
      <3>3. QED
        BY <1>0, <3>1, <3>2
    <2>5. ASSUME NEW e \in ToSet(s), e # s[i]  PROVE e \in ToSet(t)
      <3>1. PICK x \in 1..Len(s) : e = s[x]
        BY <1>0 DEF ToSet
      <3>2. PICK j \in 1..Len(s) - 1 : x = At(j)
        BY <2>4, <2>5, <3>1
      <3>3. QED
        BY <1>4, <1>5, <3>1, <3>2 DEF ToSet
    <2>6. QED
      BY <1>5, <1>6, <2>2, <2>3, <2>5 DEF IsInjective, ToSet
  <1>8. QED
    BY <1>3, <1>6, <1>7 DEF t

-----------------------------------------------------------------------------
(* The inductive invariant. *)

\* An idle dispatch has no lease, and a lease is kept on a claimed key only.
CallsHold ==
  \A d \in Dispatches :
    /\ pc[d] = "idle" => held[d] = {}
    /\ \A k \in held[d] : intent[d][k] # "none"

\* A queue lists, once, dispatches that await that key and no other.
QueuesWait ==
  \A k \in Keys :
    /\ IsInjective(queue[k])
    /\ \A d \in QueuedOn(k) : pc[d] = "queued" /\ intent[d][k] # "none" /\ k \notin held[d]
    /\ \A j \in Keys : j # k => QueuedOn(j) \cap QueuedOn(k) = {}

ReadHolders(k)  == {d \in Dispatches : Holds(d, k, "read")}
WriteHolders(k) == {d \in Dispatches : Holds(d, k, "write")}

\* The counters of a lock are those of its leases, which never mix.
LeasesCounted(k) ==
  /\ readers[k] = Cardinality(ReadHolders(k))
  /\ writer[k] => readers[k] = 0 /\ \E d \in Dispatches : WriteHolders(k) = {d}
  /\ ~writer[k] => WriteHolders(k) = {}

\* No finally block runs while an abort calls its listeners; an aborted waiter
\* is met by a drain only where the lock is taken; the reader loop runs without
\* a writer, and what is nested in it with readers.
DrainSafe ==
  /\ Dispatching => \A d \in Dispatches : pc[d] # "releasing"
  /\ Dispatching /\ at # "none" => writer[drainKey] \/ readers[drainKey] > 0
  /\ at = "readers" => ~writer[drainKey] /\ (readers[drainKey] > 0 \/ HeadWants("read"))
  /\ outer => at # "none" /\ ~writer[drainKey] /\ readers[drainKey] > 0

Settled(k) == at = "none" \/ k # drainKey
InUse(k)   == writer[k] \/ readers[k] > 0 \/ queue[k] # <<>>

\* A lock that no drain is looking at admits no head of its queue.
Served(k) ==
  Settled(k) /\ queue[k] # <<>> =>
    writer[k] \/ (readers[k] > 0 /\ intent[Head(queue[k])][k] = "write")

\* Such a lock is in the table when it is in use; one being drained always is.
Tabled(k) == IF Settled(k) THEN k \in present <=> InUse(k) ELSE k \in present

LockInv ==
  /\ TypeOK /\ CallsHold /\ QueuesWait /\ DrainSafe
  /\ \A k \in Keys : LeasesCounted(k) /\ Served(k) /\ Tabled(k)

-----------------------------------------------------------------------------
(* The steps, by what they change. *)

\* A dispatch goes on without touching a lock.
Walks(d) ==
  /\ Quiet /\ pc[d] \in {"acquiring", "acting", "unwinding"}
  /\ \E point \in {"acting", "unwinding", "releasing"} : Goto(d, point)
  /\ UNCHANGED <<intent, held, aborted, lockVars, drainVars>>

\* A dispatch joins the queue of a key.
Joins(d, k) ==
  /\ Quiet /\ pc[d] = "acquiring" /\ k \in Unclaimed(d) /\ ~IsAborted(d)
  /\ present' = present \cup {k}
  /\ queue' = [queue EXCEPT ![k] = Append(@, d)]
  /\ Goto(d, "queued") /\ Drain(k)
  /\ UNCHANGED <<readers, writer, intent, held, aborted>>

\* A drain meets an aborted waiter; at the head of drain it is a writer.
Rejects(d) ==
  /\ queue[drainKey] # <<>> /\ IsAborted(d) /\ Shift(d) /\ Reject(d) /\ UNCHANGED drainKey
  /\ \/ at = "head" /\ UNCHANGED <<at, outer>>
     \/ at = "readers" /\ at' = "head" /\ outer' = TRUE

LeasesWriter(d) ==
  /\ at = "head" /\ ~Blocked /\ HeadWants("write") /\ Shift(d) /\ Lease(d) /\ LeaveDrain
  /\ writer' = [writer EXCEPT ![drainKey] = TRUE] /\ UNCHANGED readers

LeasesReader(d) ==
  /\ at = "readers" /\ HeadWants("read") /\ Shift(d) /\ Lease(d) /\ UNCHANGED drainVars
  /\ readers' = [readers EXCEPT ![drainKey] = @ + 1] /\ UNCHANGED writer

\* A drain moves on without touching the lock, except for its table entry.
Passes == DrainBlocked \/ DrainEmpty \/ DrainReaders \/ ReadersDone

\* The environment's aborts and renewals.
Signalled == Quiet /\ \E s \in Signals : Abort(s) \/ Renew(s)

\* Every step is one of these.
LEMMA NextKinds ==
  ASSUME [Next]_vars
  PROVE  \/ Signalled \/ Passes \/ UNCHANGED vars
         \/ \E d \in Dispatches :
              \/ Quiet /\ \E claims \in SUBSET (Keys \X Access) : Call(d, claims)
              \/ Walks(d) \/ Return(d)
              \/ \E k \in Keys : Joins(d, k) \/ Release(d, k) \/ OnAbort(d, k)
              \/ Rejects(d) \/ LeasesWriter(d) \/ LeasesReader(d)
  <1>1. ASSUME NEW d \in Dispatches, NEW k \in Keys, Quiet, Acquire(d, k)
        PROVE  Walks(d) \/ Joins(d, k)
    BY <1>1 DEF Acquire, NextInOrder, Walks, Joins, Goto
  <1>2. ASSUME NEW d \in Dispatches, Quiet, Enter(d) \/ BeginRelease(d) \/ ActionSettles(d)
        PROVE  Walks(d)
    BY <1>2 DEF Enter, BeginRelease, ActionSettles, Walks, Goto
  <1>3. ASSUME NEW d \in Dispatches, Progress(d)
        PROVE  \/ Walks(d) \/ Return(d)
               \/ \E k \in Keys : Joins(d, k) \/ Release(d, k) \/ OnAbort(d, k)
    BY <1>1, <1>2, <1>3 DEF Progress
  <1>4. ASSUME NEW d \in Dispatches, GrantWriter(d)
        PROVE  Rejects(d) \/ LeasesWriter(d)
    BY <1>4 DEF GrantWriter, Rejects, LeasesWriter, HeadWants, drainVars
  <1>5. ASSUME NEW d \in Dispatches, GrantReader(d)
        PROVE  Rejects(d) \/ LeasesReader(d)
    BY <1>5 DEF GrantReader, Rejects, LeasesReader, HeadWants
  <1>6. CASE Draining
    BY <1>4, <1>5, <1>6 DEF Draining, Passes
  <1>7. CASE Environment
    BY <1>7, LockAssumption DEF Environment, Signalled, Access
  <1>8. QED
    BY <1>2, <1>3, <1>6, <1>7 DEF Next

\* What a step relates when it leaves calls, aborts and locks alone.
LEMMA StutterKeeps ==
  ASSUME LockInv, UNCHANGED vars
  PROVE  LockInv'
  <1> USE DEF vars, callVars, lockVars, drainVars
  <1>1. TypeOK' = TypeOK /\ CallsHold' = CallsHold
    BY DEF TypeOK, CallsHold
  <1>2. QueuesWait' = QueuesWait
    BY DEF QueuesWait, QueuedOn
  <1>3. DrainSafe' = DrainSafe
    BY DEF DrainSafe, Dispatching, IsAborted, HeadWants
  <1>4. \A k \in Keys : LeasesCounted(k)' = LeasesCounted(k)
    BY DEF LeasesCounted, ReadHolders, WriteHolders, Holds
  <1>5. \A k \in Keys : Served(k)' = Served(k) /\ Tabled(k)' = Tabled(k)
    BY DEF Served, Tabled, Settled, InUse
  <1>6. QED
    BY <1>1, <1>2, <1>3, <1>4, <1>5 DEF LockInv

-----------------------------------------------------------------------------
(* Types. *)

\* The head of a non-empty queue waits there.
LEMMA HeadWaits ==
  ASSUME LockInv, NEW k \in Keys, queue[k] # <<>>
  PROVE  /\ Head(queue[k]) \in Dispatches /\ Head(queue[k]) \in QueuedOn(k)
         /\ Tail(queue[k]) \in Seq(Dispatches)
         /\ pc[Head(queue[k])] = "queued" /\ k \notin held[Head(queue[k])]
         /\ intent[Head(queue[k])][k] \in Access
         /\ IsInjective(Tail(queue[k]))
         /\ QueuedOn(k) = {Head(queue[k])} \cup ToSet(Tail(queue[k]))
         /\ Head(queue[k]) \notin ToSet(Tail(queue[k]))
  <1>1. queue[k] \in Seq(Dispatches) /\ IsInjective(queue[k])
    BY DEF LockInv, TypeOK, QueuesWait
  <1>2. /\ Head(queue[k]) \in Dispatches /\ Head(queue[k]) \in QueuedOn(k)
        /\ Tail(queue[k]) \in Seq(Dispatches) /\ IsInjective(Tail(queue[k]))
        /\ QueuedOn(k) = {Head(queue[k])} \cup ToSet(Tail(queue[k]))
        /\ Head(queue[k]) \notin ToSet(Tail(queue[k]))
    BY <1>1, TailElements DEF QueuedOn
  <1>3. intent \in [Dispatches -> [Keys -> Access \cup {"none"}]]
    BY DEF LockInv, TypeOK
  <1>4. QED
    BY <1>2, <1>3 DEF LockInv, QueuesWait

\* The holders of a key are finitely many, and a reader among them is counted.
LEMMA ReadersCounted ==
  ASSUME LockInv, NEW k \in Keys
  PROVE  /\ IsFiniteSet(ReadHolders(k)) /\ readers[k] = Cardinality(ReadHolders(k))
         /\ readers[k] \in Nat
         /\ readers[k] = 0 => ReadHolders(k) = {}
  <1>1. IsFiniteSet(ReadHolders(k))
    BY LockAssumption, FS_Subset DEF ReadHolders
  <1>2. readers[k] = Cardinality(ReadHolders(k)) /\ readers[k] \in Nat
    BY DEF LockInv, LeasesCounted, TypeOK
  <1>3. QED
    BY <1>1, <1>2, FS_EmptySet

LEMMA TypeKept ==
  ASSUME LockInv, [Next]_vars
  PROVE  TypeOK'
  <1> USE DEF TypeOK, LockInv
  <1>1. CASE Signalled
    BY <1>1 DEF Signalled, Abort, Renew, callVars, lockVars, drainVars
  <1>2. CASE Passes
    BY <1>2 DEF Passes, DrainBlocked, DrainEmpty, DrainReaders, ReadersDone, LeaveDrain,
                callVars, lockVars
  <1>3. ASSUME NEW d \in Dispatches, NEW claims \in SUBSET (Keys \X Access), Call(d, claims)
        PROVE  TypeOK'
    <2>1. Normalize(claims) \in [Keys -> Access \cup {"none"}]
      BY DEF Normalize, Access
    <2>2. QED
      BY <1>3, <2>1 DEF Call, Goto, Points, lockVars, drainVars
  <1>4. ASSUME NEW d \in Dispatches, Walks(d) \/ Return(d)
        PROVE  TypeOK'
    <2>1. CASE Walks(d)
      BY <2>1 DEF Walks, Goto, Points, lockVars, drainVars
    <2>2. CASE Return(d)
      <3>1. NoIntent \in [Keys -> Access \cup {"none"}]
        BY DEF NoIntent
      <3>2. QED
        BY <2>2, <3>1 DEF Return, Goto, Points, lockVars, drainVars
    <2>3. QED
      BY <1>4, <2>1, <2>2
  <1>5. ASSUME NEW d \in Dispatches, NEW k \in Keys, Joins(d, k)
        PROVE  TypeOK'
    <2>1. Append(queue[k], d) \in Seq(Dispatches)
      BY AppendElements
    <2>2. QED
      BY <1>5, <2>1 DEF Joins, Goto, Points, Drain
  <1>6. ASSUME NEW d \in Dispatches, NEW k \in Keys, Release(d, k)
        PROVE  TypeOK'
    <2>1. CASE intent[d][k] = "write"
      BY <1>6, <2>1 DEF Release, Drain
    <2>2. CASE intent[d][k] # "write"
      <3>1. intent[d][k] = "read" /\ k \in held[d]
        BY <1>6, <2>2 DEF Release, CallsHold, Access
      <3>2. readers[k] \in Nat \ {0}
        BY <3>1, ReadersCounted DEF ReadHolders, Holds
      <3>3. readers[k] - 1 \in Nat
        BY <3>2
      <3>4. QED
        BY <1>6, <2>2, <3>3 DEF Release, Drain
    <2>3. QED
      BY <2>1, <2>2
  <1>7. ASSUME NEW d \in Dispatches, NEW k \in Keys, OnAbort(d, k)
        PROVE  TypeOK'
    <2>1. PICK i \in 1..Len(queue[k]) : queue' = [queue EXCEPT ![k] = RemoveAt(@, i)]
      BY <1>7 DEF OnAbort
    <2>2. RemoveAt(queue[k], i) \in Seq(Dispatches)
      BY RemoveAtElements
    <2>3. QED
      BY <1>7, <2>1, <2>2 DEF OnAbort, Goto, Points, Drain
  <1>8. ASSUME NEW d \in Dispatches, Rejects(d) \/ LeasesWriter(d) \/ LeasesReader(d)
        PROVE  TypeOK'
    <2>1. queue[drainKey] # <<>> /\ queue' = [queue EXCEPT ![drainKey] = Tail(@)]
      BY <1>8 DEF Rejects, LeasesWriter, LeasesReader, HeadWants, Shift
    <2>2. Tail(queue[drainKey]) \in Seq(Dispatches)
      BY <2>1, HeadWaits
    <2>3. CASE Rejects(d)
      BY <2>1, <2>2, <2>3 DEF Rejects, Reject, Goto, Points
    <2>4. CASE LeasesWriter(d)
      BY <2>1, <2>2, <2>4 DEF LeasesWriter, Lease, LeaveDrain, Goto, Points
    <2>5. CASE LeasesReader(d)
      BY <2>1, <2>2, <2>5 DEF LeasesReader, Lease, Goto, Points, drainVars
    <2>6. QED
      BY <1>8, <2>3, <2>4, <2>5
  <1>9. CASE UNCHANGED vars
    BY <1>9 DEF vars, callVars, lockVars, drainVars
  <1>10. QED
    BY <1>1, <1>2, <1>3, <1>4, <1>5, <1>6, <1>7, <1>8, <1>9, NextKinds

-----------------------------------------------------------------------------
(* Calls and queues. *)

LEMMA CallsKept ==
  ASSUME LockInv, [Next]_vars
  PROVE  CallsHold'
  <1> USE DEF CallsHold
  <1>0. TypeOK /\ CallsHold
    BY DEF LockInv
  <1>1. CASE Signalled \/ Passes \/ UNCHANGED vars
    <2>1. UNCHANGED callVars
      BY <1>1 DEF Signalled, Abort, Renew, Passes, DrainBlocked, DrainEmpty, DrainReaders,
                  ReadersDone, vars
    <2>2. QED
      BY <1>0, <2>1 DEF callVars
  <1>2. ASSUME NEW d \in Dispatches,
               \/ \E claims \in SUBSET (Keys \X Access) : Call(d, claims)
               \/ Return(d)
        PROVE  CallsHold'
    <2>1. held[d] = {} /\ held' = held
      BY <1>0, <1>2 DEF Call, Return
    <2>2. \A e \in Dispatches \ {d} : pc'[e] = pc[e] /\ intent'[e] = intent[e]
      BY <1>0, <1>2 DEF Call, Return, Goto, TypeOK
    <2>3. QED
      BY <1>0, <2>1, <2>2
  <1>3. ASSUME NEW d \in Dispatches, NEW k \in Keys,
               Walks(d) \/ Joins(d, k) \/ OnAbort(d, k) \/ Rejects(d)
        PROVE  CallsHold'
    <2>1. UNCHANGED <<held, intent>>
      BY <1>3 DEF Walks, Joins, OnAbort, Rejects, Reject
    <2>2. \E point \in {"acting", "unwinding", "releasing", "queued"} : Goto(d, point)
      BY <1>3 DEF Walks, Joins, OnAbort, Rejects, Reject
    <2>3. \A e \in Dispatches : pc'[e] = "idle" => pc[e] = "idle"
      BY <1>0, <2>2 DEF Goto, TypeOK
    <2>4. QED
      BY <1>0, <2>1, <2>3
  <1>4. ASSUME NEW d \in Dispatches, NEW k \in Keys, Release(d, k)
        PROVE  CallsHold'
    BY <1>0, <1>4 DEF Release, TypeOK
  <1>5. ASSUME NEW d \in Dispatches, LeasesWriter(d) \/ LeasesReader(d)
        PROVE  CallsHold'
    <2>1. intent[d][drainKey] # "none" /\ Lease(d)
      BY <1>5 DEF LeasesWriter, LeasesReader, HeadWants, Shift
    <2>2. QED
      BY <1>0, <2>1 DEF Lease, Goto, TypeOK
  <1>6. QED
    BY <1>1, <1>2, <1>3, <1>4, <1>5, NextKinds, <1>0 DEF TypeOK

\* The calls of all dispatches but d stand still.
OthersKeep(d) ==
  \A e \in Dispatches \ {d} : pc'[e] = pc[e] /\ intent'[e] = intent[e] /\ held'[e] = held[e]

\* A dispatch that waits for nothing changes no queue by its own call.
LEMMA QueuesKeptElsewhere ==
  ASSUME LockInv, NEW d \in Dispatches, pc[d] # "queued", queue' = queue, OthersKeep(d)
  PROVE  QueuesWait'
  <1>1. \A k \in Keys : QueuedOn(k)' = QueuedOn(k) /\ QueuedOn(k) \subseteq Dispatches \ {d}
    <2>1. \A k \in Keys : QueuedOn(k) \subseteq Dispatches
      BY DEF QueuedOn, LockInv, TypeOK, ToSet
    <2>2. QED
      BY <2>1 DEF QueuedOn, LockInv, QueuesWait
  <1>2. QED
    BY <1>1 DEF QueuesWait, OthersKeep, LockInv

\* A dispatch leaves the queue of a key and every other stays as it is.
Leaves(d, k) ==
  /\ d \in QueuedOn(k) /\ OthersKeep(d)
  /\ IsInjective(queue'[k]) /\ ToSet(queue'[k]) = QueuedOn(k) \ {d}
  /\ \A j \in Keys \ {k} : queue'[j] = queue[j]

LEMMA QueuesKeptByLeaving ==
  ASSUME LockInv, NEW d \in Dispatches, NEW k \in Keys, Leaves(d, k)
  PROVE  QueuesWait'
  <1>1. \A j \in Keys : QueuedOn(j)' = QueuedOn(j) \ {d} /\ QueuedOn(j) \subseteq Dispatches
    <2>1. \A j \in Keys : QueuedOn(j) \subseteq Dispatches
      BY DEF QueuedOn, LockInv, TypeOK, ToSet
    <2>2. \A j \in Keys \ {k} : d \notin QueuedOn(j)
      BY DEF Leaves, LockInv, QueuesWait
    <2>3. QED
      BY <2>1, <2>2 DEF Leaves, QueuedOn
  <1>2. \A j \in Keys : IsInjective(queue'[j])
    BY DEF Leaves, LockInv, QueuesWait
  <1>3. QED
    BY <1>1, <1>2 DEF QueuesWait, Leaves, OthersKeep, LockInv

\* Every grant, rejection and cancellation takes a waiter off its queue.
LEMMA WaiterLeaves ==
  ASSUME LockInv, NEW d \in Dispatches, NEW k \in Keys,
         \/ OnAbort(d, k)
         \/ k = drainKey /\ (Rejects(d) \/ LeasesWriter(d) \/ LeasesReader(d))
  PROVE  Leaves(d, k)
  <1>0. TypeOK /\ IsInjective(queue[k])
    BY DEF LockInv, QueuesWait
  <1>1. CASE OnAbort(d, k)
    <2>1. PICK i \in 1..Len(queue[k]) :
            queue[k][i] = d /\ queue' = [queue EXCEPT ![k] = RemoveAt(@, i)]
      BY <1>1 DEF OnAbort
    <2>2. queue[k] \in Seq(Dispatches) /\ queue'[k] = RemoveAt(queue[k], i)
      BY <1>0, <2>1 DEF TypeOK
    <2>3. IsInjective(queue'[k]) /\ ToSet(queue'[k]) = QueuedOn(k) \ {d}
      BY <1>0, <2>1, <2>2, RemoveAtElements DEF QueuedOn
    <2>4. d \in QueuedOn(k)
      BY <2>1, <2>2 DEF QueuedOn, ToSet
    <2>5. OthersKeep(d)
      BY <1>0, <1>1 DEF OnAbort, Goto, OthersKeep, TypeOK
    <2>6. \A j \in Keys \ {k} : queue'[j] = queue[j]
      BY <1>0, <2>1 DEF TypeOK
    <2>7. QED
      BY <2>3, <2>4, <2>5, <2>6 DEF Leaves
  <1>2. CASE k = drainKey /\ (Rejects(d) \/ LeasesWriter(d) \/ LeasesReader(d))
    <2>1. queue[k] # <<>> /\ Shift(d)
      BY <1>2 DEF Rejects, LeasesWriter, LeasesReader, HeadWants
    <2>2. d = Head(queue[k]) /\ queue'[k] = Tail(queue[k])
      BY <1>0, <1>2, <2>1 DEF Shift, TypeOK
    <2>3. \A j \in Keys \ {k} : queue'[j] = queue[j]
      BY <1>0, <1>2, <2>1 DEF Shift, TypeOK
    <2>4. OthersKeep(d)
      <3>1. Reject(d) \/ Lease(d)
        BY <1>2 DEF Rejects, LeasesWriter, LeasesReader
      <3>2. QED
        BY <1>0, <3>1 DEF Reject, Lease, Goto, OthersKeep, TypeOK
    <2>5. /\ d \in QueuedOn(k) /\ IsInjective(queue'[k])
          /\ ToSet(queue'[k]) = QueuedOn(k) \ {d}
      BY <2>1, <2>2, HeadWaits
    <2>6. QED
      BY <2>3, <2>4, <2>5 DEF Leaves
  <1>3. QED
    BY <1>1, <1>2

LEMMA QueuesKept ==
  ASSUME LockInv, [Next]_vars
  PROVE  QueuesWait'
  <1>0. TypeOK /\ QueuesWait
    BY DEF LockInv
  <1>1. CASE Signalled \/ Passes \/ UNCHANGED vars
    <2>1. UNCHANGED <<callVars, queue>>
      BY <1>1 DEF Signalled, Abort, Renew, Passes, DrainBlocked, DrainEmpty, DrainReaders,
                  ReadersDone, vars, lockVars
    <2>2. QED
      BY <1>0, <2>1 DEF callVars, QueuesWait, QueuedOn
  <1>2. ASSUME NEW d \in Dispatches, NEW k \in Keys,
               \/ \E claims \in SUBSET (Keys \X Access) : Call(d, claims)
               \/ Walks(d) \/ Return(d) \/ Release(d, k)
        PROVE  QueuesWait'
    <2>1. pc[d] # "queued" /\ queue' = queue
      BY <1>2 DEF Call, Walks, Return, Release, lockVars
    <2>2. OthersKeep(d)
      BY <1>0, <1>2 DEF Call, Walks, Return, Release, Goto, OthersKeep, TypeOK
    <2>3. QED
      BY <2>1, <2>2, QueuesKeptElsewhere
  <1>3. ASSUME NEW d \in Dispatches, NEW k \in Keys, Joins(d, k)
        PROVE  QueuesWait'
    <2>1. \A j \in Keys : d \notin QueuedOn(j) /\ QueuedOn(j) \subseteq Dispatches
      <3>1. pc[d] # "queued"
        BY <1>3 DEF Joins
      <3>2. QED
        BY <1>0, <3>1 DEF QueuesWait, QueuedOn, TypeOK, ToSet
    <2>2. queue'[k] = Append(queue[k], d) /\ \A j \in Keys \ {k} : queue'[j] = queue[j]
      BY <1>0, <1>3 DEF Joins, TypeOK
    <2>3. IsInjective(queue'[k]) /\ QueuedOn(k)' = QueuedOn(k) \cup {d}
      <3>1. queue[k] \in Seq(Dispatches) /\ IsInjective(queue[k])
        BY <1>0 DEF TypeOK, QueuesWait
      <3>2. QED
        BY <2>1, <2>2, <3>1, AppendElements DEF QueuedOn
    <2>4. \A j \in Keys \ {k} : IsInjective(queue'[j]) /\ QueuedOn(j)' = QueuedOn(j)
      BY <1>0, <2>2 DEF QueuesWait, QueuedOn
    <2>5. /\ pc'[d] = "queued" /\ intent'[d][k] # "none" /\ k \notin held'[d]
          /\ \A e \in Dispatches \ {d} : pc'[e] = pc[e]
          /\ intent' = intent /\ held' = held
      BY <1>0, <1>3 DEF Joins, Goto, Unclaimed, TypeOK
    <2>6. QED
      BY <1>0, <2>1, <2>3, <2>4, <2>5 DEF QueuesWait
  <1>4. ASSUME NEW d \in Dispatches, NEW k \in Keys, OnAbort(d, k)
        PROVE  QueuesWait'
    BY <1>4, WaiterLeaves, QueuesKeptByLeaving
  <1>5. ASSUME NEW d \in Dispatches, Rejects(d) \/ LeasesWriter(d) \/ LeasesReader(d)
        PROVE  QueuesWait'
    <2>1. drainKey \in Keys
      BY <1>0 DEF TypeOK
    <2>2. QED
      BY <1>5, <2>1, WaiterLeaves, QueuesKeptByLeaving
  <1>6. Keys # {}
    BY <1>0 DEF TypeOK
  <1>7. QED
    BY <1>1, <1>2, <1>3, <1>4, <1>5, <1>6, NextKinds

-----------------------------------------------------------------------------
(* Leases. *)

\* The counters of a lock stay right while they and its holders stay the same.
LEMMA LeasesKeptWithHolders ==
  ASSUME LockInv, NEW k \in Keys, readers'[k] = readers[k], writer'[k] = writer[k],
         \A d \in Dispatches, access \in Access : Holds(d, k, access)' <=> Holds(d, k, access)
  PROVE  LeasesCounted(k)'
  <1>1. ReadHolders(k)' = ReadHolders(k) /\ WriteHolders(k)' = WriteHolders(k)
    BY DEF ReadHolders, WriteHolders, Access
  <1>2. QED
    BY <1>1 DEF LeasesCounted, LockInv

\* The head of a queue gets the lock alone when nobody holds it.
LEMMA WriterLeased ==
  ASSUME LockInv, NEW d \in Dispatches, LeasesWriter(d)
  PROVE  /\ ~writer[drainKey] /\ readers[drainKey] = 0 /\ writer'[drainKey] /\ UNCHANGED readers
         /\ LeasesCounted(drainKey)'
  <1>0. TypeOK /\ drainKey \in Keys /\ drainKey' = drainKey
    BY DEF LockInv, TypeOK, LeasesWriter, LeaveDrain
  <1>1. readers[drainKey] = 0 /\ ~writer[drainKey]
    BY <1>0 DEF LeasesWriter, Blocked, TypeOK
  <1>2. ReadHolders(drainKey) = {} /\ WriteHolders(drainKey) = {}
    BY <1>0, <1>1, ReadersCounted DEF LockInv, LeasesCounted
  <1>3. /\ intent[d][drainKey] = "write" /\ intent' = intent
        /\ held'[d] = held[d] \cup {drainKey}
        /\ \A e \in Dispatches \ {d} : held'[e] = held[e]
        /\ writer'[drainKey] /\ readers' = readers
    BY <1>0 DEF LeasesWriter, HeadWants, Shift, Lease, TypeOK
  <1>4. ReadHolders(drainKey)' = {}
    BY <1>0, <1>2, <1>3 DEF ReadHolders, Holds
  <1>5. WriteHolders(drainKey)' = {d}
    BY <1>0, <1>2, <1>3 DEF WriteHolders, Holds
  <1>6. QED
    BY <1>0, <1>1, <1>3, <1>4, <1>5, FS_EmptySet DEF LeasesCounted

\* The head of a queue joins the readers when there is no writer.
LEMMA ReaderLeased ==
  ASSUME LockInv, NEW d \in Dispatches, LeasesReader(d)
  PROVE  /\ ~writer[drainKey] /\ UNCHANGED writer
         /\ readers'[drainKey] = readers[drainKey] + 1
         /\ LeasesCounted(drainKey)'
  <1>0. TypeOK /\ drainKey \in Keys /\ drainKey' = drainKey
    BY DEF LockInv, TypeOK, LeasesReader, drainVars
  <1>1. ~writer[drainKey]
    BY DEF LeasesReader, LockInv, DrainSafe
  <1>2. /\ intent[d][drainKey] = "read" /\ intent' = intent /\ writer' = writer
        /\ held'[d] = held[d] \cup {drainKey}
        /\ \A e \in Dispatches \ {d} : held'[e] = held[e]
        /\ readers'[drainKey] = readers[drainKey] + 1
    BY <1>0 DEF LeasesReader, HeadWants, Shift, Lease, TypeOK
  <1>3. drainKey \notin held[d]
    BY <1>0, HeadWaits DEF LeasesReader, HeadWants, Shift
  <1>4. ReadHolders(drainKey)' = ReadHolders(drainKey) \cup {d}
    BY <1>0, <1>2 DEF ReadHolders, Holds
  <1>5. d \notin ReadHolders(drainKey)
    BY <1>3 DEF ReadHolders, Holds
  <1>6. Cardinality(ReadHolders(drainKey)') = readers[drainKey] + 1
    BY <1>0, <1>4, <1>5, ReadersCounted, FS_AddElement
  <1>7. WriteHolders(drainKey)' = WriteHolders(drainKey)
    BY <1>0, <1>2 DEF WriteHolders, Holds
  <1>8. WriteHolders(drainKey) = {}
    BY <1>0, <1>1 DEF LockInv, LeasesCounted
  <1>9. QED
    BY <1>0, <1>1, <1>2, <1>6, <1>7, <1>8 DEF LeasesCounted

\* The finally block gives back a lease the way it was taken.
LEMMA LeaseReleased ==
  ASSUME LockInv, NEW d \in Dispatches, NEW k \in Keys, Release(d, k)
  PROVE  /\ ~writer'[k] /\ LeasesCounted(k)'
         /\ \A j \in Keys \ {k} : readers'[j] = readers[j] /\ writer'[j] = writer[j]
  <1>0. TypeOK /\ LeasesCounted(k)
    BY DEF LockInv
  <1>1. /\ k \in held[d] /\ intent' = intent /\ intent[d][k] \in {"read", "write"}
        /\ held'[d] = held[d] \ {k}
        /\ \A e \in Dispatches \ {d} : held'[e] = held[e]
    <2>1. k \in held[d] /\ intent[d][k] # "none"
      BY DEF Release, LockInv, CallsHold
    <2>2. QED
      BY <1>0, <2>1 DEF Release, TypeOK, Access
  <1>2. ReadHolders(k)' = ReadHolders(k) \ {d} /\ WriteHolders(k)' = WriteHolders(k) \ {d}
    BY <1>1 DEF ReadHolders, WriteHolders, Holds
  <1>3. CASE intent[d][k] = "write"
    <2>1. d \in WriteHolders(k) /\ d \notin ReadHolders(k)
      BY <1>1, <1>3 DEF WriteHolders, ReadHolders, Holds
    <2>2. WriteHolders(k)' = {} /\ ReadHolders(k)' = ReadHolders(k)
      BY <1>0, <1>2, <2>1 DEF LeasesCounted
    <2>3. writer' = [writer EXCEPT ![k] = FALSE] /\ readers' = readers
      BY <1>3 DEF Release
    <2>4. ~writer'[k] /\ \A j \in Keys \ {k} : writer'[j] = writer[j]
      BY <1>0, <2>3 DEF TypeOK
    <2>5. QED
      BY <1>0, <2>2, <2>3, <2>4 DEF LeasesCounted
  <1>4. CASE intent[d][k] = "read"
    <2>1. d \in ReadHolders(k) /\ d \notin WriteHolders(k)
      BY <1>1, <1>4 DEF WriteHolders, ReadHolders, Holds
    <2>2. readers[k] # 0
      BY <2>1, ReadersCounted
    <2>3. ~writer[k] /\ WriteHolders(k)' = {}
      BY <1>0, <1>2, <2>1, <2>2 DEF LeasesCounted
    <2>4. readers' = [readers EXCEPT ![k] = @ - 1] /\ writer' = writer
      BY <1>4 DEF Release
    <2>5. Cardinality(ReadHolders(k)') = readers[k] - 1
      BY <1>2, <2>1, ReadersCounted, FS_RemoveElement
    <2>6. readers'[k] = readers[k] - 1 /\ \A j \in Keys \ {k} : readers'[j] = readers[j]
      BY <1>0, <2>4 DEF TypeOK
    <2>7. QED
      BY <2>3, <2>4, <2>5, <2>6 DEF LeasesCounted
  <1>5. QED
    BY <1>1, <1>3, <1>4

LEMMA LeasesKept ==
  ASSUME LockInv, [Next]_vars
  PROVE  \A k \in Keys : LeasesCounted(k)'
  <1>0. TypeOK /\ CallsHold
    BY DEF LockInv
  <1> SUFFICES ASSUME NEW k \in Keys
               PROVE  LeasesCounted(k)'
    OBVIOUS
  <1>1. CASE Signalled \/ Passes \/ UNCHANGED vars
    <2>1. UNCHANGED <<held, intent, readers, writer>>
      BY <1>1 DEF Signalled, Abort, Renew, Passes, DrainBlocked, DrainEmpty, DrainReaders,
                  ReadersDone, vars, lockVars, callVars
    <2>2. QED
      BY <2>1, LeasesKeptWithHolders DEF Holds
  <1>2. ASSUME NEW d \in Dispatches, NEW j \in Keys,
               Walks(d) \/ Joins(d, j) \/ OnAbort(d, j) \/ Rejects(d)
        PROVE  LeasesCounted(k)'
    <2>1. UNCHANGED <<held, intent, readers, writer>>
      BY <1>2 DEF Walks, Joins, OnAbort, Rejects, Reject, lockVars
    <2>2. QED
      BY <2>1, LeasesKeptWithHolders DEF Holds
  <1>3. ASSUME NEW d \in Dispatches,
               \/ \E claims \in SUBSET (Keys \X Access) : Call(d, claims)
               \/ Return(d)
        PROVE  LeasesCounted(k)'
    <2>1. held[d] = {} /\ UNCHANGED <<held, readers, writer>>
      BY <1>0, <1>3 DEF Call, Return, CallsHold, lockVars
    <2>2. \A e \in Dispatches \ {d} : intent'[e] = intent[e]
      BY <1>0, <1>3 DEF Call, Return, TypeOK
    <2>3. \A e \in Dispatches, access \in Access : Holds(e, k, access)' <=> Holds(e, k, access)
      BY <2>1, <2>2 DEF Holds
    <2>4. QED
      BY <2>1, <2>3, LeasesKeptWithHolders
  <1>4. ASSUME NEW d \in Dispatches, NEW j \in Keys, Release(d, j)
        PROVE  LeasesCounted(k)'
    <2>1. CASE j = k
      BY <1>4, <2>1, LeaseReleased
    <2>2. CASE j # k
      <3>1. readers'[k] = readers[k] /\ writer'[k] = writer[k]
        BY <1>4, <2>2, LeaseReleased
      <3>2. \A e \in Dispatches, access \in Access : Holds(e, k, access)' <=> Holds(e, k, access)
        BY <1>0, <1>4, <2>2 DEF Release, Holds, TypeOK
      <3>3. QED
        BY <3>1, <3>2, LeasesKeptWithHolders
    <2>3. QED
      BY <2>1, <2>2
  <1>5. ASSUME NEW d \in Dispatches, LeasesWriter(d) \/ LeasesReader(d)
        PROVE  LeasesCounted(k)'
    <2>0. drainKey' = drainKey /\ drainKey \in Keys
      BY <1>0, <1>5 DEF LeasesWriter, LeasesReader, LeaveDrain, drainVars, TypeOK
    <2>1. CASE k = drainKey
      BY <1>5, <2>0, <2>1, WriterLeased, ReaderLeased
    <2>2. CASE k # drainKey
      <3>1. readers'[k] = readers[k] /\ writer'[k] = writer[k]
        BY <1>0, <1>5, <2>2 DEF LeasesWriter, LeasesReader, TypeOK
      <3>2. Lease(d)
        BY <1>5 DEF LeasesWriter, LeasesReader
      <3>3. \A e \in Dispatches, access \in Access : Holds(e, k, access)' <=> Holds(e, k, access)
        BY <1>0, <2>2, <3>2 DEF Lease, Holds, TypeOK
      <3>4. QED
        BY <3>1, <3>3, LeasesKeptWithHolders
    <2>3. QED
      BY <2>1, <2>2
  <1>6. QED
    BY <1>1, <1>2, <1>3, <1>4, <1>5, NextKinds

-----------------------------------------------------------------------------
(* The drain. *)

\* Only a signal can start an abort's dispatch to its listeners, and a finally
\* block begins only when there is none.
LEMMA NoReleaseWhileDispatching ==
  ASSUME LockInv, [Next]_vars
  PROVE  (Dispatching => \A d \in Dispatches : pc[d] # "releasing")'
  <1>0. TypeOK /\ (Dispatching => \A d \in Dispatches : pc[d] # "releasing")
    BY DEF LockInv, DrainSafe
  <1>1. CASE Signalled
    BY <1>1 DEF Signalled, Abort, Renew, Quiet, callVars
  <1>2. CASE Passes \/ UNCHANGED vars
    <2>1. UNCHANGED <<pc, aborted>>
      BY <1>2 DEF Passes, DrainBlocked, DrainEmpty, DrainReaders, ReadersDone, vars, callVars
    <2>2. QED
      BY <1>0, <2>1 DEF Dispatching, IsAborted
  <1>3. ASSUME NEW d \in Dispatches, NEW k \in Keys,
               \/ Quiet /\ \E claims \in SUBSET (Keys \X Access) : Call(d, claims)
               \/ Walks(d) \/ Joins(d, k) \/ Return(d) \/ Release(d, k)
        PROVE  ~Dispatching'
    <2>1. ~Dispatching /\ aborted' = aborted
      BY <1>0, <1>3 DEF Walks, Joins, Return, Release, Call, Quiet
    <2>2. pc' = pc \/ \E point \in Points : Goto(d, point) /\ (point = "queued" => ~IsAborted(d))
      BY <1>3 DEF Walks, Joins, Return, Release, Call, Points
    <2>3. QED
      BY <1>0, <2>1, <2>2 DEF Goto, Dispatching, IsAborted, TypeOK
  <1>4. ASSUME NEW d \in Dispatches, NEW k \in Keys,
               OnAbort(d, k) \/ Rejects(d) \/ LeasesWriter(d) \/ LeasesReader(d)
        PROVE  (Dispatching => \A e \in Dispatches : pc[e] # "releasing")'
    <2>1. aborted' = aborted /\ (Goto(d, "unwinding") \/ Goto(d, "acquiring"))
      BY <1>4 DEF OnAbort, Rejects, Reject, LeasesWriter, LeasesReader, Lease
    <2>2. QED
      BY <1>0, <2>1 DEF Goto, Dispatching, IsAborted, TypeOK
  <1>5. Keys # {}
    BY <1>0 DEF TypeOK
  <1>6. QED
    BY <1>1, <1>2, <1>3, <1>4, <1>5, NextKinds

\* A waiter found aborted is one the abort has yet to reach, so the lock is taken.
LEMMA RejectedWhileTaken ==
  ASSUME LockInv, NEW d \in Dispatches, Rejects(d)
  PROVE  writer[drainKey] \/ readers[drainKey] > 0
  <1>1. drainKey \in Keys
    BY DEF LockInv, TypeOK
  <1>2. pc[d] = "queued" /\ IsAborted(d) /\ at # "none"
    BY <1>1, HeadWaits DEF Rejects, Shift
  <1>3. QED
    BY <1>2 DEF LockInv, DrainSafe, Dispatching

LEMMA DrainKept ==
  ASSUME LockInv, [Next]_vars
  PROVE  DrainSafe'
  <1>0. TypeOK /\ DrainSafe /\ drainKey \in Keys
    BY DEF LockInv, TypeOK
  <1>1. (Dispatching => \A d \in Dispatches : pc[d] # "releasing")'
    BY NoReleaseWhileDispatching
  <1>2. CASE at = "none" /\ UNCHANGED drainVars
    <2>1. at' = "none" /\ ~outer'
      BY <1>0, <1>2 DEF DrainSafe, drainVars
    <2>2. QED
      BY <1>1, <2>1 DEF DrainSafe
  <1>3. CASE Signalled
    BY <1>2, <1>3 DEF Signalled, Abort, Renew, Quiet
  <1>4. CASE UNCHANGED vars
    BY <1>4, StutterKeeps DEF LockInv
  <1>5. CASE Passes
    <2>1. /\ UNCHANGED <<pc, intent, aborted, queue, readers, writer, drainKey>> /\ at # "none"
      BY <1>5 DEF Passes, DrainBlocked, DrainEmpty, DrainReaders, ReadersDone, LeaveDrain,
                  callVars, lockVars
    <2>2. Dispatching' = Dispatching
      BY <2>1 DEF Dispatching, IsAborted
    <2>3. CASE DrainBlocked \/ DrainEmpty
      <3>1. ~outer' /\ at' = IF outer THEN "readers" ELSE "none"
        BY <2>3 DEF DrainBlocked, DrainEmpty, LeaveDrain
      <3>2. QED
        BY <1>0, <1>1, <2>1, <2>2, <3>1 DEF DrainSafe
    <2>4. CASE DrainReaders
      <3>1. ~writer[drainKey] /\ HeadWants("read") /\ at' = "readers" /\ outer' = outer
        BY <2>4 DEF DrainReaders, Blocked
      <3>2. HeadWants("read")'
        BY <2>1, <3>1 DEF HeadWants
      <3>3. QED
        BY <1>0, <1>1, <2>1, <2>2, <3>1, <3>2 DEF DrainSafe
    <2>5. CASE ReadersDone
      BY <1>1, <2>5 DEF ReadersDone, DrainSafe
    <2>6. QED
      BY <1>5, <2>3, <2>4, <2>5 DEF Passes
  <1>6. ASSUME NEW d \in Dispatches,
               \/ Quiet /\ \E claims \in SUBSET (Keys \X Access) : Call(d, claims)
               \/ Walks(d) \/ Return(d)
        PROVE  DrainSafe'
    BY <1>2, <1>6 DEF Call, Walks, Return, Quiet
  <1>7. ASSUME NEW d \in Dispatches, NEW k \in Keys, Joins(d, k) \/ Release(d, k)
        PROVE  DrainSafe'
    <2>1. ~Dispatching'
      <3>1. ~Dispatching /\ aborted' = aborted
        BY <1>0, <1>7 DEF Joins, Release, Quiet, DrainSafe
      <3>2. pc' = pc \/ (Goto(d, "queued") /\ ~IsAborted(d))
        BY <1>7 DEF Joins, Release
      <3>3. QED
        BY <1>0, <3>1, <3>2 DEF Goto, Dispatching, IsAborted, TypeOK
    <2>2. at' = "head" /\ outer' = FALSE
      BY <1>7 DEF Joins, Release, Drain
    <2>3. QED
      BY <2>1, <2>2 DEF DrainSafe
  <1>8. ASSUME NEW d \in Dispatches, NEW k \in Keys, OnAbort(d, k)
        PROVE  DrainSafe'
    <2>1. at = "none" /\ at' = "head" /\ outer' = FALSE /\ drainKey' = k
      BY <1>8 DEF OnAbort, Drain
    <2>2. queue[k] # <<>>
      BY <1>0, <1>8 DEF OnAbort, TypeOK
    <2>3. writer[k] \/ readers[k] > 0
      BY <2>1, <2>2 DEF LockInv, Served, Settled
    <2>4. UNCHANGED <<readers, writer>>
      BY <1>8 DEF OnAbort
    <2>5. QED
      BY <1>1, <2>1, <2>3, <2>4 DEF DrainSafe
  <1>9. ASSUME NEW d \in Dispatches, Rejects(d)
        PROVE  DrainSafe'
    <2>1. UNCHANGED <<readers, writer, drainKey>>
      BY <1>9 DEF Rejects, Reject
    <2>2. writer[drainKey] \/ readers[drainKey] > 0
      BY <1>9, RejectedWhileTaken
    <2>3. at' = "head" /\ (outer' = outer \/ at = "readers")
      BY <1>9 DEF Rejects
    <2>4. outer' => ~writer[drainKey] /\ readers[drainKey] > 0
      BY <1>0, <2>2, <2>3 DEF DrainSafe
    <2>5. QED
      BY <1>1, <2>1, <2>2, <2>3, <2>4 DEF DrainSafe
  <1>10. ASSUME NEW d \in Dispatches, LeasesWriter(d)
         PROVE  DrainSafe'
    <2>1. readers[drainKey] = 0
      BY <1>10, WriterLeased
    <2>2. ~outer
      BY <1>0, <2>1 DEF DrainSafe
    <2>3. at' = "none" /\ ~outer'
      BY <1>10, <2>2 DEF LeasesWriter, LeaveDrain
    <2>4. QED
      BY <1>1, <2>3 DEF DrainSafe
  <1>11. ASSUME NEW d \in Dispatches, LeasesReader(d)
         PROVE  DrainSafe'
    <2>1. UNCHANGED <<writer, drainKey, at, outer>> /\ at = "readers" /\ ~writer[drainKey]
      BY <1>11, ReaderLeased DEF LeasesReader, drainVars
    <2>2. readers[drainKey] \in Nat /\ readers'[drainKey] = readers[drainKey] + 1
      BY <1>0, <1>11, ReaderLeased DEF TypeOK
    <2>3. readers'[drainKey] > 0
      BY <2>2
    <2>4. QED
      BY <1>1, <2>1, <2>3 DEF DrainSafe
  <1>12. QED
    BY <1>3, <1>4, <1>5, <1>6, <1>7, <1>8, <1>9, <1>10, <1>11, NextKinds

-----------------------------------------------------------------------------
(* Waiters and table entries. *)

\* A step that leaves a lock, its drain and its waiters' claims alone.
LockStands(k) ==
  /\ Settled(k)' = Settled(k)
  /\ readers'[k] = readers[k] /\ writer'[k] = writer[k] /\ queue'[k] = queue[k]
  /\ k \in present' <=> k \in present
  /\ \A d \in QueuedOn(k) : intent'[d] = intent[d]

LEMMA StandingLockKept ==
  ASSUME LockInv, NEW k \in Keys, LockStands(k)
  PROVE  Served(k)' /\ Tabled(k)'
  <1>1. Served(k) /\ Tabled(k)
    BY DEF LockInv
  <1>2. InUse(k)' = InUse(k)
    BY DEF InUse, LockStands
  <1>3. Tabled(k)'
    BY <1>1, <1>2 DEF Tabled, LockStands
  <1>4. queue[k] # <<>> => intent'[Head(queue[k])] = intent[Head(queue[k])]
    BY HeadWaits DEF LockStands
  <1>5. Served(k)'
    BY <1>1, <1>4 DEF Served, LockStands
  <1>6. QED
    BY <1>3, <1>5

\* A step of one dispatch at one lock leaves the other locks standing.
LEMMA OtherLocksStand ==
  ASSUME LockInv, NEW d \in Dispatches, NEW j \in Keys, NEW k \in Keys \ {j},
         \/ Joins(d, j) \/ Release(d, j) \/ OnAbort(d, j)
         \/ j = drainKey /\ (Passes \/ Rejects(d) \/ LeasesWriter(d) \/ LeasesReader(d))
  PROVE  LockStands(k)
  <1>0. TypeOK
    BY DEF LockInv
  <1>1. CASE Joins(d, j) \/ Release(d, j) \/ OnAbort(d, j)
    <2>1. intent' = intent /\ Settled(k) /\ Settled(k)'
      BY <1>1 DEF Joins, Release, OnAbort, Quiet, Drain, Settled
    <2>2. readers'[k] = readers[k] /\ writer'[k] = writer[k]
      BY <1>0, <1>1, LeaseReleased DEF Joins, OnAbort
    <2>3. queue'[k] = queue[k] /\ (k \in present' <=> k \in present)
      BY <1>0, <1>1 DEF Joins, Release, OnAbort, TypeOK
    <2>4. QED
      BY <2>1, <2>2, <2>3 DEF LockStands
  <1>2. CASE j = drainKey /\ (Passes \/ Rejects(d) \/ LeasesWriter(d) \/ LeasesReader(d))
    <2>1. drainKey' = drainKey /\ intent' = intent
      BY <1>2 DEF Passes, DrainBlocked, DrainEmpty, DrainReaders, ReadersDone, LeaveDrain,
                  Rejects, Reject, LeasesWriter, LeasesReader, Lease, callVars, drainVars
    <2>2. Settled(k) /\ Settled(k)'
      BY <1>2, <2>1 DEF Settled
    <2>3. readers'[k] = readers[k] /\ writer'[k] = writer[k]
      BY <1>0, <1>2 DEF Passes, DrainBlocked, DrainEmpty, DrainReaders, ReadersDone,
                        Rejects, Reject, LeasesWriter, LeasesReader, lockVars, TypeOK
    <2>4. queue'[k] = queue[k]
      BY <1>0, <1>2 DEF Passes, DrainBlocked, DrainEmpty, DrainReaders, ReadersDone,
                        Rejects, LeasesWriter, LeasesReader, Shift, lockVars, TypeOK
    <2>5. k \in present' <=> k \in present
      BY <1>2 DEF Passes, DrainBlocked, DrainEmpty, DrainReaders, ReadersDone,
                  Rejects, Reject, LeasesWriter, LeasesReader, Lease, lockVars
    <2>6. QED
      BY <2>1, <2>2, <2>3, <2>4, <2>5 DEF LockStands
  <1>3. QED
    BY <1>1, <1>2

\* What a drain leaves behind at its own lock.
LEMMA DrainedLockKept ==
  ASSUME LockInv, Passes
  PROVE  Served(drainKey)' /\ Tabled(drainKey)'
  <1>0. TypeOK /\ drainKey \in Keys /\ readers[drainKey] \in Nat
    BY DEF LockInv, TypeOK
  <1>1. UNCHANGED <<intent, queue, readers, writer, drainKey>> /\ ~Settled(drainKey)
    BY DEF Passes, DrainBlocked, DrainEmpty, DrainReaders, ReadersDone, LeaveDrain, Settled,
           callVars, lockVars
  <1>2. drainKey \in present
    BY <1>0, <1>1 DEF LockInv, Tabled
  <1>3. InUse(drainKey)' = InUse(drainKey)
    BY <1>1 DEF InUse
  <1>4. CASE DrainBlocked
    <2>1. writer[drainKey] \/ (readers[drainKey] > 0 /\ HeadWants("write"))
      BY <1>4 DEF DrainBlocked, Blocked
    <2>2. Served(drainKey)'
      BY <1>1, <2>1 DEF Served, HeadWants
    <2>3. InUse(drainKey) /\ present' = present
      BY <1>4, <2>1 DEF InUse, DrainBlocked, lockVars
    <2>4. QED
      BY <1>1, <1>2, <1>3, <2>2, <2>3 DEF Tabled
  <1>5. CASE DrainEmpty
    <2>1. queue[drainKey] = <<>> /\ ~writer[drainKey]
      BY <1>5 DEF DrainEmpty, Blocked
    <2>2. Served(drainKey)'
      BY <1>1, <2>1 DEF Served
    <2>3. InUse(drainKey) <=> readers[drainKey] # 0
      BY <1>0, <2>1 DEF InUse
    <2>4. drainKey \in present' <=> readers[drainKey] # 0
      BY <1>2, <1>5 DEF DrainEmpty
    <2>5. Settled(drainKey)' \/ readers[drainKey] # 0
      <3>1. outer => readers[drainKey] > 0
        BY DEF LockInv, DrainSafe
      <3>2. ~outer => at' = "none"
        BY <1>5 DEF DrainEmpty, LeaveDrain
      <3>3. readers[drainKey] > 0 => readers[drainKey] # 0
        BY <1>0
      <3>4. QED
        BY <3>1, <3>2, <3>3 DEF Settled
    <2>6. QED
      BY <1>1, <1>3, <2>2, <2>3, <2>4, <2>5 DEF Tabled
  <1>6. CASE DrainReaders
    <2>1. ~Settled(drainKey)' /\ present' = present
      BY <1>1, <1>6 DEF DrainReaders, Settled, lockVars
    <2>2. QED
      BY <1>1, <1>2, <2>1 DEF Served, Tabled
  <1>7. CASE ReadersDone
    <2>1. readers[drainKey] > 0 /\ ~HeadWants("read") /\ present' = present
      BY <1>7 DEF ReadersDone, LockInv, DrainSafe, lockVars
    <2>2. queue[drainKey] # <<>> => intent[Head(queue[drainKey])][drainKey] = "write"
      BY <1>0, <2>1, HeadWaits DEF HeadWants, Access
    <2>3. Served(drainKey)'
      BY <1>1, <2>1, <2>2 DEF Served
    <2>4. InUse(drainKey)
      BY <2>1 DEF InUse
    <2>5. QED
      BY <1>1, <1>2, <1>3, <2>1, <2>3, <2>4 DEF Tabled
  <1>8. QED
    BY <1>4, <1>5, <1>6, <1>7 DEF Passes

LEMMA LocksKept ==
  ASSUME LockInv, [Next]_vars
  PROVE  \A k \in Keys : Served(k)' /\ Tabled(k)'
  <1>0. TypeOK /\ drainKey \in Keys
    BY DEF LockInv, TypeOK
  <1> SUFFICES ASSUME NEW k \in Keys
               PROVE  Served(k)' /\ Tabled(k)'
    OBVIOUS
  <1>1. CASE Signalled \/ UNCHANGED vars
    <2>1. UNCHANGED <<intent, lockVars, drainVars>>
      BY <1>1 DEF Signalled, Abort, Renew, vars, callVars
    <2>2. LockStands(k)
      BY <2>1 DEF LockStands, Settled, lockVars, drainVars
    <2>3. QED
      BY <2>2, StandingLockKept
  <1>2. CASE Passes
    <2>1. CASE k = drainKey
      <3>1. drainKey' = drainKey
        BY <1>2 DEF Passes, DrainBlocked, DrainEmpty, DrainReaders, ReadersDone, LeaveDrain
      <3>2. QED
        BY <1>2, <2>1, <3>1, DrainedLockKept DEF Served, Tabled, Settled, InUse
    <2>2. CASE k # drainKey
      <3>1. UNCHANGED <<intent, queue, readers, writer, drainKey>>
        BY <1>2 DEF Passes, DrainBlocked, DrainEmpty, DrainReaders, ReadersDone, LeaveDrain,
                    callVars, lockVars
      <3>2. k \in present' <=> k \in present
        BY <1>2, <2>2 DEF Passes, DrainBlocked, DrainEmpty, DrainReaders, ReadersDone, lockVars
      <3>3. LockStands(k)
        BY <2>2, <3>1, <3>2 DEF LockStands, Settled
      <3>4. QED
        BY <3>3, StandingLockKept
    <2>3. QED
      BY <2>1, <2>2
  <1>3. ASSUME NEW d \in Dispatches,
               \/ \E claims \in SUBSET (Keys \X Access) : Call(d, claims)
               \/ Walks(d) \/ Return(d)
        PROVE  Served(k)' /\ Tabled(k)'
    <2>1. pc[d] # "queued" /\ UNCHANGED <<lockVars, drainVars>>
      BY <1>3 DEF Call, Walks, Return
    <2>2. \A e \in Dispatches \ {d} : intent'[e] = intent[e]
      BY <1>0, <1>3 DEF Call, Walks, Return, TypeOK
    <2>3. QueuedOn(k) \subseteq Dispatches \ {d}
      BY <1>0, <2>1 DEF LockInv, QueuesWait, QueuedOn, TypeOK, ToSet
    <2>4. LockStands(k)
      BY <2>1, <2>2, <2>3 DEF LockStands, Settled, lockVars, drainVars
    <2>5. QED
      BY <2>4, StandingLockKept
  <1>4. ASSUME NEW d \in Dispatches, NEW j \in Keys, Joins(d, j) \/ Release(d, j) \/ OnAbort(d, j)
        PROVE  Served(k)' /\ Tabled(k)'
    <2>1. CASE k # j
      BY <1>4, <2>1, OtherLocksStand, StandingLockKept
    <2>2. CASE k = j
      <3>1. ~Settled(k)' /\ at = "none"
        BY <1>4, <2>2 DEF Joins, Release, OnAbort, Quiet, Drain, Settled
      <3>2. k \in present'
        <4>1. CASE Joins(d, j)
          BY <2>2, <4>1 DEF Joins
        <4>2. CASE Release(d, j)
          <5>1. d \in WriteHolders(k) \/ d \in ReadHolders(k)
            BY <1>0, <2>2, <4>2
               DEF Release, LockInv, CallsHold, WriteHolders, ReadHolders, Holds, TypeOK, Access
          <5>2. writer[k] \/ readers[k] # 0
            BY <5>1, ReadersCounted DEF LockInv, LeasesCounted
          <5>3. readers[k] # 0 => readers[k] > 0
            BY ReadersCounted
          <5>4. InUse(k)
            BY <5>2, <5>3 DEF InUse
          <5>5. QED
            BY <3>1, <4>2, <5>4 DEF Release, LockInv, Tabled, Settled
        <4>3. CASE OnAbort(d, j)
          <5>1. queue[k] # <<>>
            BY <1>0, <2>2, <4>3 DEF OnAbort, TypeOK
          <5>2. QED
            BY <3>1, <4>3, <5>1 DEF OnAbort, LockInv, Tabled, Settled, InUse
        <4>4. QED
          BY <1>4, <4>1, <4>2, <4>3
      <3>3. QED
        BY <3>1, <3>2 DEF Served, Tabled
    <2>3. QED
      BY <2>1, <2>2
  <1>5. ASSUME NEW d \in Dispatches, Rejects(d) \/ LeasesWriter(d) \/ LeasesReader(d)
        PROVE  Served(k)' /\ Tabled(k)'
    <2>1. CASE k # drainKey
      BY <1>0, <1>5, <2>1, OtherLocksStand, StandingLockKept
    <2>2. CASE k = drainKey
      <3>1. ~Settled(k) /\ present' = present /\ drainKey' = drainKey
        BY <1>5, <2>2 DEF Rejects, Reject, LeasesWriter, LeasesReader, Lease, LeaveDrain,
                          drainVars, Settled
      <3>2. k \in present'
        BY <3>1 DEF LockInv, Tabled
      <3>3. CASE Rejects(d) \/ LeasesReader(d)
        <4>1. ~Settled(k)'
          BY <2>2, <3>1, <3>3 DEF Rejects, LeasesReader, drainVars, Settled
        <4>2. QED
          BY <3>2, <4>1 DEF Served, Tabled
      <3>4. CASE LeasesWriter(d)
        BY <2>2, <3>2, <3>4, WriterLeased DEF Served, Tabled, InUse
      <3>5. QED
        BY <1>5, <3>3, <3>4
    <2>3. QED
      BY <2>1, <2>2
  <1>6. QED
    BY <1>1, <1>2, <1>3, <1>4, <1>5, NextKinds

-----------------------------------------------------------------------------
(* The theorems. *)

LEMMA LockInvInit ==
  ASSUME Init
  PROVE  LockInv
  <1>1. /\ pc \in [Dispatches -> Points] /\ held \in [Dispatches -> SUBSET Keys]
        /\ intent \in [Dispatches -> [Keys -> Access \cup {"none"}]]
        /\ readers \in [Keys -> Nat] /\ writer \in [Keys -> BOOLEAN]
        /\ queue \in [Keys -> Seq(Dispatches)]
    BY DEF Init, Points, NoIntent
  <1>2. TypeOK
    BY <1>1 DEF Init, TypeOK
  <1>3. CallsHold
    BY DEF Init, CallsHold
  <1>4. QueuesWait
    <2>1. \A k \in Keys : queue[k] = <<>>
      BY DEF Init
    <2>2. \A k \in Keys : QueuedOn(k) = {} /\ IsInjective(queue[k])
      BY <2>1 DEF QueuedOn, ToSet, IsInjective
    <2>3. QED
      BY <2>2 DEF QueuesWait
  <1>5. DrainSafe
    BY DEF Init, DrainSafe, Dispatching
  <1>6. ASSUME NEW k \in Keys  PROVE LeasesCounted(k) /\ Served(k) /\ Tabled(k)
    <2>1. ReadHolders(k) = {} /\ WriteHolders(k) = {}
      BY DEF Init, ReadHolders, WriteHolders, Holds
    <2>2. readers[k] = 0 /\ ~writer[k] /\ queue[k] = <<>> /\ present = {} /\ Settled(k)
      BY DEF Init, Settled
    <2>3. LeasesCounted(k)
      BY <2>1, <2>2, FS_EmptySet DEF LeasesCounted
    <2>4. QED
      BY <2>2, <2>3 DEF Served, Tabled, InUse
  <1>7. QED
    BY <1>2, <1>3, <1>4, <1>5, <1>6 DEF LockInv

LEMMA LockInvInvariant == Spec => []LockInv
  <1>1. LockInv /\ [Next]_vars => LockInv'
    BY TypeKept, CallsKept, QueuesKept, DrainKept, LeasesKept, LocksKept DEF LockInv
  <1>2. QED
    BY <1>1, LockInvInit, PTL DEF Spec

\* Every variable keeps its shape; the reader count of a key never goes below zero.
THEOREM LocksTyped == Spec => []TypeOK
  <1>1. LockInv => TypeOK
    BY DEF LockInv
  <1>2. QED
    BY <1>1, LockInvInvariant, PTL

\* Whatever order claims, grants and cancellations come in, a writer holds its
\* key alone: the drains nested in a reader loop admit no writer beside readers.
THEOREM LocksExclude == Spec => []MutualExclusion
  <1>1. LockInv => MutualExclusion
    <2> SUFFICES ASSUME LockInv, NEW d \in Dispatches, NEW e \in Dispatches, NEW k \in Keys,
                        d # e, Holds(d, k, "write")
                 PROVE  ~Holds(e, k, "read") /\ ~Holds(e, k, "write")
      BY DEF MutualExclusion
    <2>1. d \in WriteHolders(k)
      BY DEF WriteHolders
    <2>2. readers[k] = 0 /\ WriteHolders(k) = {d}
      BY <2>1 DEF LockInv, LeasesCounted
    <2>3. ReadHolders(k) = {}
      BY <2>2, ReadersCounted
    <2>4. QED
      BY <2>2, <2>3 DEF WriteHolders, ReadHolders
  <1>2. QED
    BY <1>1, LockInvInvariant, PTL

\* The counters of a lock are those of its leases, and a call that has ended,
\* by success, failure or abort, has given every lease back.
THEOREM LeasesBalance == Spec => []LeasesAccounted
  <1>1. LockInv => LeasesAccounted
    <2> SUFFICES ASSUME LockInv
                 PROVE  LeasesAccounted
      OBVIOUS
    <2>1. \A k \in Keys : writer[k] <=> \E d \in Dispatches : Holds(d, k, "write")
      BY DEF LockInv, LeasesCounted, WriteHolders
    <2>2. \A k \in Keys : readers[k] = Cardinality({d \in Dispatches : Holds(d, k, "read")})
      BY DEF LockInv, LeasesCounted, ReadHolders
    <2>3. QED
      BY <2>1, <2>2 DEF LeasesAccounted, LockInv, CallsHold
  <1>2. QED
    BY <1>1, LockInvInvariant, PTL

\* Between callbacks no lock would admit the head of its queue.
THEOREM WaitersSeen == Spec => []NoLostWaiter
  <1>1. LockInv => NoLostWaiter
    BY DEF LockInv, Served, Settled, NoLostWaiter
  <1>2. QED
    BY <1>1, LockInvInvariant, PTL

\* Between callbacks the table of locks has exactly the keys in use.
THEOREM TableExact == Spec => []MapTracksUse
  <1>1. LockInv => MapTracksUse
    BY DEF LockInv, Tabled, Settled, InUse, MapTracksUse
  <1>2. QED
    BY <1>1, LockInvInvariant, PTL

\* The step that NoOvertaking allows.
GrantsInOrder ==
  \A k \in Keys, d \in Dispatches :
    (k \in held'[d] /\ k \notin held[d]) =>
      \A e \in ToSet(queue'[k]) : \E i \in 1..Len(queue[k]) :
        queue[k][i] = d /\ \A j \in 1..i : queue[k][j] # e

\* Nobody is granted a key while an earlier waiter stays in its queue.
THEOREM ArrivalOrder == Spec => NoOvertaking
  <1>1. LockInv /\ [Next]_vars => GrantsInOrder
    <2> SUFFICES ASSUME LockInv, [Next]_vars, NEW k \in Keys, NEW d \in Dispatches,
                        k \in held'[d], k \notin held[d], NEW e \in ToSet(queue'[k])
                 PROVE  \E i \in 1..Len(queue[k]) :
                          queue[k][i] = d /\ \A j \in 1..i : queue[k][j] # e
      BY DEF GrantsInOrder
    <2>0. TypeOK
      BY DEF LockInv
    <2>1. \E c \in Dispatches : LeasesWriter(c) \/ LeasesReader(c)
      <3>1. held' # held
        OBVIOUS
      <3>2. ~(Signalled \/ Passes \/ UNCHANGED vars)
        BY <3>1 DEF Signalled, Abort, Renew, Passes, DrainBlocked, DrainEmpty, DrainReaders,
                    ReadersDone, vars, callVars
      <3>3. ASSUME NEW c \in Dispatches
            PROVE  /\ ~\E claims \in SUBSET (Keys \X Access) : Call(c, claims)
                   /\ ~Walks(c) /\ ~Return(c) /\ ~Rejects(c)
                   /\ \A j \in Keys : ~Joins(c, j) /\ ~OnAbort(c, j)
        BY <3>1 DEF Call, Walks, Return, Rejects, Reject, Joins, OnAbort
      <3>4. ASSUME NEW c \in Dispatches, NEW j \in Keys  PROVE ~Release(c, j)
        BY <2>0 DEF Release, TypeOK
      <3>5. QED
        BY <3>2, <3>3, <3>4, NextKinds
    <2>2. PICK c \in Dispatches : LeasesWriter(c) \/ LeasesReader(c)
      BY <2>1
    <2>3. c = d /\ k = drainKey
      <3>1. Lease(c)
        BY <2>2 DEF LeasesWriter, LeasesReader
      <3>2. QED
        BY <2>0, <3>1 DEF Lease, TypeOK
    <2>4. Leaves(d, k)
      BY <2>2, <2>3, WaiterLeaves
    <2>5. queue[k] # <<>> /\ d = Head(queue[k])
      BY <2>2, <2>3 DEF LeasesWriter, LeasesReader, HeadWants, Shift
    <2>6. 1 \in 1..Len(queue[k]) /\ queue[k][1] = d
      <3>1. queue[k] \in Seq(Dispatches)
        BY <2>0 DEF TypeOK
      <3>2. QED
        BY <2>5, <3>1
    <2>7. e # d
      BY <2>4 DEF Leaves
    <2>8. QED
      BY <2>6, <2>7
  <1>2. QED
    BY <1>1, LockInvInvariant, PTL DEF NoOvertaking, GrantsInOrder, Spec

\* The lock table is exact, its counters against the leases and its entries against
\* the keys in use.
THEOREM TableIsExact == Spec => []TableMatchesLeases
  BY LeasesBalance, TableExact, PTL DEF TableMatchesLeases
=============================================================================
