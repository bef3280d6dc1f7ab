------------------------- MODULE SubagentMailboxProofs -------------------------
(***************************************************************************)
(* Proofs about SubagentMailbox, for any callers, messages and mishaps.  A   *)
(* receipt is kept, through crashes, failed flushes and disposals; messages  *)
(* are delivered in the order of their acceptance; no crash and no           *)
(* resumption repeats one; and a settling child owes no delivery.            *)
(*                                                                         *)
(* ReceiptInv is about what is durable and needs nothing of what an inbox    *)
(* holds.  DeliveryInv is about the order of deliveries: the log's events    *)
(* follow one another, and the list that any beginning of the log leaves     *)
(* (what a crash or a failed flush may make the inbox of the next            *)
(* Activation) holds no message behind one that it must not overtake.        *)
(***************************************************************************)
EXTENDS SubagentMailbox, FiniteSetTheorems, SequenceTheorems, WellFoundedInduction, TLAPS

-----------------------------------------------------------------------------
(* The inductive invariant. *)

Sequence(l) == l \in Seq(ToSet(l))

At(l, kind, m) == {i \in 1..Len(l) : l[i] = <<kind, m>>}

\* The log is read up to stored after any crash; an acknowledgement has its message
\* before it; and none is scheduled for a message that is not in the transcript.
LogStands ==
  /\ Sequence(log) /\ stored \in Nat /\ stored <= Len(log)
  /\ \A m : \A i \in At(log, "claimed", m) : \E j \in At(log, "entered", m) : j < i
  /\ \A m \in acks : At(log, "entered", m) # {}
  /\ activation = "none" => driver = "none" /\ acks = {}

\* Callers inside the critical section of the child.
Inside == {"awaiting", "resuming", "submitting", "flushing", "unwinding", "clashing"}
Outside == {"idle", "waiting", "receipt", "failed"}

Durable(m, n) == n <= Len(log) /\ \E i \in At(log, "accepted", m) : i <= n

\* The lock is that of the one caller inside; the barrier of one that flushes covers
\* its acceptance, unless the session was retired without it.
CallersStand ==
  /\ caller \in [Callers -> Inside \cup Outside] /\ flushTo \in Nat
  /\ \A c \in Callers : caller[c] \in Inside => lock = c
  /\ \A c \in Callers : caller[c] = "flushing" =>
       (activation = "none" /\ flushTo > Len(log)) \/ Durable(Key(c), flushTo)
  /\ \A c \in Callers : caller[c] = "receipt" => Durable(Key(c), stored)

ReceiptInv == LogStands /\ CallersStand

-----------------------------------------------------------------------------
(* Logs. *)

LEMMA SequenceOf ==
  ASSUME NEW S, NEW l \in Seq(S)  PROVE Sequence(l)
  BY DEF Sequence, ToSet

\* What an append adds.
LEMMA Appended ==
  ASSUME NEW l, Sequence(l), NEW e
  PROVE  /\ Sequence(Append(l, e)) /\ Len(Append(l, e)) = Len(l) + 1 /\ Len(l) \in Nat
         /\ \A i \in 1..Len(l) : Append(l, e)[i] = l[i]
         /\ Append(l, e)[Len(l) + 1] = e
  <1> DEFINE S == ToSet(l) \cup {e}
  <1>1. l \in Seq(S) /\ e \in S
    BY DEF Sequence, ToSet
  <1> HIDE DEF S
  <1>2. Append(l, e) \in Seq(S) /\ Len(Append(l, e)) = Len(l) + 1 /\ Len(l) \in Nat
    BY <1>1
  <1>3. \A i \in 1..Len(l) : Append(l, e)[i] = l[i]
    BY <1>1
  <1>4. Append(l, e)[Len(l) + 1] = e
    BY <1>1
  <1>5. Sequence(Append(l, e))
    BY <1>2, SequenceOf
  <1> QED BY <1>2, <1>3, <1>4, <1>5, Zenon

LEMMA Concatenated ==
  ASSUME NEW l, Sequence(l), NEW k, Sequence(k)
  PROVE  /\ Sequence(l \o k) /\ Len(l \o k) = Len(l) + Len(k) /\ Len(l) \in Nat /\ Len(k) \in Nat
         /\ \A i \in 1..Len(l) : (l \o k)[i] = l[i]
         /\ \A i \in 1..Len(k) : (l \o k)[Len(l) + i] = k[i]
  <1> DEFINE S == ToSet(l) \cup ToSet(k)
  <1>1. l \in Seq(S) /\ k \in Seq(S)
    BY DEF Sequence, ToSet
  <1> HIDE DEF S
  <1>2. /\ l \o k \in Seq(S) /\ Len(l \o k) = Len(l) + Len(k)
        /\ \A i \in 1..Len(l) + Len(k) : (l \o k)[i] = IF i <= Len(l) THEN l[i] ELSE k[i - Len(l)]
    BY <1>1, ConcatProperties, Zenon
  <1>3. Len(l) \in Nat /\ Len(k) \in Nat
    BY <1>1
  <1>4. ASSUME NEW i \in 1..Len(l)  PROVE (l \o k)[i] = l[i]
    BY <1>2, <1>3
  <1>5. ASSUME NEW i \in 1..Len(k)  PROVE (l \o k)[Len(l) + i] = k[i]
    <2>1. Len(l) + i \in 1..Len(l) + Len(k) /\ ~(Len(l) + i <= Len(l)) /\ (Len(l) + i) - Len(l) = i
      BY <1>3
    <2> QED BY <1>2, <2>1
  <1>6. Sequence(l \o k)
    BY <1>2, SequenceOf
  <1> QED BY <1>2, <1>3, <1>4, <1>5, <1>6, Zenon

LEMMA Cut ==
  ASSUME NEW l, Sequence(l), NEW k \in Nat, k <= Len(l)
  PROVE  /\ Sequence(SubSeq(l, 1, k)) /\ Len(SubSeq(l, 1, k)) = k
         /\ \A i \in 1..k : SubSeq(l, 1, k)[i] = l[i]
  <1>1. Len(l) \in Nat /\ \A i \in 1..k : l[i] \in ToSet(l)
    BY DEF Sequence
  <1>2. SubSeq(l, 1, k) \in Seq(ToSet(l))
    BY <1>1, SubSeqProperties
  <1>3. Sequence(SubSeq(l, 1, k))
    BY <1>2, SequenceOf
  <1>4. Len(SubSeq(l, 1, k)) = k
    BY <1>1, SubSeqProperties
  <1> QED BY <1>1, <1>3, <1>4, SubSeqProperties

\* l is the beginning of k, which acknowledges nothing that l does not have.
Grows(l, k) ==
  /\ Sequence(k) /\ Len(l) <= Len(k) /\ \A i \in 1..Len(l) : k[i] = l[i]
  /\ \A m : \A i \in At(k, "claimed", m) : i \in At(l, "claimed", m) \/ At(l, "entered", m) # {}

LEMMA GrowsNot ==
  ASSUME NEW l, Sequence(l)  PROVE Grows(l, l)
  BY DEF Grows, At, Sequence

LEMMA GrowsByOne ==
  ASSUME NEW l, Sequence(l), NEW kind, NEW m, kind # "claimed" \/ At(l, "entered", m) # {}
  PROVE  Grows(l, Append(l, <<kind, m>>)) /\ At(Append(l, <<kind, m>>), kind, m) # {}
  <1> DEFINE k == Append(l, <<kind, m>>)
  <1>1. /\ Sequence(k) /\ Len(k) = Len(l) + 1 /\ Len(l) \in Nat
        /\ \A i \in 1..Len(l) : k[i] = l[i]
        /\ k[Len(l) + 1] = <<kind, m>>
    BY Appended
  <1> HIDE DEF k
  <1>2. \A i \in 1..Len(k) : i = Len(l) + 1 \/ i \in 1..Len(l)
    BY <1>1
  <1>3. Len(l) <= Len(k) /\ Len(l) + 1 \in 1..Len(k)
    BY <1>1
  <1>4. \A n : \A i \in At(k, "claimed", n) : i \in At(l, "claimed", n) \/ At(l, "entered", n) # {}
    <2> SUFFICES ASSUME NEW n, NEW i \in At(k, "claimed", n)
                 PROVE  i \in At(l, "claimed", n) \/ At(l, "entered", n) # {}
      OBVIOUS
    <2>1. i \in 1..Len(k) /\ k[i] = <<"claimed", n>>
      BY DEF At
    <2>2. CASE i \in 1..Len(l)
      BY <1>1, <2>1, <2>2 DEF At
    <2>3. CASE i = Len(l) + 1
      <3>1. <<kind, m>> = <<"claimed", n>>
        BY <1>1, <2>1, <2>3
      <3>2. kind = "claimed" /\ m = n
        BY <3>1
      <3> QED BY <3>2
    <2> QED BY <1>2, <2>1, <2>2, <2>3
  <1>5. Grows(l, k) /\ At(k, kind, m) # {}
    BY <1>1, <1>3, <1>4 DEF Grows, At
  <1> QED BY <1>5 DEF k

-----------------------------------------------------------------------------
(* What a step may do to the log. *)

LEMMA GrowthKeeps ==
  ASSUME LogStands, Grows(log, log'), stored' \in Nat, stored <= stored', stored' <= Len(log'),
         \A m \in acks' : m \in acks \/ At(log', "entered", m) # {},
         activation' = "none" => driver' = "none" /\ acks' = {}
  PROVE  /\ LogStands'
         /\ \A m : \A n \in Nat : Durable(m, n) => Durable(m, n)'
         /\ \A m : Durable(m, stored) => Durable(m, stored)'
  <1>1. /\ Sequence(log') /\ Len(log) \in Nat /\ Len(log') \in Nat /\ Len(log) <= Len(log')
        /\ stored \in Nat
    BY DEF LogStands, Sequence, Grows
  <1>2. \A kind, m : At(log, kind, m) \subseteq At(log', kind, m)
    BY <1>1 DEF Grows, At
  <1>3. \A m : \A i \in At(log', "claimed", m) : \E j \in At(log', "entered", m) : j < i
    <2> SUFFICES ASSUME NEW m, NEW i \in At(log', "claimed", m)
                 PROVE  \E j \in At(log', "entered", m) : j < i
      OBVIOUS
    <2>1. CASE i \in At(log, "claimed", m)
      BY <1>2, <2>1 DEF LogStands
    <2>2. CASE i \notin At(log, "claimed", m)
      <3>1. PICK j \in At(log, "entered", m) : TRUE
        BY <2>2 DEF Grows
      <3>2. i \notin 1..Len(log) /\ i \in 1..Len(log') /\ j \in 1..Len(log)
        BY <2>2 DEF Grows, At
      <3>3. j < i
        BY <1>1, <3>2
      <3> QED BY <1>2, <3>3
    <2> QED BY <2>1, <2>2
  <1>4. \A m \in acks' : At(log', "entered", m) # {}
    BY <1>2 DEF LogStands
  <1>5. LogStands'
    BY <1>1, <1>3, <1>4 DEF LogStands
  <1>6. \A m : \A n \in Nat : Durable(m, n) => Durable(m, n)'
    BY <1>1, <1>2 DEF Durable
  <1>7. \A m : Durable(m, stored) => Durable(m, stored)'
    <2> SUFFICES ASSUME NEW m, Durable(m, stored)  PROVE Durable(m, stored)'
      OBVIOUS
    <2>1. PICK i \in At(log, "accepted", m) : i <= stored
      BY DEF Durable
    <2>2. i \in Nat /\ i \in At(log', "accepted", m)
      BY <1>2 DEF At
    <2>3. i <= stored'
      BY <1>1, <2>1, <2>2
    <2> QED BY <2>2, <2>3 DEF Durable
  <1> QED BY <1>5, <1>6, <1>7

\* A crash, or a disposal whose flush fails, leaves at least what was durable.
LEMMA CutKeeps ==
  ASSUME LogStands, NEW k \in stored..Len(log), log' = SubSeq(log, 1, k), stored' = k,
         acks' = {}, driver' = "none"
  PROVE  /\ LogStands' /\ Len(log') = k
         /\ \A m : \A n \in Nat : Durable(m, n) /\ n <= k => Durable(m, n)'
         /\ \A m : Durable(m, stored) => Durable(m, stored)'
  <1>1. stored \in Nat /\ Len(log) \in Nat /\ Sequence(log)
    BY DEF LogStands, Sequence
  <1>2. k \in Nat /\ stored <= k /\ k <= Len(log)
    BY <1>1
  <1>3. Sequence(log') /\ Len(log') = k /\ \A i \in 1..k : log'[i] = log[i]
    BY <1>1, <1>2, Cut
  <1>4. \A kind, m : \A i : i \in At(log', kind, m) <=> i \in At(log, kind, m) /\ i <= k
    BY <1>1, <1>2, <1>3 DEF At
  <1>5. \A m : \A i \in At(log', "claimed", m) : \E j \in At(log', "entered", m) : j < i
    <2> SUFFICES ASSUME NEW m, NEW i \in At(log', "claimed", m)
                 PROVE  \E j \in At(log', "entered", m) : j < i
      OBVIOUS
    <2>1. i \in At(log, "claimed", m) /\ i <= k /\ i \in Nat
      BY <1>4 DEF At
    <2>2. PICK j \in At(log, "entered", m) : j < i
      BY <2>1 DEF LogStands
    <2>3. j \in Nat
      BY DEF At
    <2>4. j <= k
      BY <1>2, <2>1, <2>2, <2>3
    <2> QED BY <1>4, <2>2, <2>4
  <1>6. LogStands'
    BY <1>2, <1>3, <1>5 DEF LogStands
  <1>7. \A m : \A n \in Nat : Durable(m, n) /\ n <= k => Durable(m, n)'
    <2> SUFFICES ASSUME NEW m, NEW n \in Nat, Durable(m, n), n <= k  PROVE Durable(m, n)'
      OBVIOUS
    <2>1. PICK i \in At(log, "accepted", m) : i <= n
      BY DEF Durable
    <2>2. i \in Nat
      BY DEF At
    <2>3. i <= k
      BY <1>2, <2>1, <2>2
    <2> QED BY <1>3, <1>4, <2>1, <2>3 DEF Durable
  <1>8. \A m : Durable(m, stored) => Durable(m, stored)'
    <2> SUFFICES ASSUME NEW m, Durable(m, stored)  PROVE Durable(m, stored)'
      OBVIOUS
    <2>1. Durable(m, stored)
      OBVIOUS
    <2>2. PICK i \in At(log, "accepted", m) : i <= stored
      BY DEF Durable
    <2>3. i \in Nat
      BY DEF At
    <2>4. i <= k
      BY <1>1, <1>2, <2>2, <2>3
    <2> QED BY <1>2, <1>3, <1>4, <2>2, <2>4 DEF Durable
  <1> QED BY <1>3, <1>6, <1>7, <1>8

-----------------------------------------------------------------------------
(* What a step may do to the callers. *)

DurablesKept ==
  /\ \A m : \A n \in Nat : Durable(m, n) => Durable(m, n)'
  /\ \A m : Durable(m, stored) => Durable(m, stored)'

\* A retired child's log does not grow again while a barrier waits.
RetiredKept == activation = "none" => activation' = "none" /\ log' = log

LEMMA CallersKeep ==
  ASSUME CallersStand, UNCHANGED <<caller, lock, flushTo>>, DurablesKept, RetiredKept
  PROVE  CallersStand'
  BY DEF CallersStand, DurablesKept, RetiredKept

LEMMA CallerMoves ==
  ASSUME CallersStand, DurablesKept, NEW c \in Callers, NEW x \in (Inside \cup Outside) \ {"flushing", "receipt"},
         caller' = [caller EXCEPT ![c] = x], flushTo' \in Nat, RetiredKept \/ caller[c] \in Inside,
         \/ lock' = lock /\ flushTo' = flushTo /\ (x \in Inside => caller[c] \in Inside)
         \/ lock = Nobody /\ lock' = c /\ flushTo' = flushTo
         \/ caller[c] \in Inside /\ x \notin Inside
  PROVE  CallersStand'
  <1>1. Nobody \notin Callers
    BY MailboxAssumption
  <1>2. \A d \in Callers \ {c} : caller'[d] = caller[d]
    BY DEF CallersStand
  <1>3. caller'[c] = x
    BY DEF CallersStand
  <1>4. \A d \in Callers \ {c} : d # c /\ caller[d] \in Inside => lock = d /\ caller[c] \notin Inside
    BY DEF CallersStand
  <1>5. caller' \in [Callers -> Inside \cup Outside]
    BY DEF CallersStand
  <1>6. \A d \in Callers : caller'[d] \in Inside => lock' = d
    BY <1>1, <1>2, <1>3, <1>4 DEF CallersStand
  <1>7. ASSUME NEW d \in Callers, caller'[d] = "flushing"
        PROVE  (activation' = "none" /\ flushTo' > Len(log')) \/ Durable(Key(d), flushTo)'
    <2>1. d # c /\ caller[d] = "flushing" /\ caller[d] \in Inside
      BY <1>2, <1>3, <1>7 DEF Inside
    <2>2. lock = d /\ caller[c] \notin Inside
      BY <1>4, <2>1
    <2>3. flushTo' = flushTo /\ RetiredKept /\ flushTo \in Nat
      BY <1>1, <2>1, <2>2 DEF CallersStand
    <2> QED BY <2>1, <2>3 DEF CallersStand, DurablesKept, RetiredKept
  <1>8. ASSUME NEW d \in Callers, caller'[d] = "receipt"  PROVE Durable(Key(d), stored)'
    BY <1>2, <1>3, <1>8 DEF CallersStand, DurablesKept
  <1> QED BY <1>5, <1>6, <1>7, <1>8 DEF CallersStand

-----------------------------------------------------------------------------
(* The logs that the actions write. *)

\* The common case: nothing happens to what is durable, and nothing new is acknowledged.
LEMMA LogStep ==
  ASSUME LogStands, Grows(log, log'), stored' = stored, acks' \subseteq acks,
         activation' = "none" => driver' = "none" /\ acks' = {}
  PROVE  LogStands' /\ DurablesKept
  <1>1. Len(log) \in Nat /\ Len(log') \in Nat
    BY DEF LogStands, Sequence, Grows
  <1>2. stored' \in Nat /\ stored <= stored' /\ stored' <= Len(log')
    BY <1>1 DEF LogStands, Grows
  <1> QED BY <1>2, GrowthKeeps DEF DurablesKept

LEMMA ClearGrows ==
  ASSUME NEW l, Sequence(l), NEW list  PROVE Grows(l, Clear(l, list))
  BY GrowsNot, GrowsByOne DEF Clear

LEMMA CloseGrows ==
  ASSUME Sequence(log), NEW list, Close(log, list)
  PROVE  Grows(log, log') /\ activation' = "closing"
  BY ClearGrows DEF Close

LEMMA PendingSequence ==
  ASSUME NEW l, Sequence(l)  PROVE Sequence(Pending(l)) /\ Len(Pending(l)) \in Nat
  <1> DEFINE n == Cardinality(OwedAt(l))
  <1>1. Len(l) \in Nat /\ DOMAIN l = 1..Len(l)
    BY DEF Sequence
  <1>2. IsFiniteSet(1..Len(l)) /\ OwedAt(l) \subseteq 1..Len(l)
    BY <1>1, FS_Interval DEF OwedAt
  <1>3. n \in Nat
    BY <1>2, FS_Subset, FS_CardinalityType
  <1> DEFINE T == {l[Nth(OwedAt(l), k)][2] : k \in 1..n}
  <1>4. Pending(l) \in [1..n -> T]
    BY DEF Pending
  <1> HIDE DEF n, T
  <1>5. Pending(l) \in Seq(T)
    BY <1>3, <1>4
  <1> QED BY <1>5, SequenceOf

LEMMA InsertedGrows ==
  ASSUME NEW l, Sequence(l), NEW ms, Len(ms) \in Nat
  PROVE  Sequence(l \o Events("inserted", ms)) /\ Grows(l, l \o Events("inserted", ms))
  <1> DEFINE es == Events("inserted", ms)
             k  == l \o es
  <1>1. es \in Seq(ToSet(es)) /\ Len(es) = Len(ms) /\ \A i \in 1..Len(es) : es[i] = <<"inserted", ms[i]>>
    <2>1. es \in [1..Len(ms) -> {"inserted"} \X {ms[i] : i \in 1..Len(ms)}]
      BY DEF Events
    <2>2. es \in Seq({"inserted"} \X {ms[i] : i \in 1..Len(ms)}) /\ Len(es) = Len(ms)
      BY <2>1
    <2>3. \A i \in 1..Len(ms) : es[i] = <<"inserted", ms[i]>>
      BY DEF Events
    <2>4. Sequence(es)
      BY <2>2, SequenceOf
    <2> QED BY <2>2, <2>3, <2>4 DEF Sequence
  <1> HIDE DEF es
  <1>2. Sequence(es)
    BY <1>1 DEF Sequence
  <1>3. /\ Sequence(k) /\ Len(k) = Len(l) + Len(es) /\ Len(l) \in Nat /\ Len(es) \in Nat
        /\ \A i \in 1..Len(l) : k[i] = l[i]
        /\ \A i \in 1..Len(es) : k[Len(l) + i] = es[i]
    BY <1>2, Concatenated
  <1> HIDE DEF k
  <1>4. \A m : \A i \in At(k, "claimed", m) : i \in At(l, "claimed", m)
    <2> SUFFICES ASSUME NEW m, NEW i \in At(k, "claimed", m)  PROVE i \in At(l, "claimed", m)
      OBVIOUS
    <2>1. i \in 1..Len(k) /\ k[i] = <<"claimed", m>>
      BY DEF At
    <2>2. CASE i \in 1..Len(l)
      BY <1>3, <2>1, <2>2 DEF At
    <2>3. CASE i \notin 1..Len(l)
      <3> DEFINE j == i - Len(l)
      <3>1. j \in 1..Len(es) /\ Len(l) + j = i
        BY <1>3, <2>1, <2>3
      <3> HIDE DEF j
      <3>2. k[i] = <<"inserted", ms[j]>>
        BY <1>1, <1>3, <3>1
      <3> QED BY <2>1, <3>2
    <2> QED BY <2>2, <2>3
  <1>5. Len(l) <= Len(k)
    BY <1>3
  <1>6. Sequence(k) /\ Grows(l, k)
    BY <1>3, <1>4, <1>5 DEF Grows
  <1> QED BY <1>6 DEF k, es

LEMMA ClearGrowsFurther ==
  ASSUME NEW l, Sequence(l), NEW k, Grows(l, k), NEW list
  PROVE  Grows(l, Clear(k, list))
  <1>1. CASE list = <<>>
    BY <1>1 DEF Clear
  <1>2. CASE list # <<>>
    <2> DEFINE q == Append(k, <<"cleared", Nothing>>)
    <2>1. /\ Sequence(q) /\ Len(q) = Len(k) + 1 /\ Len(k) \in Nat
          /\ \A i \in 1..Len(k) : q[i] = k[i]
          /\ q[Len(k) + 1] = <<"cleared", Nothing>>
      BY Appended DEF Grows
    <2> HIDE DEF q
    <2>2. Len(l) \in Nat /\ Len(l) <= Len(k) /\ Sequence(k)
      BY DEF Sequence, Grows
    <2>3. Len(l) <= Len(q) /\ \A i \in 1..Len(l) : i \in 1..Len(k)
      BY <2>1, <2>2
    <2>4. \A i \in 1..Len(l) : q[i] = l[i]
      BY <2>1, <2>3 DEF Grows
    <2>5. \A m : \A i \in At(q, "claimed", m) : i \in At(k, "claimed", m)
      <3> SUFFICES ASSUME NEW m, NEW i \in At(q, "claimed", m)  PROVE i \in At(k, "claimed", m)
        OBVIOUS
      <3>1. i \in 1..Len(q) /\ q[i] = <<"claimed", m>>
        BY DEF At
      <3>2. i # Len(k) + 1
        BY <2>1, <3>1
      <3>3. i \in 1..Len(k)
        BY <2>1, <3>1, <3>2
      <3> QED BY <2>1, <3>1, <3>3 DEF At
    <2>6. Grows(l, q)
      BY <2>1, <2>3, <2>4, <2>5 DEF Grows
    <2> QED BY <1>2, <2>6 DEF Clear, q
  <1> QED BY <1>1, <1>2

LEMMA MaterializeGrows ==
  ASSUME Sequence(log), NEW c, Materialize(c)
  PROVE  /\ Grows(log, log') /\ activation' # "none" /\ caller[c] = "resuming"
         /\ \E x \in {"submitting", "clashing"} : caller' = [caller EXCEPT ![c] = x]
         /\ UNCHANGED <<stored, acks, lock, flushTo>>
  <1> DEFINE rebuilt  == Replay(log)
             pending  == Pending(log)
             clean    == {i \in 1..Len(pending) : \A j \in 1..i : pending[j] \notin ToSet(rebuilt)}
             enqueued == SubSeq(pending, 1, Cardinality(clean))
             all      == rebuilt \o enqueued
             written  == log \o Events("inserted", enqueued)
  <1>1. Sequence(pending) /\ Len(pending) \in Nat
    BY PendingSequence
  <1>2. Cardinality(clean) \in Nat /\ Cardinality(clean) <= Len(pending)
    <2>1. ASSUME NEW n \in Nat  PROVE IsFiniteSet(1..n) /\ Cardinality(1..n) = n
      <3>1. IsFiniteSet(1..n) /\ Cardinality(1..n) = IF 1 > n THEN 0 ELSE n - 1 + 1
        BY FS_Interval
      <3> QED BY <3>1
    <2> HIDE DEF pending
    <2>2. clean \subseteq 1..Len(pending)
      OBVIOUS
    <2> HIDE DEF clean
    <2>3. IsFiniteSet(clean) /\ Cardinality(clean) <= Cardinality(1..Len(pending))
      BY <1>1, <2>1, <2>2, FS_Subset
    <2>4. Cardinality(1..Len(pending)) = Len(pending)
      BY <1>1, <2>1
    <2> QED BY <2>3, <2>4, FS_CardinalityType
  <1> HIDE DEF pending, clean
  <1>3. Len(enqueued) \in Nat
    BY <1>1, <1>2, Cut
  <1>4. \/ activation' = "resident" /\ log' = written /\ caller' = [caller EXCEPT ![c] = "submitting"]
        \/ Close(written, all) /\ caller' = [caller EXCEPT ![c] = "clashing"]
    BY DEF Materialize, pending, clean
  <1> HIDE DEF enqueued
  <1>5. Grows(log, written)
    BY <1>3, InsertedGrows
  <1>6. UNCHANGED <<stored, acks, lock, flushTo>> /\ caller[c] = "resuming"
    BY DEF Materialize
  <1> HIDE DEF written, all
  <1>7. Grows(log, log') /\ activation' # "none"
    BY <1>4, <1>5, ClearGrowsFurther DEF Close
  <1> QED BY <1>4, <1>6, <1>7

-----------------------------------------------------------------------------
(* The actions. *)

\* The child's driver, its acknowledgements and its residency.
LEMMA ChildSteps ==
  ASSUME ReceiptInv,
         DriverStep \/ Maintain \/ Interrupt \/ Settle \/ Drain \/ \E m : Acknowledge(m)
  PROVE  ReceiptInv'
  <1> LogStands /\ CallersStand /\ Sequence(log)
    BY DEF ReceiptInv, LogStands
  <1>1. CASE Claim
    <2>1. /\ driver = "boundary" /\ UNCHANGED <<stored, activation, acks, caller, lock, flushTo>>
          /\ log' = log \/ log' = Append(log, <<"removed", Head(inbox)>>)
      BY <1>1 DEF Claim, driverFrame, callVars
    <2>2. Grows(log, log') /\ activation # "none"
      BY <2>1, GrowsNot, GrowsByOne DEF LogStands
    <2> QED BY <2>1, <2>2, LogStep, CallersKeep DEF ReceiptInv, RetiredKept
  <1>2. CASE Enter
    <2>1. /\ driver = "preStep" /\ UNCHANGED <<stored, activation, caller, lock, flushTo>>
          /\ log' = Append(log, <<"entered", claimed>>) /\ acks' = acks \cup {claimed}
      BY <1>2 DEF Enter, driverFrame, callVars
    <2>2. Grows(log, log') /\ At(log', "entered", claimed) # {} /\ activation # "none"
      BY <2>1, GrowsByOne DEF LogStands
    <2>3. Len(log) \in Nat /\ Len(log') \in Nat /\ stored \in Nat /\ stored <= Len(log) /\ Len(log) <= Len(log')
      BY <2>2 DEF LogStands, Grows, Sequence
    <2>4. stored' \in Nat /\ stored <= stored' /\ stored' <= Len(log')
      BY <2>1, <2>3
    <2>5. LogStands' /\ DurablesKept
      BY <2>1, <2>2, <2>4, GrowthKeeps DEF DurablesKept
    <2> QED BY <2>1, <2>2, <2>5, CallersKeep DEF ReceiptInv, RetiredKept
  <1>3. CASE TurnFails \/ TurnDone \/ Converge \/ Maintain
    <2>1. UNCHANGED <<log, stored, activation, acks, caller, lock, flushTo>> /\ activation # "none"
      BY <1>3 DEF TurnFails, TurnDone, Converge, Maintain, driverFrame, callVars, LogStands
    <2> QED BY <2>1, GrowsNot, LogStep, CallersKeep DEF ReceiptInv, RetiredKept
  <1>4. CASE Interrupt
    <2>1. UNCHANGED <<log, stored, activation, acks, caller, lock, flushTo>> /\ activation # "none"
      BY <1>4 DEF Interrupt, sessionVars, callVars
    <2> QED BY <2>1, GrowsNot, LogStep, CallersKeep DEF ReceiptInv, RetiredKept
  <1>5. ASSUME NEW m, Acknowledge(m)  PROVE ReceiptInv'
    <2>1. /\ m \in acks /\ acks' \subseteq acks /\ UNCHANGED <<stored, activation, caller, lock, flushTo>>
          /\ log' = log \/ log' = Append(log, <<"claimed", m>>)
      BY <1>5 DEF Acknowledge, driverFrame, callVars
    <2>2. Grows(log, log') /\ activation # "none"
      BY <2>1, GrowsNot, GrowsByOne DEF LogStands
    <2> QED BY <2>1, <2>2, LogStep, CallersKeep DEF ReceiptInv, RetiredKept
  <1>6. CASE Settle \/ Drain
    <2>1. /\ UNCHANGED <<stored, acks, caller, lock, flushTo>>
          /\ \/ Close(log, inbox) /\ activation = "resident"
             \/ UNCHANGED <<log, activation, driver>>
      BY <1>6 DEF Settle, Drain, callVars
    <2>2. CASE Close(log, inbox) /\ activation = "resident"
      BY <2>1, <2>2, CloseGrows, LogStep, CallersKeep DEF ReceiptInv, RetiredKept
    <2>3. CASE UNCHANGED <<log, activation, driver>>
      <3>1. activation' = "none" => driver' = "none" /\ acks' = {}
        BY <2>1, <2>3 DEF LogStands
      <3> QED BY <2>1, <2>3, <3>1, GrowsNot, LogStep, CallersKeep DEF ReceiptInv, RetiredKept
    <2> QED BY <2>1, <2>2, <2>3
  <1> QED BY <1>1, <1>2, <1>3, <1>4, <1>5, <1>6 DEF DriverStep

\* What a disposal or a crash may cut off is behind every receipt.
LEMMA CuttingSteps ==
  ASSUME ReceiptInv, Gone \/ Crash  PROVE ReceiptInv'
  <1> LogStands /\ CallersStand /\ Sequence(log)
    BY DEF ReceiptInv, LogStands
  <1>0. stored \in Nat /\ Len(log) \in Nat /\ stored <= Len(log)
    BY DEF LogStands, Sequence
  <1>1. CASE Gone /\ stored' = Len(log) /\ UNCHANGED log
    <2>1. UNCHANGED <<acks, caller, lock, flushTo>> /\ activation' = "none" /\ driver' = "none" /\ acks = {}
      BY <1>1 DEF Gone, callVars
    <2>2. stored' \in Nat /\ stored <= stored' /\ stored' <= Len(log')
      BY <1>0, <1>1
    <2>3. LogStands' /\ DurablesKept
      BY <1>1, <2>1, <2>2, GrowsNot, GrowthKeeps DEF DurablesKept
    <2> QED BY <1>1, <2>1, <2>3, CallersKeep DEF ReceiptInv, RetiredKept
  <1>2. CASE Gone /\ \E k \in stored..Len(log) : log' = SubSeq(log, 1, k) /\ stored' = k
    <2>1. PICK k \in stored..Len(log) : log' = SubSeq(log, 1, k) /\ stored' = k
      BY <1>2
    <2>2. /\ UNCHANGED <<acks, caller, lock, flushTo>> /\ activation' = "none" /\ driver' = "none" /\ acks = {}
          /\ activation = "closing"
      BY <1>2 DEF Gone, callVars
    <2>3. /\ LogStands' /\ Len(log') = k
          /\ \A m : \A n \in Nat : Durable(m, n) /\ n <= k => Durable(m, n)'
          /\ \A m : Durable(m, stored) => Durable(m, stored)'
      BY <2>1, <2>2, CutKeeps
    <2>4. k \in Nat /\ flushTo \in Nat
      BY <1>0 DEF CallersStand
    <2>5. flushTo > k \/ flushTo <= k
      BY <2>4
    <2>6. CallersStand'
      BY <2>2, <2>3, <2>4, <2>5 DEF CallersStand
    <2> QED BY <2>3, <2>6 DEF ReceiptInv
  <1>3. CASE Crash
    <2>1. PICK k \in stored..Len(log) : log' = SubSeq(log, 1, k) /\ stored' = k
      BY <1>3 DEF Crash
    <2>2. /\ acks' = {} /\ driver' = "none" /\ flushTo' = 0
          /\ caller' = [c \in Callers |->
                          IF caller[c] \in Answered \cup {"idle"} THEN caller[c] ELSE "failed"]
      BY <1>3 DEF Crash
    <2>3. LogStands' /\ \A m : Durable(m, stored) => Durable(m, stored)'
      BY <2>1, <2>2, CutKeeps
    <2>4. \A c \in Callers : caller'[c] \in Outside /\ caller'[c] \notin Inside
                             /\ (caller'[c] = "receipt" => caller[c] = "receipt")
      BY <2>2 DEF Answered, Outside, Inside
    <2>5. caller' \in [Callers -> Inside \cup Outside] /\ flushTo' \in Nat
      BY <2>2, <2>4
    <2>6. \A c \in Callers : caller'[c] # "flushing"
      BY <2>2 DEF Answered
    <2>7. CallersStand'
      BY <2>3, <2>4, <2>5, <2>6 DEF CallersStand
    <2> QED BY <2>3, <2>7 DEF ReceiptInv
  <1> QED BY <1>1, <1>2, <1>3 DEF Gone

\* A caller enters the critical section, or leaves it without a receipt.
LEMMA PassingSteps ==
  ASSUME ReceiptInv, NEW c \in Callers,
         Call(c) \/ Refuse(c) \/ AwaitClosing(c) \/ ColdResume(c) \/ Closed(c) \/ ResumeFails(c) \/ Unwound(c)
  PROVE  ReceiptInv'
  <1> LogStands /\ CallersStand /\ Sequence(log) /\ flushTo \in Nat /\ 0 \in Nat
    BY DEF ReceiptInv, LogStands, CallersStand
  <1>1. UNCHANGED <<log, stored, activation, driver, acks>>
    BY DEF Call, Refuse, AwaitClosing, ColdResume, Closed, ResumeFails, Unwound,
           sessionVars, residencyVars, driverVars
  <1>2. LogStands' /\ DurablesKept /\ RetiredKept
    <2>1. activation' = "none" => driver' = "none" /\ acks' = {}
      BY <1>1 DEF LogStands
    <2> QED BY <1>1, <2>1, GrowsNot, LogStep DEF RetiredKept
  <1>3. CASE Call(c) \/ Refuse(c)
    <2>1. \E x \in {"waiting", "failed"} : caller' = [caller EXCEPT ![c] = x]
      BY <1>3 DEF Call, Refuse
    <2>2. UNCHANGED <<lock, flushTo>>
      BY <1>3 DEF Call, Refuse
    <2>3. {"waiting", "failed"} \subseteq (Inside \cup Outside) \ {"flushing", "receipt"} /\ {"waiting", "failed"} \cap Inside = {}
      BY DEF Inside, Outside
    <2> QED BY <1>2, <2>1, <2>2, <2>3, CallerMoves DEF ReceiptInv
  <1>4. CASE AwaitClosing(c) \/ ColdResume(c)
    <2>1. /\ lock = Nobody /\ lock' = c /\ flushTo' = flushTo
          /\ \E x \in {"awaiting", "resuming"} : caller' = [caller EXCEPT ![c] = x]
      BY <1>4 DEF AwaitClosing, ColdResume
    <2>2. {"awaiting", "resuming"} \subseteq (Inside \cup Outside) \ {"flushing", "receipt"}
      BY DEF Inside, Outside
    <2> QED BY <1>2, <2>1, <2>2, CallerMoves DEF ReceiptInv
  <1>5. CASE Closed(c) \/ ResumeFails(c) \/ Unwound(c)
    <2>1. \E x \in {"waiting", "failed"} : Release(c, x)
      BY <1>5 DEF Closed, ResumeFails, Unwound
    <2>2. caller[c] \in Inside
      BY <1>5 DEF Closed, ResumeFails, Unwound, Inside
    <2>3. {"waiting", "failed"} \subseteq (Inside \cup Outside) \ {"flushing", "receipt"}
          /\ {"waiting", "failed"} \cap Inside = {}
      BY DEF Inside, Outside
    <2> QED BY <1>2, <2>1, <2>2, <2>3, CallerMoves DEF Release, ReceiptInv
  <1> QED BY <1>3, <1>4, <1>5

\* An Activation is materialized, or rolled back, or given up with its submission.
LEMMA RollingSteps ==
  ASSUME ReceiptInv, NEW c \in Callers,
         Materialize(c) \/ RollBack(c) \/ SubmitRefused(c) \/ FlushFails(c)
  PROVE  ReceiptInv'
  <1> LogStands /\ CallersStand /\ Sequence(log) /\ flushTo \in Nat /\ 0 \in Nat
    BY DEF ReceiptInv, LogStands, CallersStand
  <1>0. {"submitting", "clashing", "unwinding", "failed"} \subseteq (Inside \cup Outside) \ {"flushing", "receipt"}
        /\ "failed" \notin Inside
    BY DEF Inside, Outside
  <1>1. CASE Materialize(c)
    <2>1. /\ Grows(log, log') /\ activation' # "none" /\ caller[c] \in Inside
          /\ \E x \in {"submitting", "clashing"} : caller' = [caller EXCEPT ![c] = x]
          /\ UNCHANGED <<stored, acks, lock, flushTo>>
      BY <1>1, MaterializeGrows DEF Inside
    <2>2. LogStands' /\ DurablesKept
      BY <2>1, LogStep
    <2> QED BY <1>0, <2>1, <2>2, CallerMoves DEF ReceiptInv
  <1>2. CASE RollBack(c)
    <2>1. /\ Close(log, Replay(log)) /\ caller' = [caller EXCEPT ![c] = "unwinding"]
          /\ UNCHANGED <<stored, acks, lock, flushTo>> /\ caller[c] \in Inside
      BY <1>2 DEF RollBack, Inside
    <2>2. Grows(log, log') /\ activation' # "none"
      BY <2>1, CloseGrows
    <2>3. LogStands' /\ DurablesKept
      BY <2>1, <2>2, LogStep
    <2> QED BY <1>0, <2>1, <2>3, CallerMoves DEF ReceiptInv
  <1>3. CASE SubmitRefused(c) \/ FlushFails(c)
    <2>1. caller[c] \in Inside /\ GiveUp(c)
      BY <1>3 DEF SubmitRefused, FlushFails, Inside
    <2>2. /\ Close(log, inbox) \/ UNCHANGED <<activation, log>>
          /\ UNCHANGED <<stored, driver, acks>>
          /\ \/ caller' = [caller EXCEPT ![c] = "unwinding"] /\ UNCHANGED <<lock, flushTo>>
             \/ Release(c, "failed")
      BY <2>1 DEF GiveUp
    <2>3. Grows(log, log') /\ (activation' = "none" => driver' = "none" /\ acks' = {})
      BY <2>2, CloseGrows, GrowsNot DEF LogStands
    <2>4. LogStands' /\ DurablesKept
      BY <2>2, <2>3, LogStep
    <2>5. CASE caller' = [caller EXCEPT ![c] = "unwinding"] /\ UNCHANGED <<lock, flushTo>>
      BY <1>0, <2>1, <2>4, <2>5, CallerMoves DEF ReceiptInv
    <2>6. CASE Release(c, "failed")
      BY <1>0, <2>1, <2>4, <2>6, CallerMoves DEF ReceiptInv, Release
    <2> QED BY <2>2, <2>5, <2>6
  <1> QED BY <1>1, <1>2, <1>3

\* The barrier that a submission waits for covers its acceptance.
LEMMA AcceptStep ==
  ASSUME ReceiptInv, NEW c \in Callers, Accept(c)  PROVE ReceiptInv'
  <1> LogStands /\ CallersStand /\ Sequence(log)
    BY DEF ReceiptInv, LogStands
  <1>1. /\ log' = IF Logged(log, "accepted", Key(c)) THEN log ELSE Append(log, <<"accepted", Key(c)>>)
        /\ flushTo' = Len(log') /\ lock' = c /\ caller' = [caller EXCEPT ![c] = "flushing"]
        /\ activation = "resident" /\ UNCHANGED <<stored, activation, acks>>
        /\ (caller[c] = "waiting" /\ lock = Nobody) \/ caller[c] = "submitting"
    BY DEF Accept, residencyVars
  <1>2. Grows(log, log') /\ At(log', "accepted", Key(c)) # {}
    <2>1. CASE Logged(log, "accepted", Key(c))
      BY <1>1, <2>1, GrowsNot DEF Logged, At, ToSet, Sequence
    <2>2. CASE ~Logged(log, "accepted", Key(c))
      BY <1>1, <2>2, GrowsByOne
    <2> QED BY <2>1, <2>2
  <1>3. LogStands' /\ DurablesKept
    BY <1>1, <1>2, LogStep
  <1>4. Len(log') \in Nat
    BY <1>2 DEF Grows, Sequence
  <1>5. Durable(Key(c), flushTo)'
    <2>1. PICK i \in At(log', "accepted", Key(c)) : TRUE
      BY <1>2
    <2>2. i <= Len(log') /\ Len(log') <= Len(log')
      BY <1>4 DEF At
    <2> QED BY <1>1, <2>1, <2>2 DEF Durable
  <1>6. \A d \in Callers \ {c} : caller'[d] = caller[d] /\ caller[d] \notin Inside
    BY <1>1, MailboxAssumption DEF CallersStand, Inside
  <1>7. caller'[c] = "flushing" /\ caller' \in [Callers -> Inside \cup Outside] /\ "flushing" \in Inside
    BY <1>1 DEF CallersStand, Inside
  <1>8. CallersStand'
    BY <1>1, <1>3, <1>4, <1>5, <1>6, <1>7 DEF CallersStand, DurablesKept
  <1> QED BY <1>3, <1>8 DEF ReceiptInv

\* The receipt is given when the barrier is passed.
LEMMA FlushedStep ==
  ASSUME ReceiptInv, NEW c \in Callers, Flushed(c)  PROVE ReceiptInv'
  <1> LogStands /\ CallersStand /\ Sequence(log)
    BY DEF ReceiptInv, LogStands
  <1>1. /\ caller[c] = "flushing" /\ flushTo <= Len(log)
        /\ stored' = IF flushTo > stored THEN flushTo ELSE stored
        /\ Release(c, "receipt") /\ acks' = acks
        /\ \/ Publish(Key(c)) /\ UNCHANGED activation /\ activation = "resident"
           \/ UNCHANGED <<log, activation, driver>>
    BY DEF Flushed, residencyVars, driverVars
  <1>2. Grows(log, log') /\ (activation' = "none" => driver' = "none" /\ acks' = {})
    BY <1>1, GrowsNot, GrowsByOne DEF Publish, LogStands
  <1>3. flushTo \in Nat /\ stored \in Nat /\ Len(log) \in Nat /\ Len(log') \in Nat /\ stored <= Len(log) /\ Len(log) <= Len(log')
    BY <1>2 DEF CallersStand, LogStands, Grows, Sequence
  <1>4. stored' \in Nat /\ stored <= stored' /\ flushTo <= stored' /\ stored' <= Len(log')
    BY <1>1, <1>3
  <1>5. LogStands' /\ DurablesKept
    BY <1>1, <1>2, <1>4, GrowthKeeps DEF DurablesKept
  <1>6. Durable(Key(c), flushTo)
    BY <1>1, <1>3 DEF CallersStand
  <1>7. Durable(Key(c), stored)'
    <2>1. PICK i \in At(log, "accepted", Key(c)) : i <= flushTo
      BY <1>6 DEF Durable
    <2>2. i \in At(log', "accepted", Key(c)) /\ i \in Nat
      BY <1>2, <1>3 DEF Grows, At
    <2>3. i <= stored'
      BY <1>3, <1>4, <2>1, <2>2
    <2> QED BY <1>4, <2>2, <2>3 DEF Durable
  <1>8. /\ caller' = [caller EXCEPT ![c] = "receipt"] /\ lock' = Nobody /\ flushTo' = 0
    BY <1>1 DEF Release
  <1>9. \A d \in Callers \ {c} : caller'[d] = caller[d] /\ caller[d] \notin Inside
    BY <1>1, <1>8 DEF CallersStand, Inside
  <1>10. caller'[c] = "receipt" /\ caller' \in [Callers -> Inside \cup Outside] /\ "receipt" \notin Inside
    BY <1>8 DEF CallersStand, Inside, Outside
  <1>11. CallersStand'
    <2>1. \A d \in Callers : caller'[d] \notin Inside
      BY <1>9, <1>10
    <2>2. \A d \in Callers : caller'[d] # "flushing"
      BY <2>1 DEF Inside
    <2>3. \A d \in Callers : caller'[d] = "receipt" => Durable(Key(d), stored)'
      BY <1>5, <1>7, <1>9 DEF CallersStand, DurablesKept
    <2>4. flushTo' \in Nat
      BY <1>8
    <2> QED BY <1>10, <2>1, <2>2, <2>3, <2>4 DEF CallersStand
  <1> QED BY <1>5, <1>11 DEF ReceiptInv

-----------------------------------------------------------------------------
(* The theorems. *)

\* The strengthening holds at the start and no step breaks it.
THEOREM MailboxInvariant == Spec => []ReceiptInv
<1>1. Init => ReceiptInv
  <2> SUFFICES ASSUME Init  PROVE ReceiptInv
    OBVIOUS
  <2>1. log = <<>> /\ stored = 0 /\ acks = {} /\ driver = "none" /\ flushTo = 0 /\ caller = [c \in Callers |-> "idle"]
    BY DEF Init
  <2>2. log \in Seq({}) /\ Len(log) = 0
    BY <2>1
  <2>3. Sequence(log)
    BY <2>2, SequenceOf
  <2>4. stored \in Nat /\ stored <= Len(log) /\ flushTo \in Nat /\ \A kind, m : At(log, kind, m) = {}
    BY <2>1, <2>2 DEF At
  <2>5. LogStands
    BY <2>1, <2>3, <2>4 DEF LogStands
  <2>6. CallersStand
    BY <2>1, <2>4 DEF CallersStand, Inside, Outside
  <2> QED BY <2>5, <2>6 DEF ReceiptInv
<1>2. ReceiptInv /\ [Next]_vars => ReceiptInv'
  <2> SUFFICES ASSUME ReceiptInv, [Next]_vars  PROVE ReceiptInv'
    OBVIOUS
  <2>1. CASE Next
    BY <2>1, ChildSteps, CuttingSteps, PassingSteps, RollingSteps, AcceptStep, FlushedStep DEF Next, CallStep
  <2>2. CASE UNCHANGED vars
    <3>1. UNCHANGED <<log, stored, activation, driver, acks>> /\ UNCHANGED <<caller, lock, flushTo>>
      BY <2>2 DEF vars, sessionVars, residencyVars, driverVars, callVars
    <3>2. LogStands /\ CallersStand /\ Sequence(log)
      BY DEF ReceiptInv, LogStands
    <3>3. activation' = "none" => driver' = "none" /\ acks' = {}
      BY <3>1, <3>2 DEF LogStands
    <3> QED BY <3>1, <3>2, <3>3, GrowsNot, LogStep, CallersKeep DEF ReceiptInv, RetiredKept
  <2> QED BY <2>1, <2>2
<1> QED BY <1>1, <1>2, PTL DEF Spec

\* A receipt is a promise: its acceptance survives every crash, and its message is in
\* the transcript or still due (submit, pendingSubagentDeliveries).
THEOREM ReceiptsAreKept == Spec => []ReceiptKept
<1>1. ReceiptInv => ReceiptKept
  <2> SUFFICES ASSUME ReceiptInv, NEW c \in Callers, caller[c] = "receipt"
               PROVE  /\ \E i \in 1..stored : log[i] = <<"accepted", Key(c)>>
                      /\ Logged(log, "entered", Key(c)) \/ Owed(log, Key(c))
    BY DEF ReceiptKept
  <2>1. /\ stored \in Nat /\ Sequence(log) /\ Durable(Key(c), stored)
    BY DEF ReceiptInv, LogStands, CallersStand
  <2>2. PICK i \in At(log, "accepted", Key(c)) : i <= stored
    BY <2>1 DEF Durable
  <2>3. i \in 1..stored /\ log[i] = <<"accepted", Key(c)>> /\ i \in 1..Len(log)
    BY <2>1, <2>2 DEF At
  <2>4. ASSUME NEW kind, NEW m  PROVE Logged(log, kind, m) <=> At(log, kind, m) # {}
    <3>1. DOMAIN log = 1..Len(log)
      BY <2>1 DEF Sequence
    <3>2. Logged(log, kind, m) <=> \E j \in 1..Len(log) : log[j] = <<kind, m>>
      BY <3>1, Zenon DEF Logged, ToSet
    <3> QED BY <3>2 DEF At
  <2>5. At(log, "claimed", Key(c)) # {} => At(log, "entered", Key(c)) # {}
    BY DEF ReceiptInv, LogStands
  <2> QED BY <2>2, <2>3, <2>4, <2>5 DEF Owed
<1> QED BY <1>1, MailboxInvariant, PTL

-----------------------------------------------------------------------------
(* What a splice makes of the list.  Replay folds the log: FoldLeft iterates over
   sets of indices, and the number of indices is well founded. *)

\* A set of numbers has a least one.
LEMMA LeastNumber ==
  ASSUME NEW T \in SUBSET Nat, T # {}
  PROVE  \E n \in T : \A m \in T : n <= m
  <1> DEFINE R == {ss \in Nat \X Nat : ss[1] < ss[2]}
  <1>1. IsWellFoundedOn(R, Nat)
    BY NatLessThanWellFounded DEF OpToRel
  <1>2. PICK n \in T : \A m \in T : ~(<<m, n>> \in R)
    BY <1>1, WFMin
  <1>3. \A m \in T : <<m, n>> \in R <=> m < n
    OBVIOUS
  <1>4. n \in Nat /\ \A m \in T : m \in Nat
    OBVIOUS
  <1> HIDE DEF R
  <1>5. \A m \in T : ~(m < n)
    BY <1>2, <1>3
  <1> QED BY <1>4, <1>5

\* it iterates the splices of l over the sets of indices up to n, as FoldLeft does.
Iterates(it, n, l) ==
  it = [t \in SUBSET (1..n) |-> IF t = {} THEN <<>> ELSE Splice(it[t \ {Max(t)}], l[Max(t)])]

LEMMA MaxIndex ==
  ASSUME NEW k \in Nat \ {0}, NEW t \in SUBSET (1..k), k \in t
  PROVE  Max(t) = k /\ t \ {k} \in SUBSET (1..(k - 1))
  <1>1. \A x \in t : (\A y \in t : x >= y) <=> x = k
    OBVIOUS
  <1>2. Max(t) = k
    BY <1>1 DEF Max
  <1> QED BY <1>2

LEMMA IteratesAt ==
  ASSUME NEW n, NEW l, NEW it, Iterates(it, n, l)
  PROVE  /\ it[{}] = <<>>
         /\ \A t \in SUBSET (1..n) : t # {} => it[t] = Splice(it[t \ {Max(t)}], l[Max(t)])
  <1>1. it = [t \in SUBSET (1..n) |-> IF t = {} THEN <<>> ELSE Splice(it[t \ {Max(t)}], l[Max(t)])]
    BY DEF Iterates
  <1>2. \A t \in SUBSET (1..n) : it[t] = IF t = {} THEN <<>> ELSE Splice(it[t \ {Max(t)}], l[Max(t)])
    BY <1>1, Zenon
  <1>3. {} \in SUBSET (1..n)
    OBVIOUS
  <1> QED BY <1>2, <1>3, Zenon

LEMMA IterationExists ==
  ASSUME NEW l, NEW n \in Nat
  PROVE  \E it : Iterates(it, n, l)
  <1> DEFINE Bad == {k \in Nat : ~\E it : Iterates(it, k, l)}
  <1> SUFFICES ASSUME Bad # {}  PROVE FALSE
    OBVIOUS
  <1>1. Bad \in SUBSET Nat
    OBVIOUS
  <1>2. PICK k \in Bad : \A m \in Bad : k <= m
    BY <1>1, LeastNumber
  <1>3. k # 0
    <2>1. ASSUME k = 0  PROVE \E it : Iterates(it, k, l)
      <3> DEFINE it == [t \in SUBSET (1..k) |-> <<>>]
      <3>1. \A t \in SUBSET (1..k) : t = {}
        BY <2>1
      <3>2. it = [t \in SUBSET (1..k) |-> IF t = {} THEN <<>> ELSE Splice(it[t \ {Max(t)}], l[Max(t)])]
        BY <3>1
      <3> HIDE DEF it
      <3> QED BY <3>2 DEF Iterates
    <2> QED BY <1>2, <2>1
  <1>4. k - 1 \in Nat /\ k \in Nat \ {0} /\ k - 1 \notin Bad
    BY <1>2, <1>3
  <1> DEFINE p == k - 1
  <1> HIDE DEF p
  <1>5. PICK f : Iterates(f, p, l)
    BY <1>4 DEF p
  <1> HIDE DEF Bad
  <1>6. f[{}] = <<>>
    BY <1>5, IteratesAt
  <1>7. \A u \in SUBSET (1..p) : u # {} => f[u] = Splice(f[u \ {Max(u)}], l[Max(u)])
    BY <1>5, IteratesAt
  <1> DEFINE it == [t \in SUBSET (1..k) |-> IF k \in t THEN Splice(f[t \ {k}], l[k]) ELSE f[t]]
             Step(t) == IF t = {} THEN <<>> ELSE Splice(it[t \ {Max(t)}], l[Max(t)])
  <1>8. \A t \in SUBSET (1..k) : k \notin t => t \in SUBSET (1..(k - 1))
    BY <1>4
  <1>9. ASSUME NEW t \in SUBSET (1..k)  PROVE it[t] = Step(t)
    <2>1. CASE k \in t
      <3>1. Max(t) = k /\ t \ {k} \in SUBSET (1..k) /\ k \notin t \ {k}
        BY <1>4, <2>1, MaxIndex
      <3>2. it[t \ {k}] = f[t \ {k}]
        BY <3>1
      <3>3. it[t] = Splice(f[t \ {k}], l[k])
        BY <2>1
      <3> HIDE DEF it
      <3> QED BY <2>1, <3>1, <3>2, <3>3
    <2>2. CASE k \notin t /\ t # {}
      <3>1. t \in SUBSET (1..(k - 1)) /\ it[t] = f[t]
        BY <1>8, <2>2
      <3>2. it[t \ {Max(t)}] = f[t \ {Max(t)}]
        BY <2>2
      <3> HIDE DEF it
      <3>3. f[t] = Splice(f[t \ {Max(t)}], l[Max(t)])
        <4>1. t \in SUBSET (1..p)
          BY <3>1 DEF p
        <4> QED BY <1>7, <2>2, <4>1
      <3> QED BY <2>2, <3>1, <3>2, <3>3
    <2>3. CASE t = {}
      <3>1. it[t] = f[{}] /\ f[{}] = <<>>
        BY <1>6, <2>3
      <3> HIDE DEF it
      <3> QED BY <2>3, <3>1
    <2> QED BY <2>1, <2>2, <2>3
  <1>10. it = [t \in SUBSET (1..k) |-> it[t]]
    OBVIOUS
  <1> HIDE DEF it
  <1>11. it = [t \in SUBSET (1..k) |-> Step(t)]
    BY <1>9, <1>10
  <1>12. Iterates(it, k, l)
    BY <1>11 DEF Iterates
  <1> QED BY <1>2, <1>12 DEF Bad

SameUpTo(l, r, n) == \A j \in 1..n : l[j] = r[j]

\* Iterations over sequences that agree up to n agree there.
LEMMA IterationsAgree ==
  ASSUME NEW n \in Nat, NEW k \in Nat, n <= k, NEW l, NEW r, SameUpTo(l, r, n),
         NEW it, NEW jt, Iterates(it, n, l), Iterates(jt, k, r)
  PROVE  it[1..n] = jt[1..n]
  <1> DEFINE Bad == {j \in 0..n : it[1..j] # jt[1..j]}
  <1> SUFFICES ASSUME Bad # {}  PROVE FALSE
    OBVIOUS
  <1>1. Bad \in SUBSET Nat
    OBVIOUS
  <1>2. PICK j \in Bad : \A i \in Bad : j <= i
    BY <1>1, LeastNumber
  <1>3. j # 0
    <2>1. 1..0 = {}
      OBVIOUS
    <2>2. it[{}] = <<>> /\ jt[{}] = <<>>
      BY IteratesAt
    <2> QED BY <2>1, <2>2
  <1>4. j \in 1..n /\ j - 1 \in 0..n /\ j - 1 \notin Bad
    BY <1>2, <1>3
  <1>5. it[1..(j - 1)] = jt[1..(j - 1)]
    BY <1>4
  <1> HIDE DEF Bad
  <1>6. Max(1..j) = j /\ (1..j) \ {j} = 1..(j - 1) /\ 1..j # {}
    <2>1. j \in Nat \ {0} /\ j \in 1..j /\ 1..j \in SUBSET (1..j)
      BY <1>4
    <2>2. Max(1..j) = j
      BY <2>1, MaxIndex
    <2>3. (1..j) \ {j} = 1..(j - 1)
      BY <2>1
    <2> QED BY <2>1, <2>2, <2>3
  <1>7. 1..j \in SUBSET (1..n) /\ 1..j \in SUBSET (1..k)
    BY <1>4
  <1>8. it[1..j] = Splice(it[1..(j - 1)], l[j])
    <2>1. \A t \in SUBSET (1..n) : t # {} => it[t] = Splice(it[t \ {Max(t)}], l[Max(t)])
      BY IteratesAt
    <2>2. it[1..j] = Splice(it[(1..j) \ {Max(1..j)}], l[Max(1..j)])
      BY <1>6, <1>7, <2>1, Zenon
    <2> QED BY <1>6, <2>2
  <1>9. jt[1..j] = Splice(jt[1..(j - 1)], r[j])
    <2>1. \A t \in SUBSET (1..k) : t # {} => jt[t] = Splice(jt[t \ {Max(t)}], r[Max(t)])
      BY IteratesAt
    <2>2. jt[1..j] = Splice(jt[(1..j) \ {Max(1..j)}], r[Max(1..j)])
      BY <1>6, <1>7, <2>1, Zenon
    <2> QED BY <1>6, <2>2
  <1>10. j \notin Bad
    BY <1>4, <1>5, <1>8, <1>9 DEF Bad, SameUpTo
  <1> QED BY <1>2, <1>10

LEMMA ReplayIterates ==
  ASSUME NEW l, Sequence(l)
  PROVE  \E it : Iterates(it, Len(l), l) /\ Replay(l) = it[1..Len(l)]
  <1> DEFINE Defines(it) == it = [t \in SUBSET (DOMAIN l) |->
                                    IF t = {} THEN <<>> ELSE Splice(it[t \ {Max(t)}], l[Max(t)])]
             iter == CHOOSE it : Defines(it)
  <1>1. Len(l) \in Nat /\ DOMAIN l = 1..Len(l)
    BY DEF Sequence
  <1>2. Replay(l) = iter[DOMAIN l]
    BY DEF Replay, FoldLeft, MapThenFoldSet
  <1>3. PICK it : Iterates(it, Len(l), l)
    BY <1>1, IterationExists
  <1>4. Defines(it)
    BY <1>1, <1>3 DEF Iterates
  <1>5. Defines(iter)
    BY <1>4
  <1> HIDE DEF iter
  <1>6. Iterates(iter, Len(l), l)
    BY <1>1, <1>5 DEF Iterates
  <1> QED BY <1>1, <1>2, <1>6

\* One more event is one more splice.
LEMMA ReplayStep ==
  ASSUME NEW l, Sequence(l), NEW e
  PROVE  Replay(Append(l, e)) = Splice(Replay(l), e)
  <1> DEFINE r == Append(l, e)
             n == Len(l)
  <1>1. Sequence(r) /\ Len(r) = n + 1 /\ n \in Nat /\ (\A i \in 1..n : r[i] = l[i]) /\ r[n + 1] = e
    BY Appended
  <1> HIDE DEF r
  <1>2. PICK it : Iterates(it, n, l) /\ Replay(l) = it[1..n]
    BY ReplayIterates
  <1>3. PICK jt : Iterates(jt, n + 1, r) /\ Replay(r) = jt[1..(n + 1)]
    BY <1>1, ReplayIterates
  <1> HIDE DEF n
  <1> DEFINE k == n + 1
  <1>4. k \in Nat /\ n <= k /\ k \in Nat \ {0} /\ k \in 1..k /\ 1..k # {} /\ (1..k) \ {k} = 1..n
    BY <1>1
  <1>5. Iterates(jt, k, r) /\ Replay(r) = jt[1..k] /\ r[k] = e
    BY <1>1, <1>3
  <1> HIDE DEF k
  <1>6. it[1..n] = jt[1..n]
    <2>1. SameUpTo(l, r, n)
      BY <1>1 DEF SameUpTo
    <2>2. n \in Nat /\ k \in Nat /\ n <= k /\ Iterates(it, n, l) /\ Iterates(jt, k, r)
      BY <1>1, <1>2, <1>4, <1>5
    <2> QED BY <2>1, <2>2, IterationsAgree
  <1>7. Max(1..k) = k
    BY <1>4, MaxIndex
  <1>8. jt[1..k] = Splice(jt[1..n], r[k])
    <2>1. \A t \in SUBSET (1..k) : t # {} => jt[t] = Splice(jt[t \ {Max(t)}], r[Max(t)])
      BY <1>5, IteratesAt
    <2>2. 1..k \in SUBSET (1..k)
      OBVIOUS
    <2>3. jt[1..k] = Splice(jt[(1..k) \ {Max(1..k)}], r[Max(1..k)])
      BY <1>4, <2>1, <2>2, Zenon
    <2> QED BY <1>4, <1>7, <2>3
  <1> QED BY <1>2, <1>5, <1>6, <1>8 DEF r

LEMMA ReplayEmpty == Replay(<<>>) = <<>>
  <1> DEFINE l == <<>>
  <1>1. Sequence(l) /\ Len(l) = 0
    <2>1. l \in Seq({})
      OBVIOUS
    <2> QED BY <2>1, SequenceOf
  <1> HIDE DEF l
  <1>2. PICK it : Iterates(it, Len(l), l) /\ Replay(l) = it[1..Len(l)]
    BY <1>1, ReplayIterates
  <1>3. 1..Len(l) = {}
    BY <1>1
  <1> QED BY <1>2, <1>3, IteratesAt DEF l

-----------------------------------------------------------------------------
(* What the log says of the order of deliveries. *)

Has(l, kind, m) == At(l, kind, m) # {}
Once(l, kind, m) == \A i, j \in At(l, kind, m) : i = j
Follows(l, kind, m, kind2, m2) == \A i \in At(l, kind, m) : \E j \in At(l, kind2, m2) : j < i
Before(l, x, y) == \E i \in At(l, "inserted", x), j \in At(l, "accepted", y) : i < j

\* A message is accepted once, then enqueued, taken off the inbox, entered and
\* acknowledged; it is entered twice only if it was published again meanwhile; and before it is entered,
\* what was enqueued when it was accepted has left the inbox for a turn.
EventsStand(l, R) ==
  /\ \A m : Once(l, "accepted", m)
  /\ \A m : Follows(l, "inserted", m, "accepted", m)
  /\ \A m : Follows(l, "removed", m, "inserted", m)
  /\ \A m : Follows(l, "entered", m, "removed", m)
  /\ \A m : Follows(l, "claimed", m, "entered", m)
  /\ \A m : m \in R \/ Once(l, "entered", m)
  /\ \A x, y : x # y /\ Before(l, x, y) => Follows(l, "entered", y, "removed", x)

\* The messages that wait ahead of y are all that y has to wait for.
Awaits(l, k) ==
  \A x : /\ x # Replay(l)[k] /\ Before(l, x, Replay(l)[k])
         /\ ~Has(l, "entered", Replay(l)[k]) /\ ~Has(l, "removed", x)
         => \E j \in 1..(k - 1) : Replay(l)[j] = x

\* The list a log leaves holds messages that were enqueued, once each, behind those
\* they must not overtake; one that is in the transcript was published again.
ListStands(l, R) ==
  /\ Replay(l) \in Seq(Messages)
  /\ \A k \in 1..Len(Replay(l)) : Has(l, "inserted", Replay(l)[k])
  /\ \A j, k \in 1..Len(Replay(l)) : Replay(l)[j] = Replay(l)[k] => j = k
  /\ \A k \in 1..Len(Replay(l)) : Has(l, "entered", Replay(l)[k]) => Replay(l)[k] \in R
  /\ \A k \in 1..Len(Replay(l)) : Awaits(l, k)

\* After a crash the list is that of any beginning of the log.
AllStand(l, R) == \A k \in 0..Len(l) : ListStands(SubSeq(l, 1, k), R)

LEMMA AtAppend ==
  ASSUME NEW l, Sequence(l), NEW kind, NEW m, NEW kind2, NEW m2
  PROVE  At(Append(l, <<kind, m>>), kind2, m2)
           = At(l, kind2, m2) \cup (IF kind2 = kind /\ m2 = m THEN {Len(l) + 1} ELSE {})
  <1> DEFINE r == Append(l, <<kind, m>>)
             n == Len(l)
  <1>1. Len(r) = n + 1 /\ n \in Nat /\ (\A i \in 1..n : r[i] = l[i]) /\ r[n + 1] = <<kind, m>>
    BY Appended
  <1> HIDE DEF r
  <1>2. At(r, kind2, m2) = {i \in 1..Len(r) : r[i] = <<kind2, m2>>} /\ At(l, kind2, m2) = {i \in 1..n : l[i] = <<kind2, m2>>}
    BY DEF At
  <1> HIDE DEF n
  <1>3. <<kind, m>> = <<kind2, m2>> <=> kind2 = kind /\ m2 = m
    OBVIOUS
  <1>4. \A i : i \in 1..Len(r) <=> i \in 1..n \/ i = n + 1
    BY <1>1
  <1>5. \A i : i \in At(r, kind2, m2) <=> i \in At(l, kind2, m2) \/ (i = n + 1 /\ kind2 = kind /\ m2 = m)
    BY <1>1, <1>2, <1>3, <1>4
  <1> QED BY <1>5 DEF r, n

LEMMA AtIndices ==
  ASSUME NEW l, Sequence(l), NEW kind, NEW m, NEW i \in At(l, kind, m)
  PROVE  i \in Nat /\ i < Len(l) + 1 /\ Len(l) + 1 \in Nat
  <1> DEFINE n == Len(l)
  <1>1. n \in Nat
    BY DEF Sequence
  <1>2. i \in 1..n
    BY DEF At
  <1> HIDE DEF n
  <1>3. i \in Nat /\ i < n + 1 /\ n + 1 \in Nat
    BY <1>1, <1>2
  <1> QED BY <1>3 DEF n

LEMMA HasAppend ==
  ASSUME NEW l, Sequence(l), NEW kind, NEW m, NEW kind2, NEW m2
  PROVE  Has(Append(l, <<kind, m>>), kind2, m2) <=> Has(l, kind2, m2) \/ (kind2 = kind /\ m2 = m)
  <1> DEFINE r == Append(l, <<kind, m>>)
             n == Len(l) + 1
  <1>1. At(r, kind2, m2) = At(l, kind2, m2) \cup (IF kind2 = kind /\ m2 = m THEN {n} ELSE {})
    BY AtAppend
  <1> HIDE DEF r, n
  <1> QED BY <1>1 DEF Has, r

LEMMA OnceAppend ==
  ASSUME NEW l, Sequence(l), NEW kind, NEW m, NEW kind2, NEW m2, Once(l, kind2, m2),
         ~(kind2 = kind /\ m2 = m) \/ ~Has(l, kind, m)
  PROVE  Once(Append(l, <<kind, m>>), kind2, m2)
  <1> DEFINE r == Append(l, <<kind, m>>)
             n == Len(l) + 1
  <1>1. At(r, kind2, m2) = At(l, kind2, m2) \cup (IF kind2 = kind /\ m2 = m THEN {n} ELSE {})
    BY AtAppend
  <1> HIDE DEF r, n
  <1> QED BY <1>1 DEF Once, Has, r

LEMMA FollowsAppend ==
  ASSUME NEW l, Sequence(l), NEW kind, NEW m, NEW a, NEW x, NEW b, NEW y, Follows(l, a, x, b, y),
         ~(a = kind /\ x = m) \/ Has(l, b, y)
  PROVE  Follows(Append(l, <<kind, m>>), a, x, b, y)
  <1> DEFINE r == Append(l, <<kind, m>>)
             n == Len(l) + 1
  <1>1. At(r, a, x) = At(l, a, x) \cup (IF a = kind /\ x = m THEN {n} ELSE {})
    BY AtAppend
  <1>2. At(l, b, y) \subseteq At(r, b, y)
    BY AtAppend
  <1>3. \A j \in At(l, b, y) : j < n
    BY AtIndices
  <1> HIDE DEF r, n
  <1>4. ASSUME NEW i \in At(r, a, x)  PROVE \E j \in At(r, b, y) : j < i
    <2>1. CASE i \in At(l, a, x)
      BY <1>2, <2>1 DEF Follows
    <2>2. CASE i \notin At(l, a, x)
      <3>1. i = n /\ a = kind /\ x = m
        BY <1>1, <1>4, <2>2
      <3>2. PICK j \in At(l, b, y) : TRUE
        BY <3>1 DEF Has
      <3> QED BY <1>2, <1>3, <3>1, <3>2
    <2> QED BY <2>1, <2>2
  <1> QED BY <1>4 DEF Follows, r

LEMMA BeforeAppend ==
  ASSUME NEW l, Sequence(l), NEW kind, NEW m, NEW x, NEW y
  PROVE  Before(Append(l, <<kind, m>>), x, y)
           <=> Before(l, x, y) \/ (kind = "accepted" /\ m = y /\ Has(l, "inserted", x))
  <1> DEFINE r == Append(l, <<kind, m>>)
             n == Len(l) + 1
  <1>1. At(r, "inserted", x) = At(l, "inserted", x) \cup (IF "inserted" = kind /\ x = m THEN {n} ELSE {})
    BY AtAppend
  <1>2. At(r, "accepted", y) = At(l, "accepted", y) \cup (IF "accepted" = kind /\ y = m THEN {n} ELSE {})
    BY AtAppend
  <1>3. \A j \in At(l, "accepted", y) : j \in Nat /\ j < n /\ n \in Nat
    BY AtIndices
  <1>4. \A j \in At(l, "inserted", x) : j \in Nat /\ j < n /\ n \in Nat
    BY AtIndices
  <1> HIDE DEF r, n
  <1>5. ASSUME Before(r, x, y)  PROVE Before(l, x, y) \/ (kind = "accepted" /\ m = y /\ Has(l, "inserted", x))
    <2>1. PICK i \in At(r, "inserted", x), j \in At(r, "accepted", y) : i < j
      BY <1>5 DEF Before
    <2>2. CASE j \in At(l, "accepted", y)
      <3>1. ~(n < j)
        BY <1>3, <2>2
      <3>2. i \in At(l, "inserted", x)
        BY <1>1, <2>1, <3>1
      <3> QED BY <2>1, <2>2, <3>2 DEF Before
    <2>3. CASE j \notin At(l, "accepted", y)
      <3>1. kind = "accepted" /\ y = m
        BY <1>2, <2>3
      <3>2. i \in At(l, "inserted", x)
        BY <1>1, <3>1
      <3> QED BY <3>1, <3>2 DEF Has
    <2> QED BY <2>2, <2>3
  <1>6. ASSUME Before(l, x, y)  PROVE Before(r, x, y)
    BY <1>1, <1>2, <1>6 DEF Before
  <1>7. ASSUME kind = "accepted", m = y, Has(l, "inserted", x)  PROVE Before(r, x, y)
    <2>1. PICK i \in At(l, "inserted", x) : TRUE
      BY <1>7 DEF Has
    <2> QED BY <1>1, <1>2, <1>4, <1>7, <2>1 DEF Before
  <1> QED BY <1>5, <1>6, <1>7 DEF r

LEMMA HasBefore ==
  ASSUME NEW l, NEW a, NEW x, NEW b, NEW y, Follows(l, a, x, b, y), Has(l, a, x)  PROVE Has(l, b, y)
  BY DEF Follows, Has

LEMMA BeforeHas ==
  ASSUME NEW l, NEW x, NEW y, Before(l, x, y)  PROVE Has(l, "inserted", x) /\ Has(l, "accepted", y)
  BY DEF Before, Has

\* What is logged was logged in this order.
LEMMA Logged4 ==
  ASSUME NEW l, NEW R, EventsStand(l, R), NEW m
  PROVE  /\ Has(l, "claimed", m) => Has(l, "entered", m)
         /\ Has(l, "entered", m) => Has(l, "removed", m)
         /\ Has(l, "removed", m) => Has(l, "inserted", m)
         /\ Has(l, "inserted", m) => Has(l, "accepted", m)
  BY HasBefore DEF EventsStand

\* One more event keeps the order when what it follows is there.
Fits(l, kind, m, R) ==
  /\ kind = "accepted" => ~Has(l, "accepted", m)
  /\ kind = "inserted" => Has(l, "accepted", m)
  /\ kind = "removed" => Has(l, "inserted", m)
  /\ kind = "entered" => Has(l, "removed", m)
  /\ kind = "claimed" => Has(l, "entered", m)
  /\ kind = "entered" => m \in R \/ ~Has(l, "entered", m)
  /\ kind = "entered" => Has(l, "entered", m) \/ \A x : x # m /\ Before(l, x, m) => Has(l, "removed", x)

LEMMA EventFits ==
  ASSUME NEW l, Sequence(l), NEW R, EventsStand(l, R), NEW kind, NEW m, Fits(l, kind, m, R)
  PROVE  EventsStand(Append(l, <<kind, m>>), R)
  <1> DEFINE r == Append(l, <<kind, m>>)
  <1>1. ASSUME NEW x  PROVE Once(r, "accepted", x)
    <2>1. Once(l, "accepted", x)
      BY DEF EventsStand
    <2>2. ~("accepted" = kind /\ x = m) \/ ~Has(l, kind, m)
      BY DEF Fits
    <2> QED BY <2>1, <2>2, OnceAppend
  <1>2. ASSUME NEW x  PROVE Follows(r, "inserted", x, "accepted", x)
    <2>1. Follows(l, "inserted", x, "accepted", x)
      BY DEF EventsStand
    <2>2. ~("inserted" = kind /\ x = m) \/ Has(l, "accepted", x)
      BY DEF Fits
    <2> QED BY <2>1, <2>2, FollowsAppend
  <1>3. ASSUME NEW x  PROVE Follows(r, "removed", x, "inserted", x)
    <2>1. Follows(l, "removed", x, "inserted", x)
      BY DEF EventsStand
    <2>2. ~("removed" = kind /\ x = m) \/ Has(l, "inserted", x)
      BY DEF Fits
    <2> QED BY <2>1, <2>2, FollowsAppend
  <1>4. ASSUME NEW x  PROVE Follows(r, "entered", x, "removed", x)
    <2>1. Follows(l, "entered", x, "removed", x)
      BY DEF EventsStand
    <2>2. ~("entered" = kind /\ x = m) \/ Has(l, "removed", x)
      BY DEF Fits
    <2> QED BY <2>1, <2>2, FollowsAppend
  <1>5. ASSUME NEW x  PROVE x \in R \/ Once(r, "entered", x)
    <2>1. CASE x \in R
      BY <2>1
    <2>2. CASE x \notin R
      <3>1. Once(l, "entered", x)
        BY <2>2 DEF EventsStand
      <3>2. ~("entered" = kind /\ x = m) \/ ~Has(l, kind, m)
        BY <2>2 DEF Fits
      <3> QED BY <3>1, <3>2, OnceAppend
    <2> QED BY <2>1, <2>2
  <1>6. ASSUME NEW x, NEW y, x # y, Before(r, x, y)  PROVE Follows(r, "entered", y, "removed", x)
    <2>1. Before(l, x, y) \/ (kind = "accepted" /\ m = y)
      BY <1>6, BeforeAppend
    <2>2. CASE Before(l, x, y)
      <3>1. Follows(l, "entered", y, "removed", x)
        BY <1>6, <2>2 DEF EventsStand
      <3>2. ~("entered" = kind /\ y = m) \/ Has(l, "removed", x)
        <4>1. Has(l, "entered", y) => Has(l, "removed", x)
          BY <3>1, HasBefore
        <4> QED BY <1>6, <2>2, <4>1 DEF Fits
      <3> QED BY <3>1, <3>2, FollowsAppend
    <2>3. CASE kind = "accepted" /\ m = y
      <3>1. ~Has(l, "accepted", y)
        BY <2>3 DEF Fits
      <3>2. ~Has(l, "entered", y)
        BY <3>1, Logged4
      <3>3. Follows(l, "entered", y, "removed", x)
        BY <3>2 DEF Has, Follows
      <3>4. ~("entered" = kind /\ y = m)
        BY <2>3
      <3> QED BY <3>3, <3>4, FollowsAppend
    <2> QED BY <2>1, <2>2, <2>3
  <1>7. ASSUME NEW x  PROVE Follows(r, "claimed", x, "entered", x)
    <2>1. Follows(l, "claimed", x, "entered", x)
      BY DEF EventsStand
    <2>2. ~("claimed" = kind /\ x = m) \/ Has(l, "entered", x)
      BY DEF Fits
    <2> QED BY <2>1, <2>2, FollowsAppend
  <1> HIDE DEF r
  <1>8. EventsStand(r, R)
    BY <1>1, <1>2, <1>3, <1>4, <1>5, <1>6, <1>7 DEF EventsStand
  <1> QED BY <1>8 DEF r

\* A beginning of a log keeps its order.
LEMMA AtCut ==
  ASSUME NEW l, Sequence(l), NEW k \in Nat, k <= Len(l), NEW kind, NEW m
  PROVE  \A i : i \in At(SubSeq(l, 1, k), kind, m) <=> i \in At(l, kind, m) /\ i <= k
  <1>1. /\ Len(SubSeq(l, 1, k)) = k
        /\ \A i \in 1..k : SubSeq(l, 1, k)[i] = l[i]
    BY Cut
  <1>2. Len(l) \in Nat
    BY DEF Sequence
  <1> QED BY <1>1, <1>2 DEF At

LEMMA FollowsCut ==
  ASSUME NEW l, Sequence(l), NEW k \in Nat, k <= Len(l), NEW a, NEW x, NEW b, NEW y, Follows(l, a, x, b, y)
  PROVE  Follows(SubSeq(l, 1, k), a, x, b, y)
  <1> DEFINE c == SubSeq(l, 1, k)
  <1>1. /\ \A i : i \in At(c, a, x) <=> i \in At(l, a, x) /\ i <= k
        /\ \A i : i \in At(c, b, y) <=> i \in At(l, b, y) /\ i <= k
    BY AtCut
  <1>2. (\A i \in At(l, a, x) : i \in Nat) /\ \A i \in At(l, b, y) : i \in Nat
    BY AtIndices
  <1> HIDE DEF c
  <1>3. ASSUME NEW i \in At(c, a, x)  PROVE \E j \in At(c, b, y) : j < i
    <2>1. i \in At(l, a, x) /\ i <= k /\ i \in Nat
      BY <1>1, <1>2
    <2>2. PICK j \in At(l, b, y) : j < i
      BY <2>1 DEF Follows
    <2>3. j <= k
      BY <1>2, <2>1, <2>2
    <2> QED BY <1>1, <2>2, <2>3
  <1> QED BY <1>3 DEF Follows, c

LEMMA EventsCut ==
  ASSUME NEW l, Sequence(l), NEW k \in Nat, k <= Len(l), NEW R, EventsStand(l, R)
  PROVE  EventsStand(SubSeq(l, 1, k), R)
  <1> DEFINE c == SubSeq(l, 1, k)
  <1>1. ASSUME NEW kind, NEW m, Once(l, kind, m)  PROVE Once(c, kind, m)
    <2>1. \A i : i \in At(c, kind, m) => i \in At(l, kind, m)
      BY AtCut
    <2> HIDE DEF c
    <2> QED BY <1>1, <2>1 DEF Once
  <1>2. ASSUME NEW a, NEW x, NEW b, NEW y, Follows(l, a, x, b, y)  PROVE Follows(c, a, x, b, y)
    BY <1>2, FollowsCut
  <1>3. ASSUME NEW x, NEW y, Before(c, x, y)  PROVE Before(l, x, y)
    <2>1. \A kind, m : \A i : i \in At(c, kind, m) => i \in At(l, kind, m)
      BY AtCut
    <2> HIDE DEF c
    <2> QED BY <1>3, <2>1 DEF Before
  <1> HIDE DEF c
  <1>4. EventsStand(c, R)
    BY <1>1, <1>2, <1>3 DEF EventsStand
  <1> QED BY <1>4 DEF c

LEMMA EventsMore ==
  ASSUME NEW l, NEW R, EventsStand(l, R), NEW Q, R \subseteq Q
  PROVE  EventsStand(l, Q)
  BY DEF EventsStand

LEMMA Spliced ==
  ASSUME NEW l, Sequence(l), NEW m
  PROVE  /\ Replay(Append(l, <<"inserted", m>>)) = Append(Replay(l), m)
         /\ Replay(Append(l, <<"removed", m>>)) = Tail(Replay(l))
         /\ Replay(Append(l, <<"cleared", m>>)) = <<>>
         /\ Replay(Append(l, <<"accepted", m>>)) = Replay(l)
         /\ Replay(Append(l, <<"claimed", m>>)) = Replay(l)
         /\ Replay(Append(l, <<"entered", m>>)) = Replay(l)
  <1>1. ASSUME NEW kind  PROVE Replay(Append(l, <<kind, m>>)) = Splice(Replay(l), <<kind, m>>)
    BY ReplayStep
  <1>2. ASSUME NEW list
        PROVE  /\ Splice(list, <<"inserted", m>>) = Append(list, m)
               /\ Splice(list, <<"removed", m>>) = Tail(list)
               /\ Splice(list, <<"cleared", m>>) = <<>>
               /\ Splice(list, <<"accepted", m>>) = list
               /\ Splice(list, <<"claimed", m>>) = list
               /\ Splice(list, <<"entered", m>>) = list
    BY DEF Splice
  <1> QED BY <1>1, <1>2

\* Events of this kind leave the list alone.
Silent(l, kind, m, R) ==
  \/ kind = "claimed"
  \/ kind = "accepted" /\ ~Has(l, "accepted", m)
  \/ kind = "entered" /\ (m \in R \/ m \notin ToSet(Replay(l)))

LEMMA ListSilent ==
  ASSUME NEW l, Sequence(l), NEW R, EventsStand(l, R), ListStands(l, R), NEW kind, NEW m, Silent(l, kind, m, R)
  PROVE  ListStands(Append(l, <<kind, m>>), R) /\ Replay(Append(l, <<kind, m>>)) = Replay(l)
  <1> DEFINE r == Append(l, <<kind, m>>)
             q == Replay(l)
  <1>1. Replay(r) = q
    BY Spliced DEF Silent
  <1>2. \A k2, x : Has(l, k2, x) => Has(r, k2, x)
    BY HasAppend
  <1>3. \A x : Has(r, "entered", x) => Has(l, "entered", x) \/ (kind = "entered" /\ x = m)
    BY HasAppend
  <1>4. \A x, y : Before(r, x, y) => Before(l, x, y) \/ (kind = "accepted" /\ m = y)
    BY BeforeAppend
  <1> HIDE DEF r
  <1>5. /\ q \in Seq(Messages)
        /\ \A k \in 1..Len(q) : Has(l, "inserted", q[k])
        /\ \A j, k \in 1..Len(q) : q[j] = q[k] => j = k
        /\ \A k \in 1..Len(q) : Has(l, "entered", q[k]) => q[k] \in R
        /\ \A k \in 1..Len(q) : Awaits(l, k)
    BY DEF ListStands
  <1>6. \A k \in 1..Len(q) : q[k] \in ToSet(q)
    BY <1>5 DEF ToSet
  <1>7. \A k \in 1..Len(q) : Has(l, "accepted", q[k])
    BY <1>5, Logged4
  <1>8. Silent(l, kind, m, R) /\ (kind = "entered" => m \in R \/ m \notin ToSet(q))
    BY DEF Silent
  <1> HIDE DEF q
  <1>9. ASSUME NEW k \in 1..Len(q), Has(r, "entered", q[k])  PROVE q[k] \in R
    BY <1>3, <1>5, <1>6, <1>8, <1>9
  <1>10. ASSUME NEW k \in 1..Len(q)  PROVE Awaits(r, k)
    <2>1. ASSUME NEW x, x # q[k], Before(r, x, q[k]), ~Has(r, "entered", q[k]), ~Has(r, "removed", x)
          PROVE  \E j \in 1..(k - 1) : q[j] = x
      <3>1. Before(l, x, q[k])
        BY <1>4, <1>7, <1>8, <2>1 DEF Silent
      <3>2. ~Has(l, "entered", q[k]) /\ ~Has(l, "removed", x)
        BY <1>2, <2>1
      <3>3. Awaits(l, k) /\ Replay(l) = q
        BY <1>5 DEF q
      <3> QED BY <2>1, <3>1, <3>2, <3>3 DEF Awaits
    <2> QED BY <1>1, <2>1 DEF Awaits
  <1>11. ListStands(r, R)
    BY <1>1, <1>2, <1>5, <1>9, <1>10 DEF ListStands
  <1> QED BY <1>1, <1>11 DEF r, q

\* A message joins the list behind all that it has to wait for.
LEMMA ListInserted ==
  ASSUME NEW l, Sequence(l), NEW R, EventsStand(l, R), ListStands(l, R), NEW m, m \in Messages,
         m \notin ToSet(Replay(l)), ~Has(l, "entered", m) \/ m \in R,
         \A x : x # m /\ Before(l, x, m) /\ ~Has(l, "removed", x) => x \in ToSet(Replay(l))
  PROVE  /\ ListStands(Append(l, <<"inserted", m>>), R)
         /\ Replay(Append(l, <<"inserted", m>>)) = Append(Replay(l), m)
  <1> DEFINE r == Append(l, <<"inserted", m>>)
             q == Replay(l)
             p == Append(q, m)
  <1>1. Replay(r) = p
    BY Spliced
  <1>2. \A k2, x : Has(l, k2, x) => Has(r, k2, x)
    BY HasAppend
  <1>3. \A x : Has(r, "entered", x) => Has(l, "entered", x)
    BY HasAppend
  <1>4. \A x, y : Before(r, x, y) => Before(l, x, y)
    BY BeforeAppend
  <1>5. Has(r, "inserted", m)
    BY HasAppend
  <1> HIDE DEF r
  <1>6. /\ q \in Seq(Messages)
        /\ \A k \in 1..Len(q) : Has(l, "inserted", q[k])
        /\ \A j, k \in 1..Len(q) : q[j] = q[k] => j = k
        /\ \A k \in 1..Len(q) : Has(l, "entered", q[k]) => q[k] \in R
        /\ \A k \in 1..Len(q) : Awaits(l, k)
    BY DEF ListStands
  <1>7. (\A k \in 1..Len(q) : q[k] # m) /\ \A x \in ToSet(q) : \E j \in 1..Len(q) : q[j] = x
    BY <1>6 DEF ToSet
  <1>8. \A x : x # m /\ Before(l, x, m) /\ ~Has(l, "removed", x) => \E j \in 1..Len(q) : q[j] = x
    BY <1>7
  <1>9. ~Has(l, "entered", m) \/ m \in R
    OBVIOUS
  <1>10. Replay(l) = q
    OBVIOUS
  <1> HIDE DEF q
  <1>11. p \in Seq(Messages) /\ Len(p) = Len(q) + 1 /\ Len(q) \in Nat
    BY <1>6
  <1>12. \A k \in 1..Len(q) : p[k] = q[k]
    BY <1>6
  <1>13. p[Len(q) + 1] = m
    BY <1>6
  <1> HIDE DEF p
  <1> DEFINE n == Len(q)
  <1>14. \A k \in 1..Len(p) : k \in 1..n \/ k = n + 1
    BY <1>11
  <1>15. ASSUME NEW k \in 1..Len(p)  PROVE Has(r, "inserted", p[k])
    BY <1>2, <1>5, <1>6, <1>12, <1>13, <1>14
  <1>16. ASSUME NEW j \in 1..Len(p), NEW k \in 1..Len(p), p[j] = p[k]  PROVE j = k
    BY <1>6, <1>7, <1>12, <1>13, <1>14, <1>16
  <1>17. ASSUME NEW k \in 1..Len(p), Has(r, "entered", p[k])  PROVE p[k] \in R
    BY <1>3, <1>6, <1>9, <1>12, <1>13, <1>14, <1>17
  <1>18. ASSUME NEW k \in 1..Len(p)  PROVE Awaits(r, k)
    <2> SUFFICES ASSUME NEW x, x # p[k], Before(r, x, p[k]), ~Has(r, "entered", p[k]), ~Has(r, "removed", x)
                 PROVE  \E j \in 1..(k - 1) : p[j] = x
      BY <1>1 DEF Awaits
    <2>1. Before(l, x, p[k]) /\ ~Has(l, "entered", p[k]) /\ ~Has(l, "removed", x)
      BY <1>2, <1>4
    <2>2. CASE k \in 1..n
      <3>1. p[k] = q[k] /\ Awaits(l, k)
        BY <1>6, <1>12, <2>2
      <3>2. PICK j \in 1..(k - 1) : q[j] = x
        BY <1>10, <2>1, <3>1 DEF Awaits
      <3>3. j \in 1..n
        BY <1>11, <2>2
      <3> QED BY <1>12, <3>2, <3>3
    <2>3. CASE k = n + 1
      <3>1. PICK j \in 1..n : q[j] = x
        BY <1>8, <1>13, <2>1, <2>3
      <3>2. 1..(k - 1) = 1..n
        BY <1>11, <2>3
      <3> QED BY <1>12, <3>1, <3>2
    <2> QED BY <1>14, <2>2, <2>3
  <1>19. ListStands(r, R)
    BY <1>1, <1>11, <1>15, <1>16, <1>17, <1>18 DEF ListStands
  <1> QED BY <1>1, <1>10, <1>19 DEF r, p

LEMMA TailOf ==
  ASSUME NEW S, NEW q \in Seq(S), q # <<>>
  PROVE  /\ Tail(q) \in Seq(S) /\ Len(q) = Len(Tail(q)) + 1 /\ Len(Tail(q)) \in Nat
         /\ Head(q) = q[1] /\ 1 \in 1..Len(q)
         /\ \A k \in 1..Len(Tail(q)) : Tail(q)[k] = q[k + 1] /\ k + 1 \in 1..Len(q)
  OBVIOUS

\* The first message of the list is taken off it.
LEMMA ListRemoved ==
  ASSUME NEW l, Sequence(l), NEW R, ListStands(l, R), Replay(l) # <<>>, NEW m, m = Head(Replay(l))
  PROVE  /\ ListStands(Append(l, <<"removed", m>>), R)
         /\ Replay(Append(l, <<"removed", m>>)) = Tail(Replay(l))
  <1> DEFINE r == Append(l, <<"removed", m>>)
             q == Replay(l)
             p == Tail(q)
  <1>1. Replay(r) = p
    BY Spliced
  <1>2. \A k2, x : Has(l, k2, x) => Has(r, k2, x)
    BY HasAppend
  <1>3. \A x : Has(r, "entered", x) => Has(l, "entered", x)
    BY HasAppend
  <1>4. \A x, y : Before(r, x, y) => Before(l, x, y)
    BY BeforeAppend
  <1>5. Has(r, "removed", m)
    BY HasAppend
  <1> HIDE DEF r
  <1>6. /\ q \in Seq(Messages)
        /\ \A k \in 1..Len(q) : Has(l, "inserted", q[k])
        /\ \A j, k \in 1..Len(q) : q[j] = q[k] => j = k
        /\ \A k \in 1..Len(q) : Has(l, "entered", q[k]) => q[k] \in R
        /\ \A k \in 1..Len(q) : Awaits(l, k)
    BY DEF ListStands
  <1>7. Replay(l) = q /\ q # <<>>
    OBVIOUS
  <1> HIDE DEF q
  <1>8. /\ p \in Seq(Messages) /\ Len(q) = Len(p) + 1 /\ Len(p) \in Nat
        /\ m = q[1] /\ 1 \in 1..Len(q)
        /\ \A k \in 1..Len(p) : p[k] = q[k + 1] /\ k + 1 \in 1..Len(q)
    BY <1>6, <1>7, TailOf
  <1> HIDE DEF p
  <1>9. ASSUME NEW k \in 1..Len(p)  PROVE Has(r, "inserted", p[k])
    BY <1>2, <1>6, <1>8
  <1>10. ASSUME NEW j \in 1..Len(p), NEW k \in 1..Len(p), p[j] = p[k]  PROVE j = k
    <2>1. j + 1 = k + 1
      BY <1>6, <1>8, <1>10
    <2> QED BY <1>8, <2>1
  <1>11. ASSUME NEW k \in 1..Len(p), Has(r, "entered", p[k])  PROVE p[k] \in R
    BY <1>3, <1>6, <1>8, <1>11
  <1>12. ASSUME NEW k \in 1..Len(p)  PROVE Awaits(r, k)
    <2> SUFFICES ASSUME NEW x, x # p[k], Before(r, x, p[k]), ~Has(r, "entered", p[k]), ~Has(r, "removed", x)
                 PROVE  \E j \in 1..(k - 1) : p[j] = x
      BY <1>1 DEF Awaits
    <2>1. Before(l, x, p[k]) /\ ~Has(l, "entered", p[k]) /\ ~Has(l, "removed", x) /\ x # m
      BY <1>2, <1>4, <1>5
    <2>2. k + 1 \in 1..Len(q) /\ p[k] = q[k + 1] /\ Awaits(l, k + 1)
      BY <1>6, <1>8
    <2>3. PICK j \in 1..((k + 1) - 1) : q[j] = x
      BY <1>7, <2>1, <2>2 DEF Awaits
    <2>4. j # 1
      BY <1>8, <2>1, <2>3
    <2>5. j - 1 \in 1..(k - 1) /\ j - 1 \in 1..Len(p) /\ (j - 1) + 1 = j
      BY <1>8, <2>3, <2>4
    <2>6. p[j - 1] = x
      BY <1>8, <2>3, <2>5
    <2> QED BY <2>5, <2>6
  <1>13. ListStands(r, R)
    BY <1>1, <1>8, <1>9, <1>10, <1>11, <1>12 DEF ListStands
  <1> QED BY <1>1, <1>7, <1>13 DEF r, p

LEMMA ListEmpty ==
  ASSUME NEW l, Replay(l) = <<>>, NEW R  PROVE ListStands(l, R)
  <1>1. Len(Replay(l)) = 0 /\ Replay(l) \in Seq(Messages)
    OBVIOUS
  <1>2. 1..Len(Replay(l)) = {}
    BY <1>1
  <1> QED BY <1>1, <1>2 DEF ListStands

-----------------------------------------------------------------------------
(* Every beginning of the log. *)

LEMMA SameBeginning ==
  ASSUME NEW l, Sequence(l), NEW r, Sequence(r), NEW k \in Nat, k <= Len(l), k <= Len(r), SameUpTo(l, r, k)
  PROVE  SubSeq(l, 1, k) = SubSeq(r, 1, k)
  <1> DEFINE a == SubSeq(l, 1, k)
             b == SubSeq(r, 1, k)
  <1>1. Sequence(a) /\ Len(a) = k /\ \A i \in 1..k : a[i] = l[i]
    BY Cut
  <1>2. Sequence(b) /\ Len(b) = k /\ \A i \in 1..k : b[i] = r[i]
    BY Cut
  <1> HIDE DEF a, b
  <1> DEFINE S == ToSet(a) \cup ToSet(b)
  <1>3. a \in Seq(S) /\ b \in Seq(S)
    BY <1>1, <1>2 DEF Sequence, ToSet
  <1> HIDE DEF S
  <1>4. \A i \in 1..Len(a) : a[i] = b[i]
    BY <1>1, <1>2 DEF SameUpTo
  <1>5. a = b
    BY <1>1, <1>2, <1>3, <1>4, SeqEqual
  <1> QED BY <1>5 DEF a, b

LEMMA AllBeginning ==
  ASSUME NEW l, Sequence(l)  PROVE SubSeq(l, 1, Len(l)) = l
  <1>1. l \in Seq(ToSet(l))
    BY DEF Sequence
  <1> QED BY <1>1, SubSeqFull

LEMMA AllNow ==
  ASSUME NEW l, Sequence(l), NEW R, AllStand(l, R)  PROVE ListStands(l, R)
  <1>1. Len(l) \in Nat
    BY DEF Sequence
  <1>2. Len(l) \in 0..Len(l)
    BY <1>1
  <1>3. ListStands(SubSeq(l, 1, Len(l)), R)
    BY <1>2 DEF AllStand
  <1> QED BY <1>3, AllBeginning

LEMMA AllAppend ==
  ASSUME NEW l, Sequence(l), NEW R, AllStand(l, R), NEW e, ListStands(Append(l, e), R)
  PROVE  AllStand(Append(l, e), R)
  <1> DEFINE r == Append(l, e)
             n == Len(l)
  <1>1. Sequence(r) /\ Len(r) = n + 1 /\ n \in Nat /\ \A i \in 1..n : r[i] = l[i]
    BY Appended
  <1>2. ListStands(r, R)
    OBVIOUS
  <1> HIDE DEF r
  <1>3. ASSUME NEW k \in 0..Len(r)  PROVE ListStands(SubSeq(r, 1, k), R)
    <2>1. CASE k = Len(r)
      BY <1>1, <1>2, <2>1, AllBeginning
    <2>2. CASE k # Len(r)
      <3>1. k \in Nat /\ k <= n /\ k <= Len(r) /\ k \in 0..n
        BY <1>1, <2>2
      <3>2. SameUpTo(l, r, k)
        BY <1>1, <3>1 DEF SameUpTo
      <3>3. SubSeq(l, 1, k) = SubSeq(r, 1, k)
        BY <1>1, <3>1, <3>2, SameBeginning
      <3>4. ListStands(SubSeq(l, 1, k), R)
        BY <3>1 DEF AllStand
      <3> QED BY <3>3, <3>4
    <2> QED BY <2>1, <2>2
  <1> QED BY <1>3 DEF AllStand, r

LEMMA AllCut ==
  ASSUME NEW l, Sequence(l), NEW R, AllStand(l, R), NEW k \in Nat, k <= Len(l)
  PROVE  AllStand(SubSeq(l, 1, k), R)
  <1> DEFINE c == SubSeq(l, 1, k)
             n == Len(l)
  <1>1. Sequence(c) /\ Len(c) = k /\ \A i \in 1..k : c[i] = l[i]
    BY Cut
  <1>2. n \in Nat
    BY DEF Sequence
  <1> HIDE DEF c
  <1>3. ASSUME NEW j \in 0..Len(c)  PROVE ListStands(SubSeq(c, 1, j), R)
    <2>1. j \in Nat /\ j <= n /\ j <= Len(c) /\ j \in 0..n
      BY <1>1, <1>2
    <2>2. SameUpTo(l, c, j)
      BY <1>1, <2>1 DEF SameUpTo
    <2>3. SubSeq(l, 1, j) = SubSeq(c, 1, j)
      BY <1>1, <2>1, <2>2, SameBeginning
    <2>4. ListStands(SubSeq(l, 1, j), R)
      BY <2>1 DEF AllStand
    <2> QED BY <2>3, <2>4
  <1> QED BY <1>3 DEF AllStand, c

LEMMA AllMore ==
  ASSUME NEW l, NEW R, AllStand(l, R), NEW Q, R \subseteq Q
  PROVE  AllStand(l, Q)
  <1>1. ASSUME NEW x, ListStands(x, R)  PROVE ListStands(x, Q)
    BY <1>1 DEF ListStands
  <1> QED BY <1>1 DEF AllStand

-----------------------------------------------------------------------------
(* What is owed, in acceptance order. *)

Rank(S, i) == Cardinality({j \in S : j <= i})

LEMMA Ranks ==
  ASSUME NEW n \in Nat, NEW S \in SUBSET (1..n), NEW i
  PROVE  /\ IsFiniteSet(S) /\ Cardinality(S) \in Nat
         /\ IsFiniteSet({j \in S : j <= i}) /\ Rank(S, i) \in Nat /\ Rank(S, i) <= Cardinality(S)
  <1>1. IsFiniteSet(1..n)
    BY FS_Interval
  <1>2. IsFiniteSet(S)
    BY <1>1, FS_Subset
  <1> DEFINE T == {j \in S : j <= i}
  <1>3. T \in SUBSET S
    OBVIOUS
  <1> HIDE DEF T
  <1>4. IsFiniteSet(T) /\ Cardinality(T) <= Cardinality(S)
    BY <1>2, <1>3, FS_Subset
  <1>5. Cardinality(S) \in Nat /\ Cardinality(T) \in Nat
    BY <1>2, <1>4, FS_CardinalityType
  <1> QED BY <1>2, <1>4, <1>5 DEF T, Rank

LEMMA RankGrows ==
  ASSUME NEW n \in Nat, NEW S \in SUBSET (1..n), NEW i \in Nat, NEW j \in S, i < j
  PROVE  Rank(S, i) < Rank(S, j)
  <1> DEFINE T == {k \in S : k <= i}
             U == {k \in S : k <= j}
  <1>0. \A k \in S : k \in Nat
    OBVIOUS
  <1>1. j \in Nat /\ T \in SUBSET U /\ j \in U /\ j \notin T
    <2>1. j \in Nat /\ j <= j /\ ~(j <= i)
      BY <1>0
    <2>2. \A k \in S : k <= i => k <= j
      BY <1>0, <2>1
    <2> QED BY <2>1, <2>2
  <1>2. IsFiniteSet(U) /\ Rank(S, i) \in Nat /\ Rank(S, j) \in Nat
    BY <1>1, Ranks
  <1>3. Rank(S, i) = Cardinality(T) /\ Rank(S, j) = Cardinality(U)
    BY DEF Rank
  <1> HIDE DEF T, U
  <1>4. Cardinality(T) <= Cardinality(U) /\ Cardinality(T) # Cardinality(U)
    BY <1>1, <1>2, FS_Subset
  <1> QED BY <1>2, <1>3, <1>4

LEMMA NthIs ==
  ASSUME NEW n \in Nat, NEW S \in SUBSET (1..n), NEW k \in 1..Cardinality(S)
  PROVE  Nth(S, k) \in S /\ Rank(S, Nth(S, k)) = k
  <1> DEFINE U == {i \in Nat : Rank(S, i) >= k}
  <1>0. \A j \in S : j \in Nat /\ j <= n /\ ~(j <= 0)
    OBVIOUS
  <1>1. \A i : Rank(S, i) \in Nat /\ Cardinality(S) \in Nat /\ IsFiniteSet({j \in S : j <= i})
    BY Ranks
  <1>2. n \in U
    <2>1. {j \in S : j <= n} = S
      BY <1>0
    <2>2. Rank(S, n) = Cardinality(S)
      BY <2>1 DEF Rank
    <2> QED BY <1>1, <2>2
  <1>3. PICK i \in U : \A j \in U : i <= j
    BY <1>2, LeastNumber
  <1>4. i \in Nat /\ Rank(S, i) >= k /\ k \in Nat \ {0}
    BY <1>1
  <1>5. i # 0
    <2>1. {j \in S : j <= 0} = {}
      BY <1>0
    <2>2. Rank(S, 0) = 0
      BY <2>1, FS_EmptySet DEF Rank
    <2> QED BY <1>4, <2>2
  <1>6. i - 1 \in Nat /\ ~(Rank(S, i - 1) >= k)
    BY <1>3, <1>4, <1>5
  <1> DEFINE T == {j \in S : j <= i - 1}
             V == {j \in S : j <= i}
  <1>7. Rank(S, i) = Cardinality(V) /\ Rank(S, i - 1) = Cardinality(T) /\ IsFiniteSet(T)
    BY <1>1 DEF Rank
  <1>8. (i \in S => V = T \cup {i} /\ i \notin T) /\ (i \notin S => V = T)
    <2>1. \A j \in S : j <= i <=> j <= i - 1 \/ j = i
      BY <1>0, <1>4
    <2>2. ~(i <= i - 1)
      BY <1>4
    <2> QED BY <2>1, <2>2
  <1> HIDE DEF T, V, U
  <1>9. i \in S
    BY <1>4, <1>6, <1>7, <1>8
  <1>10. Cardinality(V) = Cardinality(T) + 1
    BY <1>7, <1>8, <1>9, FS_AddElement
  <1>11. Rank(S, i) = k
    <2>1. Rank(S, i) \in Nat /\ Rank(S, i - 1) \in Nat
      BY <1>1
    <2> QED BY <1>4, <1>6, <1>7, <1>10, <2>1
  <1>12. \E j \in S : Cardinality({x \in S : x <= j}) = k
    BY <1>9, <1>11 DEF Rank
  <1> QED BY <1>12 DEF Nth, Rank

\* What a log may hold.
Deliveries == (Kinds \X Messages) \cup {<<"cleared", Nothing>>}

LEMMA LoggedIs ==
  ASSUME NEW l, Sequence(l), NEW kind, NEW m
  PROVE  Logged(l, kind, m) <=> Has(l, kind, m)
  <1>1. DOMAIN l = 1..Len(l)
    BY DEF Sequence
  <1>2. Logged(l, kind, m) <=> \E j \in 1..Len(l) : l[j] = <<kind, m>>
    BY <1>1, Zenon DEF Logged, ToSet
  <1> QED BY <1>2 DEF Has, At

LEMMA OwedIs ==
  ASSUME NEW l, Sequence(l), NEW m
  PROVE  Owed(l, m) <=> Has(l, "accepted", m) /\ ~Has(l, "claimed", m) /\ ~Has(l, "entered", m)
  BY LoggedIs DEF Owed

LEMMA TypedSequence ==
  ASSUME NEW l, l \in Seq(Deliveries)
  PROVE  Sequence(l) /\ Len(l) \in Nat /\ DOMAIN l = 1..Len(l)
  BY SequenceOf DEF Sequence

LEMMA OwedIndex ==
  ASSUME NEW l, l \in Seq(Deliveries)
  PROVE  /\ OwedAt(l) \in SUBSET (1..Len(l))
         /\ \A i \in OwedAt(l) : l[i][2] \in Messages /\ Owed(l, l[i][2]) /\ i \in At(l, "accepted", l[i][2])
         /\ \A m : Owed(l, m) => \E i \in OwedAt(l) : l[i][2] = m
  <1>1. Sequence(l) /\ Len(l) \in Nat /\ DOMAIN l = 1..Len(l)
    BY TypedSequence
  <1>2. OwedAt(l) \in SUBSET (1..Len(l))
    BY <1>1 DEF OwedAt
  <1>3. ASSUME NEW i \in OwedAt(l)
        PROVE  l[i][2] \in Messages /\ Owed(l, l[i][2]) /\ i \in At(l, "accepted", l[i][2])
    <2>1. i \in 1..Len(l) /\ l[i][1] = "accepted" /\ Owed(l, l[i][2])
      BY <1>1 DEF OwedAt
    <2>2. l[i] \in Deliveries
      BY <1>1, <2>1
    <2>3. l[i] = <<"accepted", l[i][2]>> /\ l[i][2] \in Messages
      BY <2>1, <2>2 DEF Deliveries
    <2> QED BY <2>1, <2>3 DEF At
  <1>4. ASSUME NEW m, Owed(l, m)  PROVE \E i \in OwedAt(l) : l[i][2] = m
    <2>1. Has(l, "accepted", m)
      BY <1>1, <1>4, OwedIs
    <2>2. PICK i \in 1..Len(l) : l[i] = <<"accepted", m>>
      BY <2>1 DEF Has, At
    <2>3. l[i][1] = "accepted" /\ l[i][2] = m
      BY <2>2
    <2>4. i \in OwedAt(l)
      BY <1>1, <1>4, <2>3 DEF OwedAt
    <2> QED BY <2>3, <2>4
  <1> QED BY <1>2, <1>3, <1>4

\* The pending messages are those owed, once each, in the order of their acceptance.
InOrder(l, p) ==
  /\ \A j, k \in 1..Len(p) : p[j] = p[k] => j = k
  /\ \A j, k \in 1..Len(p) : \A a \in At(l, "accepted", p[j]), b \in At(l, "accepted", p[k]) : a < b => j < k

LEMMA PendingIs ==
  ASSUME NEW l, l \in Seq(Deliveries), \A m : Once(l, "accepted", m)
  PROVE  /\ Pending(l) \in Seq(Messages)
         /\ \A k \in 1..Len(Pending(l)) : Owed(l, Pending(l)[k])
         /\ \A m : Owed(l, m) => \E k \in 1..Len(Pending(l)) : Pending(l)[k] = m
         /\ InOrder(l, Pending(l))
  <1> DEFINE S == OwedAt(l)
             n == Len(l)
             p == Pending(l)
             d == Cardinality(S)
  <1>1. n \in Nat
    BY TypedSequence
  <1>2. /\ S \in SUBSET (1..n)
        /\ \A i \in S : l[i][2] \in Messages /\ Owed(l, l[i][2]) /\ i \in At(l, "accepted", l[i][2])
        /\ \A m : Owed(l, m) => \E i \in S : l[i][2] = m
    BY OwedIndex
  <1>3. p = [k \in 1..d |-> l[Nth(S, k)][2]]
    BY DEF Pending
  <1> HIDE DEF S, n, p
  <1>4. d \in Nat /\ \A i : Rank(S, i) \in Nat /\ Rank(S, i) <= d
    BY <1>1, <1>2, Ranks
  <1>5. ASSUME NEW k \in 1..d  PROVE Nth(S, k) \in S /\ Rank(S, Nth(S, k)) = k
    BY <1>1, <1>2, NthIs
  <1>6. ASSUME NEW i \in S, NEW j \in S, i < j  PROVE Rank(S, i) < Rank(S, j)
    <2>1. i \in Nat
      BY <1>2
    <2> QED BY <1>1, <1>2, <1>6, <2>1, RankGrows
  <1> HIDE DEF d
  <1>7. \A k \in 1..d : p[k] = l[Nth(S, k)][2] /\ p[k] \in Messages
    BY <1>2, <1>3, <1>5
  <1>8. p \in Seq(Messages) /\ Len(p) = d
    BY <1>3, <1>4, <1>7
  <1>9. ASSUME NEW k \in 1..d  PROVE Owed(l, p[k]) /\ Nth(S, k) \in At(l, "accepted", p[k])
    BY <1>2, <1>5, <1>7
  <1>10. ASSUME NEW k \in 1..d, NEW a \in At(l, "accepted", p[k])  PROVE a = Nth(S, k)
    BY <1>9 DEF Once
  <1>11. ASSUME NEW m, Owed(l, m)  PROVE \E k \in 1..d : p[k] = m
    <2>1. PICK i \in S : l[i][2] = m
      BY <1>2, <1>11
    <2> DEFINE k == Rank(S, i)
    <2>2. k \in 1..d
      <3>1. i \in Nat /\ 0 \in Nat /\ 0 < i
        BY <1>2
      <3>2. Rank(S, 0) < k
        BY <1>1, <1>2, <3>1, RankGrows
      <3> QED BY <1>4, <3>2
    <2>3. Nth(S, k) \in S /\ Rank(S, Nth(S, k)) = k
      BY <1>5, <2>2
    <2>4. ~(i < Nth(S, k)) /\ ~(Nth(S, k) < i)
      <3>1. Rank(S, i) = k /\ k \in Nat /\ ~(k < k)
        BY <1>4
      <3> HIDE DEF k
      <3> QED BY <1>6, <2>3, <3>1
    <2>5. i \in Nat /\ Nth(S, k) \in Nat
      <3>1. \A x \in S : x \in Nat
        BY <1>2
      <3> HIDE DEF k
      <3> QED BY <2>3, <3>1
    <2>6. i = Nth(S, k)
      BY <2>4, <2>5
    <2> QED BY <1>7, <2>1, <2>2, <2>6
  <1>12. ASSUME NEW j \in 1..d, NEW k \in 1..d, p[j] = p[k]  PROVE j = k
    <2>1. Nth(S, j) = Nth(S, k)
      BY <1>9, <1>10, <1>12
    <2> QED BY <1>5, <2>1
  <1>13. ASSUME NEW j \in 1..d, NEW k \in 1..d,
                NEW a \in At(l, "accepted", p[j]), NEW b \in At(l, "accepted", p[k]), a < b
         PROVE  j < k
    <2>1. a = Nth(S, j) /\ b = Nth(S, k)
      BY <1>10
    <2>2. a \in S /\ b \in S /\ Rank(S, a) = j /\ Rank(S, b) = k
      BY <1>5, <2>1
    <2> QED BY <1>6, <1>13, <2>2
  <1>14. InOrder(l, p)
    BY <1>8, <1>12, <1>13 DEF InOrder
  <1> QED BY <1>8, <1>9, <1>11, <1>14 DEF p

\* What an append does to any sequence.
LEMMA OneAppended ==
  ASSUME NEW S, NEW w, w \in Seq(S), NEW e, e \in S
  PROVE  /\ Append(w, e) \in Seq(S) /\ Len(Append(w, e)) = Len(w) + 1
         /\ \A i \in 1..Len(w) : Append(w, e)[i] = w[i]
         /\ Append(w, e)[Len(w) + 1] = e
  BY AppendProperties

\* One more element of p.
LEMMA OneMore ==
  ASSUME NEW S, NEW a, a \in Seq(S), NEW p, p \in Seq(S), NEW j, j \in Nat, j + 1 <= Len(p)
  PROVE  /\ a \o SubSeq(p, 1, j + 1) = Append(a \o SubSeq(p, 1, j), p[j + 1])
         /\ p[j + 1] \in S
  <1> DEFINE s == SubSeq(p, 1, j)
             t == SubSeq(p, 1, j + 1)
             u == a \o t
             v == Append(a \o s, p[j + 1])
             n == Len(a)
  <1>1. Len(p) \in Nat /\ n \in Nat /\ j + 1 \in 1..Len(p) /\ \A i \in 1..(j + 1) : p[i] \in S
    OBVIOUS
  <1>2. s \in Seq(S) /\ Len(s) = j /\ \A i \in 1..j : s[i] = p[i]
    BY <1>1, SubSeqProperties
  <1>3. t \in Seq(S) /\ Len(t) = j + 1 /\ \A i \in 1..(j + 1) : t[i] = p[i]
    BY <1>1, SubSeqProperties
  <1>4. p[j + 1] \in S
    BY <1>1
  <1> HIDE DEF s, t
  <1>5. /\ u \in Seq(S) /\ Len(u) = n + (j + 1)
        /\ \A i \in 1..(n + (j + 1)) : u[i] = IF i <= n THEN a[i] ELSE t[i - n]
    <2>1. /\ a \o t \in Seq(S) /\ Len(a \o t) = Len(a) + Len(t)
          /\ \A i \in 1..Len(a) + Len(t) : (a \o t)[i] = IF i <= Len(a) THEN a[i] ELSE t[i - Len(a)]
      <3>1. a \in Seq(S) /\ t \in Seq(S)
        BY <1>3
      <3> HIDE DEF n, u, v
      <3> QED BY <3>1, ConcatProperties, Zenon
    <2> DEFINE k == j + 1
               w == a \o t
    <2>2. /\ w \in Seq(S) /\ Len(w) = n + Len(t)
          /\ \A i \in 1..n + Len(t) : w[i] = IF i <= n THEN a[i] ELSE t[i - n]
      BY <2>1
    <2>3. Len(t) = k
      BY <1>3
    <2> HIDE DEF k, w, n
    <2>4. /\ w \in Seq(S) /\ Len(w) = n + k
          /\ \A i \in 1..(n + k) : w[i] = IF i <= n THEN a[i] ELSE t[i - n]
      BY <2>2, <2>3
    <2> QED BY <2>4 DEF k, w
  <1>6. /\ a \o s \in Seq(S) /\ Len(a \o s) = n + j
        /\ \A i \in 1..(n + j) : (a \o s)[i] = IF i <= n THEN a[i] ELSE s[i - n]
    <2>1. /\ a \o s \in Seq(S) /\ Len(a \o s) = Len(a) + Len(s)
          /\ \A i \in 1..Len(a) + Len(s) : (a \o s)[i] = IF i <= Len(a) THEN a[i] ELSE s[i - Len(a)]
      BY <1>2, ConcatProperties, Zenon
    <2> QED BY <1>2, <2>1
  <1>7. /\ v \in Seq(S) /\ Len(v) = (n + j) + 1
        /\ \A i \in 1..(n + j) : v[i] = (a \o s)[i]
        /\ v[(n + j) + 1] = p[j + 1]
    <2> DEFINE w == a \o s
    <2>1. w \in Seq(S) /\ Len(w) = n + j
      BY <1>6
    <2> DEFINE e == p[j + 1]
    <2>2. e \in S
      BY <1>4
    <2> HIDE DEF w, e
    <2>3. /\ Append(w, e) \in Seq(S) /\ Len(Append(w, e)) = Len(w) + 1
          /\ \A i \in 1..Len(w) : Append(w, e)[i] = w[i]
          /\ Append(w, e)[Len(w) + 1] = e
      BY <2>1, <2>2, OneAppended
    <2> QED BY <2>1, <2>3 DEF w, e
  <1> HIDE DEF u, v
  <1>8. ASSUME NEW i \in 1..(n + (j + 1))  PROVE u[i] = v[i]
    <2>1. CASE i <= n
      <3>1. i \in 1..(n + j)
        BY <1>1, <2>1
      <3>2. u[i] = a[i]
        BY <1>5, <2>1
      <3>3. v[i] = a[i]
        BY <1>6, <1>7, <2>1, <3>1
      <3> QED BY <3>2, <3>3
    <2>2. CASE ~(i <= n) /\ i # n + (j + 1)
      <3>1. i \in 1..(n + j) /\ i - n \in 1..j /\ i - n \in 1..(j + 1)
        BY <1>1, <2>2
      <3>2. v[i] = p[i - n]
        BY <1>2, <1>6, <1>7, <2>2, <3>1
      <3>3. u[i] = p[i - n]
        BY <1>3, <1>5, <2>2, <3>1
      <3> QED BY <3>2, <3>3
    <2>3. CASE i = n + (j + 1)
      <3>1. i = (n + j) + 1 /\ ~(i <= n) /\ i - n = j + 1 /\ j + 1 \in 1..(j + 1)
        BY <1>1, <2>3
      <3> QED BY <1>3, <1>5, <1>7, <3>1
    <2> QED BY <2>1, <2>2, <2>3
  <1>9. Len(u) = Len(v)
    BY <1>1, <1>5, <1>7
  <1>10. u = v
    BY <1>5, <1>7, <1>8, <1>9, SeqEqual
  <1> QED BY <1>4, <1>10 DEF u, v, s, t

-----------------------------------------------------------------------------
(* The replay of the mailbox in a resumed child's inbox. *)

\* Enqueueing says nothing of acceptance, claims and entries.
Same(l, w) ==
  /\ \A kind, x : kind # "inserted" => (Has(w, kind, x) <=> Has(l, kind, x))
  /\ \A x, y : Before(w, x, y) <=> Before(l, x, y)

\* w is l with the first j messages of p enqueued.
Enqueued(l, R, p, j, w) ==
  /\ w \in Seq(Deliveries) /\ EventsStand(w, R) /\ AllStand(w, R)
  /\ Replay(w) = Replay(l) \o SubSeq(p, 1, j)
  /\ Same(l, w)

LEMMA ToSetIs ==
  ASSUME NEW S, NEW s, s \in Seq(S)
  PROVE  \A x : x \in ToSet(s) <=> \E i \in 1..Len(s) : s[i] = x
  <1>1. DOMAIN s = 1..Len(s)
    OBVIOUS
  <1> QED BY <1>1 DEF ToSet

LEMMA ToSetJoined ==
  ASSUME NEW S, NEW a, a \in Seq(S), NEW b, b \in Seq(S)
  PROVE  \A x : x \in ToSet(a \o b) <=> x \in ToSet(a) \/ x \in ToSet(b)
  <1> DEFINE c == a \o b
             n == Len(a)
             m == Len(b)
  <1>1. /\ c \in Seq(S) /\ Len(c) = n + m
        /\ \A i \in 1..n : c[i] = a[i]
        /\ \A i \in 1..m : c[n + i] = b[i]
    <2>1. Sequence(a) /\ Sequence(b)
      BY SequenceOf
    <2> QED BY <2>1, Concatenated
  <1>2. n \in Nat /\ m \in Nat
    OBVIOUS
  <1>3. /\ \A x : x \in ToSet(a) <=> \E i \in 1..n : a[i] = x
        /\ \A x : x \in ToSet(b) <=> \E i \in 1..m : b[i] = x
    BY ToSetIs
  <1> HIDE DEF c
  <1>4. \A x : x \in ToSet(c) <=> \E i \in 1..Len(c) : c[i] = x
    <2>1. c \in Seq(S)
      BY <1>1
    <2> QED BY <2>1, ToSetIs
  <1> HIDE DEF n, m
  <1>5. ASSUME NEW x, x \in ToSet(c)  PROVE x \in ToSet(a) \/ x \in ToSet(b)
    <2>1. PICK i \in 1..Len(c) : c[i] = x
      BY <1>4, <1>5
    <2>2. CASE i \in 1..n
      BY <1>1, <1>3, <2>1, <2>2
    <2>3. CASE i \notin 1..n
      <3>1. i - n \in 1..m /\ n + (i - n) = i
        BY <1>1, <1>2, <2>1, <2>3
      <3>2. b[i - n] = x
        BY <1>1, <2>1, <3>1
      <3> QED BY <1>3, <3>1, <3>2
    <2> QED BY <2>2, <2>3
  <1>6. ASSUME NEW x, x \in ToSet(a)  PROVE x \in ToSet(c)
    <2>1. PICK i \in 1..n : a[i] = x
      BY <1>3, <1>6
    <2>2. i \in 1..Len(c)
      BY <1>1, <1>2
    <2> QED BY <1>1, <1>4, <2>1, <2>2
  <1>7. ASSUME NEW x, x \in ToSet(b)  PROVE x \in ToSet(c)
    <2>1. PICK i \in 1..m : b[i] = x
      BY <1>3, <1>7
    <2>2. n + i \in 1..Len(c)
      BY <1>1, <1>2
    <2> QED BY <1>1, <1>4, <2>1, <2>2
  <1> QED BY <1>5, <1>6, <1>7 DEF c

LEMMA ToSetCut ==
  ASSUME NEW S, NEW p, p \in Seq(S), NEW j, j \in Nat, j <= Len(p)
  PROVE  /\ SubSeq(p, 1, j) \in Seq(S) /\ Len(SubSeq(p, 1, j)) = j
         /\ \A i \in 1..j : SubSeq(p, 1, j)[i] = p[i]
         /\ \A x : x \in ToSet(SubSeq(p, 1, j)) <=> \E i \in 1..j : p[i] = x
  <1> DEFINE s == SubSeq(p, 1, j)
  <1>1. Len(p) \in Nat /\ \A i \in 1..j : p[i] \in S
    OBVIOUS
  <1>2. s \in Seq(S) /\ Len(s) = j /\ \A i \in 1..j : s[i] = p[i]
    BY <1>1, SubSeqProperties
  <1> HIDE DEF s
  <1>3. \A x : x \in ToSet(s) <=> \E i \in 1..Len(s) : s[i] = x
    BY <1>2, ToSetIs
  <1>4. \A x : x \in ToSet(s) <=> \E i \in 1..j : p[i] = x
    BY <1>2, <1>3
  <1> QED BY <1>2, <1>4 DEF s

\* What was enqueued when y was accepted, and has not left the inbox, is owed.
LEMMA OwedBefore ==
  ASSUME NEW l, l \in Seq(Deliveries), NEW R, EventsStand(l, R), NEW x, Has(l, "inserted", x), ~Has(l, "removed", x)
  PROVE  Owed(l, x)
  <1>1. Sequence(l)
    BY TypedSequence
  <1>2. Has(l, "accepted", x) /\ ~Has(l, "entered", x) /\ ~Has(l, "claimed", x)
    BY Logged4
  <1> QED BY <1>1, <1>2, OwedIs

LEMMA AcceptedEarlier ==
  ASSUME NEW l, Sequence(l), NEW R, EventsStand(l, R), NEW x, NEW y, Before(l, x, y)
  PROVE  \E a \in At(l, "accepted", x), b \in At(l, "accepted", y) : a < b
  <1>1. PICK i \in At(l, "inserted", x), b \in At(l, "accepted", y) : i < b
    BY DEF Before
  <1>2. Follows(l, "inserted", x, "accepted", x)
    BY DEF EventsStand
  <1>3. PICK a \in At(l, "accepted", x) : a < i
    BY <1>2 DEF Follows
  <1>4. a \in Nat /\ i \in Nat /\ b \in Nat
    BY AtIndices
  <1>5. a < b
    BY <1>1, <1>3, <1>4
  <1> QED BY <1>5

\* The members of a prefix of messages.
LEMMA CutMembers ==
  ASSUME NEW p, p \in Seq(Messages), NEW j, j \in Nat, j <= Len(p)
  PROVE  /\ SubSeq(p, 1, j) \in Seq(Messages)
         /\ \A x : x \in ToSet(SubSeq(p, 1, j)) <=> \E i \in 1..j : p[i] = x
  BY ToSetCut

LEMMA EnqueueStep ==
  ASSUME NEW l, l \in Seq(Deliveries), NEW R, EventsStand(l, R), ListStands(l, R), NEW p, p = Pending(l),
         NEW j, j \in Nat, j + 1 <= Len(p), NEW w, Enqueued(l, R, p, j, w), p[j + 1] \notin ToSet(Replay(l))
  PROVE  Enqueued(l, R, p, j + 1, Append(w, <<"inserted", p[j + 1]>>))
  <1> DEFINE m == p[j + 1]
             r == Append(w, <<"inserted", m>>)
             q == Replay(l)
             s == SubSeq(p, 1, j)
  <1>1. /\ w \in Seq(Deliveries) /\ EventsStand(w, R) /\ AllStand(w, R)
        /\ Replay(w) = q \o s
        /\ Same(l, w)
    BY DEF Enqueued
  <1>2. Sequence(w) /\ Sequence(l)
    BY <1>1, TypedSequence
  <1>3. /\ p \in Seq(Messages)
        /\ \A k \in 1..Len(p) : Owed(l, p[k])
        /\ \A x : Owed(l, x) => \E k \in 1..Len(p) : p[k] = x
        /\ InOrder(l, p)
    <2>1. \A x : Once(l, "accepted", x)
      BY DEF EventsStand
    <2> QED BY <2>1, PendingIs
  <1>4. Len(p) \in Nat /\ j + 1 \in 1..Len(p) /\ j <= Len(p)
    BY <1>3
  <1>5. m \in Messages /\ Owed(l, m)
    BY <1>3, <1>4
  <1>6. q \in Seq(Messages) /\ m \notin ToSet(q)
    BY DEF ListStands
  <1>7. s \in Seq(Messages) /\ \A x : x \in ToSet(s) <=> \E i \in 1..j : p[i] = x
    <2>1. p \in Seq(Messages) /\ j <= Len(p)
      BY <1>3, <1>4
    <2> HIDE DEF m, r, q
    <2> QED BY <2>1, CutMembers
  <1>8. q \o SubSeq(p, 1, j + 1) = Append(q \o s, m)
    <2>1. q \in Seq(Messages) /\ p \in Seq(Messages)
      BY <1>3, <1>6
    <2> HIDE DEF q
    <2> QED BY <2>1, OneMore
  <1>9. \A k \in 1..Len(p) : \A i \in 1..Len(p) : p[i] = p[k] => i = k
    BY <1>3 DEF InOrder
  <1>10. m \notin ToSet(s)
    <2>1. ASSUME NEW i \in 1..j, p[i] = m  PROVE FALSE
      <3>1. i \in 1..Len(p) /\ i # j + 1
        BY <1>4
      <3> QED BY <1>4, <1>9, <2>1, <3>1
    <2> QED BY <1>7, <2>1
  <1>11. \A x, b : \A a \in At(l, "accepted", x) : b \in At(l, "accepted", m) /\ a < b /\ Owed(l, x) => x \in ToSet(s)
    <2> SUFFICES ASSUME NEW x, NEW b \in At(l, "accepted", m), NEW a \in At(l, "accepted", x), a < b, Owed(l, x)
                 PROVE  x \in ToSet(s)
      OBVIOUS
    <2>1. PICK i \in 1..Len(p) : p[i] = x
      BY <1>3
    <2>2. i < j + 1
      <3>1. a \in At(l, "accepted", p[i]) /\ b \in At(l, "accepted", p[j + 1])
        BY <2>1
      <3> QED BY <1>3, <1>4, <3>1 DEF InOrder
    <2>3. i \in 1..j
      BY <1>4, <2>2
    <2> QED BY <1>7, <2>1, <2>3
  <1>12. \A x : x \in ToSet(q \o s) <=> x \in ToSet(q) \/ x \in ToSet(s)
    BY <1>6, <1>7, ToSetJoined
  <1> HIDE DEF m, s, q
  <1>13. Has(l, "accepted", m) /\ ~Has(l, "entered", m)
    BY <1>2, <1>5, OwedIs
  <1>14. Has(w, "accepted", m) /\ ~Has(w, "entered", m)
    BY <1>1, <1>13 DEF Same
  <1>15. ASSUME NEW x, x # m, Before(w, x, m), ~Has(w, "removed", x)  PROVE x \in ToSet(Replay(w))
    <2>1. Before(l, x, m) /\ ~Has(l, "removed", x)
      BY <1>1, <1>15 DEF Same
    <2>2. PICK a \in At(l, "accepted", x), b \in At(l, "accepted", m) : a < b
      BY <1>2, <2>1, AcceptedEarlier
    <2>3. Has(l, "inserted", x)
      BY <2>1, BeforeHas
    <2>4. Owed(l, x)
      BY <2>1, <2>3, OwedBefore
    <2> QED BY <1>1, <1>11, <1>12, <2>2, <2>4
  <1>16. ListStands(w, R)
    BY <1>1, <1>2, AllNow
  <1>17. m \notin ToSet(Replay(w))
    BY <1>1, <1>6, <1>10, <1>12
  <1>18. ListStands(r, R) /\ Replay(r) = Append(Replay(w), m)
    BY <1>1, <1>2, <1>5, <1>14, <1>15, <1>16, <1>17, ListInserted
  <1>19. Fits(w, "inserted", m, R)
    BY <1>14 DEF Fits
  <1>20. EventsStand(r, R)
    BY <1>1, <1>2, <1>19, EventFits
  <1>21. AllStand(r, R)
    BY <1>1, <1>2, <1>18, AllAppend
  <1>22. Same(l, r)
    <2>1. \A kind, x : kind # "inserted" => (Has(r, kind, x) <=> Has(w, kind, x))
      BY <1>2, HasAppend
    <2>2. \A x, y : Before(r, x, y) <=> Before(w, x, y)
      BY <1>2, BeforeAppend
    <2> HIDE DEF r
    <2> QED BY <1>1, <2>1, <2>2 DEF Same
  <1>23. r \in Seq(Deliveries)
    <2>1. <<"inserted", m>> \in Deliveries
      BY <1>5 DEF Deliveries, Kinds
    <2> QED BY <1>1, <2>1
  <1>24. Replay(r) = q \o SubSeq(p, 1, j + 1)
    BY <1>1, <1>8, <1>18
  <1> HIDE DEF r
  <1>25. Enqueued(l, R, p, j + 1, r)
    BY <1>20, <1>21, <1>22, <1>23, <1>24 DEF Enqueued, q
  <1> QED BY <1>25 DEF r, m

LEMMA EventsAre ==
  ASSUME NEW p, p \in Seq(Messages)
  PROVE  /\ Events("inserted", p) \in Seq(Deliveries) /\ Len(Events("inserted", p)) = Len(p)
         /\ \A i \in 1..Len(p) : Events("inserted", p)[i] = <<"inserted", p[i]>>
  <1> DEFINE es == Events("inserted", p)
             n == Len(p)
  <1>1. n \in Nat /\ \A i \in 1..n : p[i] \in Messages
    OBVIOUS
  <1>2. es = [i \in 1..n |-> <<"inserted", p[i]>>]
    BY DEF Events
  <1> HIDE DEF es, n
  <1>3. \A i \in 1..n : es[i] = <<"inserted", p[i]>> /\ es[i] \in Deliveries
    BY <1>1, <1>2 DEF Deliveries, Kinds
  <1>4. es \in Seq(Deliveries) /\ Len(es) = n
    BY <1>1, <1>2, <1>3
  <1> QED BY <1>3, <1>4 DEF es, n

\* The events of the first messages are the first events.
LEMMA EventsCutOff ==
  ASSUME NEW p, p \in Seq(Messages), NEW c, c \in Nat, c <= Len(p)
  PROVE  Events("inserted", SubSeq(p, 1, c)) = SubSeq(Events("inserted", p), 1, c)
  <1> DEFINE s == SubSeq(p, 1, c)
             es == Events("inserted", p)
             a == Events("inserted", s)
             b == SubSeq(es, 1, c)
  <1>1. s \in Seq(Messages)
    BY ToSetCut
  <1>2. Len(s) = c
    BY ToSetCut
  <1>3. \A i \in 1..c : s[i] = p[i]
    BY ToSetCut
  <1>4. Len(p) \in Nat
    OBVIOUS
  <1>5. es \in Seq(Deliveries) /\ Len(es) = Len(p) /\ \A i \in 1..Len(p) : es[i] = <<"inserted", p[i]>>
    BY EventsAre
  <1> HIDE DEF s, es
  <1>6. a \in Seq(Deliveries) /\ Len(a) = Len(s) /\ \A i \in 1..Len(s) : a[i] = <<"inserted", s[i]>>
    BY <1>1, EventsAre
  <1>7. b \in Seq(Deliveries) /\ Len(b) = c /\ \A i \in 1..c : b[i] = es[i]
    <2>1. es \in Seq(Deliveries) /\ c <= Len(es)
      BY <1>5
    <2>2. b \in Seq(Deliveries)
      BY <2>1, ToSetCut
    <2>3. Len(b) = c
      BY <2>1, ToSetCut
    <2>4. \A i \in 1..c : b[i] = es[i]
      BY <2>1, ToSetCut
    <2> QED BY <2>2, <2>3, <2>4
  <1> HIDE DEF a, b
  <1>8. ASSUME NEW i \in 1..c  PROVE a[i] = b[i]
    <2>1. i \in 1..Len(p)
      BY <1>4
    <2> QED BY <1>2, <1>3, <1>5, <1>6, <1>7, <2>1
  <1>9. Len(a) = Len(b) /\ \A i \in 1..Len(a) : a[i] = b[i]
    BY <1>2, <1>6, <1>7, <1>8
  <1>10. a = b
    BY <1>6, <1>7, <1>9, SeqEqual
  <1> QED BY <1>10 DEF a, b, s, es

\* A log whose every beginning is in order.
LogGood(l, R) == l \in Seq(Deliveries) /\ EventsStand(l, R) /\ AllStand(l, R)

LEMMA GoodNow ==
  ASSUME NEW l, NEW R, LogGood(l, R)
  PROVE  /\ l \in Seq(Deliveries) /\ Sequence(l) /\ EventsStand(l, R) /\ AllStand(l, R) /\ ListStands(l, R)
         /\ Replay(l) \in Seq(Messages)
  <1>1. l \in Seq(Deliveries) /\ EventsStand(l, R) /\ AllStand(l, R)
    BY DEF LogGood
  <1>2. Sequence(l)
    BY <1>1, TypedSequence
  <1>3. ListStands(l, R)
    BY <1>1, <1>2, AllNow
  <1> QED BY <1>1, <1>2, <1>3 DEF ListStands

LEMMA EnqueueAll ==
  ASSUME NEW l, NEW R, LogGood(l, R), NEW p, p = Pending(l), NEW c, c \in Nat, c <= Len(p),
         \A i \in 1..c : p[i] \notin ToSet(Replay(l))
  PROVE  Enqueued(l, R, p, c, l \o Events("inserted", SubSeq(p, 1, c)))
  <1> DEFINE es == Events("inserted", p)
             q == Replay(l)
             w(j) == l \o SubSeq(es, 1, j)
             Bad == {j \in 0..c : ~Enqueued(l, R, p, j, w(j))}
  <1>1. l \in Seq(Deliveries) /\ EventsStand(l, R) /\ AllStand(l, R) /\ ListStands(l, R) /\ q \in Seq(Messages)
    BY GoodNow
  <1>2. p \in Seq(Messages)
    <2>1. \A x : Once(l, "accepted", x)
      BY <1>1 DEF EventsStand
    <2> QED BY <1>1, <2>1, PendingIs
  <1>3. es \in Seq(Deliveries) /\ Len(es) = Len(p) /\ \A i \in 1..Len(p) : es[i] = <<"inserted", p[i]>>
    BY <1>2, EventsAre
  <1>4. Len(p) \in Nat
    BY <1>2
  <1>5. \A i \in 1..c : p[i] \notin ToSet(q)
    OBVIOUS
  <1> HIDE DEF es, Bad
  <1>6. Bad = {}
    <2> SUFFICES ASSUME Bad # {}  PROVE FALSE
      OBVIOUS
    <2>1. Bad \in SUBSET Nat
      BY DEF Bad
    <2>2. PICK k \in Bad : \A m \in Bad : k <= m
      BY <2>1, LeastNumber
    <2>3. k \in 0..c /\ ~Enqueued(l, R, p, k, w(k))
      BY DEF Bad
    <2>4. CASE k = 0
      <3>1. SubSeq(es, 1, 0) = <<>> /\ SubSeq(p, 1, 0) = <<>>
        BY SubSeqEmpty
      <3>2. w(0) = l
        BY <1>1, <3>1, ConcatEmptySeq
      <3>3. q \o SubSeq(p, 1, 0) = q
        BY <1>1, <3>1, ConcatEmptySeq
      <3>4. Same(l, l)
        BY DEF Same
      <3>5. Enqueued(l, R, p, 0, l)
        BY <1>1, <3>3, <3>4 DEF Enqueued
      <3> QED BY <2>3, <2>4, <3>2, <3>5
    <2>5. CASE k # 0
      <3> DEFINE j == k - 1
      <3>1. j \in Nat /\ j + 1 = k /\ j \in 0..c /\ j + 1 <= Len(p) /\ j + 1 \in 1..c /\ j + 1 \in 1..Len(p) /\ ~(k <= j)
        BY <1>4, <2>3, <2>5
      <3> HIDE DEF j
      <3>2. j \notin Bad
        BY <2>2, <3>1
      <3>3. Enqueued(l, R, p, j, w(j))
        BY <3>1, <3>2 DEF Bad
      <3>4. w(j + 1) = Append(w(j), es[j + 1])
        <4>1. j + 1 <= Len(es)
          BY <1>3, <3>1
        <4>2. es \in Seq(Deliveries)
          BY <1>3
        <4> QED BY <1>1, <3>1, <4>1, <4>2, OneMore
      <3>5. es[j + 1] = <<"inserted", p[j + 1]>> /\ p[j + 1] \notin ToSet(q)
        BY <1>3, <1>5, <3>1
      <3> DEFINE v == w(j)
      <3>6. Enqueued(l, R, p, j, v)
        BY <3>3
      <3> HIDE DEF v
      <3>7. Enqueued(l, R, p, j + 1, Append(v, <<"inserted", p[j + 1]>>))
        BY <1>1, <3>1, <3>5, <3>6, EnqueueStep
      <3>8. Enqueued(l, R, p, j + 1, w(j + 1))
        BY <3>4, <3>5, <3>7 DEF v
      <3> QED BY <2>3, <3>1, <3>8
    <2> QED BY <2>4, <2>5
  <1>7. c \in 0..c
    OBVIOUS
  <1>8. Enqueued(l, R, p, c, w(c))
    BY <1>6, <1>7 DEF Bad
  <1>9. Events("inserted", SubSeq(p, 1, c)) = SubSeq(es, 1, c)
    BY <1>2, EventsCutOff DEF es
  <1> QED BY <1>8, <1>9

\* A set of indices that reaches down to 1 is an interval.
LEMMA Interval ==
  ASSUME NEW n \in Nat, NEW T \in SUBSET (1..n), \A i \in T : \A j \in 1..i : j \in T
  PROVE  Cardinality(T) \in Nat /\ T = 1..Cardinality(T) /\ Cardinality(T) <= n
  <1> DEFINE U == {i \in Nat : i + 1 \notin T}
  <1>1. n \in U
    OBVIOUS
  <1>2. PICK m \in U : \A i \in U : m <= i
    BY <1>1, LeastNumber
  <1>3. m \in Nat /\ m + 1 \notin T /\ m <= n
    BY <1>1, <1>2
  <1>4. ASSUME NEW i \in T  PROVE i \in 1..m
    <2>1. i \in Nat /\ i # 0 /\ ~(m + 1 \in 1..i)
      BY <1>3
    <2> QED BY <1>3, <2>1
  <1>5. ASSUME NEW i \in 1..m  PROVE i \in T
    <2>1. i - 1 \in Nat /\ ~(m <= i - 1) /\ (i - 1) + 1 = i
      BY <1>3
    <2> QED BY <1>2, <2>1
  <1>6. T = 1..m
    BY <1>4, <1>5
  <1>7. Cardinality(1..m) = m
    <2>1. Cardinality(1..m) = IF 1 > m THEN 0 ELSE m - 1 + 1
      BY <1>3, FS_Interval
    <2> QED BY <1>3, <2>1
  <1> QED BY <1>3, <1>6, <1>7

-----------------------------------------------------------------------------
(* The rest of the inductive invariant. *)

\* The turn in preparation holds a message that has left the inbox, and enters it
\* once, after those it must not overtake.
HandOn(l, R, q, c) ==
  c # Nothing =>
    /\ c \in Messages
    /\ Has(l, "removed", c)
    /\ c \in R \/ (~Has(l, "entered", c) /\ c \notin ToSet(q))
    /\ Has(l, "entered", c) \/ \A x : x # c /\ Before(l, x, c) => Has(l, "removed", x)

\* A resident child's inbox has all that was enqueued and not taken off it; what is
\* owed of it is in accepted.
Complete(l, q, A) ==
  /\ \A x : Has(l, "inserted", x) /\ ~Has(l, "removed", x) => x \in ToSet(q)
  /\ \A x : x \in ToSet(q) /\ Owed(l, x) => x \in A

Holding(c, d) == c # Nothing <=> d = "preStep"

DeliveryInv ==
  /\ LogGood(log, raced)
  /\ Holding(claimed, driver) /\ HandOn(log, raced, inbox, claimed)
  /\ activation # "none" => inbox = Replay(log)
  /\ activation = "resident" => Complete(log, inbox, accepted)

MailboxInv == ReceiptInv /\ DeliveryInv

LEMMA GoodAppend ==
  ASSUME NEW l, NEW R, LogGood(l, R), NEW kind, NEW m, <<kind, m>> \in Deliveries,
         EventsStand(Append(l, <<kind, m>>), R), ListStands(Append(l, <<kind, m>>), R)
  PROVE  LogGood(Append(l, <<kind, m>>), R)
  <1>1. l \in Seq(Deliveries) /\ Sequence(l) /\ AllStand(l, R)
    BY GoodNow
  <1>2. AllStand(Append(l, <<kind, m>>), R)
    BY <1>1, AllAppend
  <1>3. Append(l, <<kind, m>>) \in Seq(Deliveries)
    BY <1>1
  <1> QED BY <1>2, <1>3 DEF LogGood

LEMMA HandKept ==
  ASSUME NEW l, Sequence(l), NEW R, EventsStand(l, R), NEW c, NEW q, HandOn(l, R, q, c),
         NEW kind, NEW m, kind # "entered", kind = "accepted" => ~Has(l, "accepted", m),
         NEW Q, R \subseteq Q, NEW p, c \in Q \/ (c \in ToSet(p) => c \in ToSet(q))
  PROVE  HandOn(Append(l, <<kind, m>>), Q, p, c)
  <1> SUFFICES ASSUME c # Nothing  PROVE HandOn(Append(l, <<kind, m>>), Q, p, c)
    BY DEF HandOn
  <1> DEFINE r == Append(l, <<kind, m>>)
  <1>1. /\ c \in Messages
        /\ Has(l, "removed", c)
        /\ c \in R \/ (~Has(l, "entered", c) /\ c \notin ToSet(q))
        /\ Has(l, "entered", c) \/ \A x : x # c /\ Before(l, x, c) => Has(l, "removed", x)
    BY DEF HandOn
  <1>2. Has(l, "accepted", c)
    BY <1>1, Logged4
  <1>3. \A x : Has(l, "removed", x) => Has(r, "removed", x)
    BY HasAppend
  <1>4. \A x : Has(r, "entered", x) <=> Has(l, "entered", x)
    BY HasAppend
  <1>5. \A x : Before(r, x, c) => Before(l, x, c)
    BY <1>2, BeforeAppend
  <1> HIDE DEF r
  <1>6. HandOn(r, Q, p, c)
    BY <1>1, <1>3, <1>4, <1>5 DEF HandOn
  <1> QED BY <1>6 DEF r

\* An empty hand is always in order.
LEMMA EmptyHand ==
  ASSUME NEW l, NEW R, NEW q  PROVE HandOn(l, R, q, Nothing)
  BY DEF HandOn

\* A list is emptied.
LEMMA ListCleared ==
  ASSUME NEW l, NEW R, LogGood(l, R), NEW c, NEW q, HandOn(l, R, q, c)
  PROVE  /\ LogGood(Clear(l, Replay(l)), R) /\ Replay(Clear(l, Replay(l))) = <<>>
         /\ HandOn(Clear(l, Replay(l)), R, <<>>, c)
  <1>1. l \in Seq(Deliveries) /\ Sequence(l) /\ EventsStand(l, R)
    BY GoodNow
  <1>2. c \notin ToSet(<<>>)
    BY DEF ToSet
  <1>3. CASE Replay(l) = <<>>
    <2>1. Clear(l, Replay(l)) = l
      BY <1>3 DEF Clear
    <2>2. HandOn(l, R, <<>>, c)
      BY <1>2 DEF HandOn
    <2> QED BY <1>3, <2>1, <2>2
  <1>4. CASE Replay(l) # <<>>
    <2> DEFINE r == Append(l, <<"cleared", Nothing>>)
               kind == "cleared"
    <2>1. Clear(l, Replay(l)) = r
      BY <1>4 DEF Clear
    <2>2. Replay(r) = <<>>
      BY <1>1, Spliced
    <2>3. ListStands(r, R)
      BY <2>2, ListEmpty
    <2>4. EventsStand(r, R)
      <3>1. Fits(l, kind, Nothing, R)
        BY DEF Fits
      <3> HIDE DEF kind
      <3>2. EventsStand(Append(l, <<kind, Nothing>>), R)
        BY <1>1, <3>1, EventFits
      <3> QED BY <3>2 DEF kind
    <2>5. LogGood(r, R)
      <3>1. <<kind, Nothing>> \in Deliveries
        BY DEF Deliveries
      <3> HIDE DEF kind
      <3>2. LogGood(Append(l, <<kind, Nothing>>), R)
        BY <2>3, <2>4, <3>1, GoodAppend DEF kind
      <3> QED BY <3>2 DEF kind
    <2>6. HandOn(r, R, <<>>, c)
      <3>1. kind # "entered" /\ (kind = "accepted" => ~Has(l, "accepted", Nothing)) /\ R \subseteq R
        OBVIOUS
      <3>2. c \in R \/ (c \in ToSet(<<>>) => c \in ToSet(q))
        BY <1>2
      <3> DEFINE e == <<>>
      <3> HIDE DEF kind, e
      <3>3. HandOn(Append(l, <<kind, Nothing>>), R, e, c)
        BY <1>1, <3>1, <3>2, HandKept DEF e
      <3> QED BY <3>3 DEF kind, e
    <2> QED BY <2>1, <2>2, <2>5, <2>6
  <1> QED BY <1>3, <1>4

\* The beginnings of a log in order are in order.
LEMMA GoodCut ==
  ASSUME NEW l, NEW R, LogGood(l, R), NEW k \in Nat, k <= Len(l)
  PROVE  LogGood(SubSeq(l, 1, k), R)
  <1>1. l \in Seq(Deliveries) /\ Sequence(l) /\ EventsStand(l, R) /\ AllStand(l, R)
    BY GoodNow
  <1>2. EventsStand(SubSeq(l, 1, k), R)
    BY <1>1, EventsCut
  <1>3. AllStand(SubSeq(l, 1, k), R)
    BY <1>1, AllCut
  <1>4. SubSeq(l, 1, k) \in Seq(Deliveries)
    BY <1>1, ToSetCut
  <1> QED BY <1>2, <1>3, <1>4 DEF LogGood

LEMMA GoodMore ==
  ASSUME NEW l, NEW R, LogGood(l, R), NEW Q, R \subseteq Q
  PROVE  LogGood(l, Q)
  BY EventsMore, AllMore DEF LogGood

-----------------------------------------------------------------------------
(* The actions keep the order of deliveries. *)

LEMMA InvParts ==
  ASSUME MailboxInv
  PROVE  /\ LogGood(log, raced) /\ log \in Seq(Deliveries) /\ Sequence(log)
         /\ EventsStand(log, raced) /\ ListStands(log, raced) /\ Replay(log) \in Seq(Messages)
         /\ Holding(claimed, driver) /\ HandOn(log, raced, inbox, claimed)
         /\ activation # "none" => inbox = Replay(log)
         /\ activation = "resident" => Complete(log, inbox, accepted)
         /\ activation = "none" => driver = "none"
         /\ \A m \in acks : Has(log, "entered", m)
  <1>1. LogGood(log, raced)
    BY DEF MailboxInv, DeliveryInv
  <1>2. /\ log \in Seq(Deliveries) /\ Sequence(log)
        /\ EventsStand(log, raced) /\ ListStands(log, raced) /\ Replay(log) \in Seq(Messages)
    BY <1>1, GoodNow
  <1>3. \A m \in acks : Has(log, "entered", m)
    BY DEF MailboxInv, ReceiptInv, LogStands, Has
  <1>4. activation = "none" => driver = "none"
    BY DEF MailboxInv, ReceiptInv, LogStands
  <1> QED BY <1>1, <1>2, <1>3, <1>4 DEF MailboxInv, DeliveryInv

\* Nothing happens to the deliveries.
LEMMA QuietKeeps ==
  ASSUME DeliveryInv, UNCHANGED <<log, inbox, activation, accepted, raced, claimed>>,
         driver' = "preStep" <=> driver = "preStep"
  PROVE  DeliveryInv'
  BY DEF DeliveryInv, Holding

LEMMA QuietCalls ==
  ASSUME DeliveryInv, NEW c,
         Call(c) \/ Refuse(c) \/ AwaitClosing(c) \/ Closed(c) \/ ColdResume(c) \/ ResumeFails(c) \/ Unwound(c)
  PROVE  DeliveryInv'
  <1>1. UNCHANGED <<log, inbox, activation, accepted, raced, claimed, driver>>
    BY DEF Call, Refuse, AwaitClosing, Closed, ColdResume, ResumeFails, Unwound,
           sessionVars, residencyVars, driverVars
  <1> QED BY <1>1, QuietKeeps

LEMMA QuietChild ==
  ASSUME DeliveryInv, TurnDone \/ Converge \/ Maintain \/ Interrupt
  PROVE  DeliveryInv'
  <1>1. UNCHANGED <<log, inbox, activation, accepted, raced, claimed>>
    BY DEF TurnDone, Converge, Maintain, Interrupt, driverFrame, sessionVars
  <1>2. driver' = driver \/ (driver # "preStep" /\ driver' # "preStep")
    BY DEF TurnDone, Converge, Maintain, Interrupt
  <1> QED BY <1>1, <1>2, QuietKeeps

LEMMA TurnFailsStep ==
  ASSUME DeliveryInv, TurnFails  PROVE DeliveryInv'
  <1>1. UNCHANGED <<log, inbox, activation, accepted, raced>> /\ claimed' = Nothing /\ driver' = "leaving"
    BY DEF TurnFails, driverFrame
  <1>2. HandOn(log', raced', inbox', claimed')
    BY <1>1, EmptyHand
  <1> QED BY <1>1, <1>2 DEF DeliveryInv, Holding

\* An Activation is closed, with the turn in preparation or without it.
LEMMA CloseKeeps ==
  ASSUME MailboxInv, Close(log, Replay(log)), raced' = raced,
         claimed' = claimed \/ claimed' = Nothing, Holding(claimed', driver')
  PROVE  DeliveryInv'
  <1>1. LogGood(log, raced) /\ HandOn(log, raced, inbox, claimed)
    BY InvParts
  <1>2. log' = Clear(log, Replay(log)) /\ inbox' = <<>> /\ activation' = "closing"
    BY DEF Close
  <1>3. LogGood(log', raced') /\ Replay(log') = <<>> /\ HandOn(log', raced', inbox', claimed)
    BY <1>1, <1>2, ListCleared
  <1>4. HandOn(log', raced', inbox', claimed')
    BY <1>3, EmptyHand
  <1> QED BY <1>2, <1>3, <1>4 DEF DeliveryInv

LEMMA ClosingSteps ==
  ASSUME MailboxInv, NEW c, Settle \/ Drain \/ RollBack(c) \/ SubmitRefused(c) \/ FlushFails(c)
  PROVE  DeliveryInv'
  <1>1. DeliveryInv /\ Holding(claimed, driver) /\ (activation # "none" => inbox = Replay(log))
    BY InvParts DEF MailboxInv
  <1>2. CASE Settle \/ Drain \/ SubmitRefused(c) \/ FlushFails(c)
    <2>1. /\ UNCHANGED <<driver, claimed, raced>>
          /\ \/ Close(log, inbox) /\ activation = "resident"
             \/ UNCHANGED <<activation, log, inbox, accepted>>
      BY <1>2 DEF Settle, Drain, SubmitRefused, FlushFails, GiveUp
    <2>2. CASE Close(log, inbox) /\ activation = "resident"
      <3>1. Close(log, Replay(log))
        BY <1>1, <2>2
      <3> QED BY <1>1, <2>1, <3>1, CloseKeeps
    <2>3. CASE UNCHANGED <<activation, log, inbox, accepted>>
      BY <1>1, <2>1, <2>3, QuietKeeps
    <2> QED BY <2>1, <2>2, <2>3
  <1>3. CASE RollBack(c)
    <2>1. Close(log, Replay(log)) /\ driver' = "idle" /\ claimed' = Nothing /\ raced' = raced
      BY <1>3 DEF RollBack
    <2>2. Holding(claimed', driver')
      BY <2>1 DEF Holding
    <2> QED BY <2>1, <2>2, CloseKeeps
  <1> QED BY <1>2, <1>3

\* A crash, or a disposal whose flush fails, leaves a beginning of the log.
LEMMA CutSteps ==
  ASSUME MailboxInv, Gone \/ Crash  PROVE DeliveryInv'
  <1>1. LogGood(log, raced) /\ Holding(claimed, driver) /\ Sequence(log)
    BY InvParts
  <1>2. stored \in Nat /\ Len(log) \in Nat
    BY <1>1 DEF MailboxInv, ReceiptInv, LogStands, Sequence
  <1>3. activation' = "none" /\ driver' = "none" /\ raced' = raced /\ claimed' = Nothing
    <2>1. driver = "idle" => claimed = Nothing
      BY <1>1 DEF Holding
    <2> QED BY <2>1 DEF Gone, Crash
  <1>4. log' = log \/ \E k \in stored..Len(log) : log' = SubSeq(log, 1, k)
    BY DEF Gone, Crash
  <1>5. LogGood(log', raced')
    <2>1. CASE log' = log
      BY <1>1, <1>3, <2>1
    <2>2. ASSUME NEW k \in stored..Len(log), log' = SubSeq(log, 1, k)  PROVE LogGood(log', raced')
      <3>1. k \in Nat /\ k <= Len(log)
        BY <1>2
      <3> QED BY <1>1, <1>3, <2>2, <3>1, GoodCut
    <2> QED BY <1>4, <2>1, <2>2
  <1>6. HandOn(log', raced', inbox', claimed') /\ Holding(claimed', driver')
    BY <1>3, EmptyHand DEF Holding
  <1> QED BY <1>3, <1>5, <1>6 DEF DeliveryInv

LEMMA HeadAndTail ==
  ASSUME NEW q, q \in Seq(Messages), q # <<>>, \A j, k \in 1..Len(q) : q[j] = q[k] => j = k
  PROVE  /\ Head(q) \in Messages /\ Head(q) \notin ToSet(Tail(q))
         /\ \A x : x \in ToSet(q) <=> x = Head(q) \/ x \in ToSet(Tail(q))
  <1> DEFINE t == Tail(q)
             h == Head(q)
  <1>1. /\ t \in Seq(Messages) /\ Len(q) = Len(t) + 1 /\ Len(t) \in Nat
        /\ h = q[1] /\ 1 \in 1..Len(q)
        /\ \A k \in 1..Len(t) : t[k] = q[k + 1] /\ k + 1 \in 1..Len(q)
    BY TailOf
  <1>2. h \in Messages
    BY <1>1
  <1> HIDE DEF t, h
  <1>3. \A x : x \in ToSet(q) <=> \E i \in 1..Len(q) : q[i] = x
    BY ToSetIs
  <1>4. \A x : x \in ToSet(t) <=> \E i \in 1..Len(t) : t[i] = x
    BY <1>1, ToSetIs
  <1>5. h \notin ToSet(t)
    <2> SUFFICES ASSUME h \in ToSet(t)  PROVE FALSE
      OBVIOUS
    <2>1. PICK k \in 1..Len(t) : t[k] = h
      BY <1>4
    <2>2. q[k + 1] = q[1] /\ k + 1 \in 1..Len(q) /\ k + 1 # 1
      BY <1>1, <2>1
    <2> QED BY <1>1, <2>2
  <1>6. ASSUME NEW x, x \in ToSet(q)  PROVE x = h \/ x \in ToSet(t)
    <2>1. PICK i \in 1..Len(q) : q[i] = x
      BY <1>3, <1>6
    <2>2. CASE i = 1
      BY <1>1, <2>1, <2>2
    <2>3. CASE i # 1
      <3>1. i - 1 \in 1..Len(t) /\ (i - 1) + 1 = i
        BY <1>1, <2>3
      <3>2. t[i - 1] = x
        BY <1>1, <2>1, <3>1
      <3> QED BY <1>4, <3>1, <3>2
    <2> QED BY <2>2, <2>3
  <1>7. ASSUME NEW x, x = h \/ x \in ToSet(t)  PROVE x \in ToSet(q)
    BY <1>1, <1>3, <1>4, <1>7
  <1> QED BY <1>2, <1>5, <1>6, <1>7 DEF t, h

\* The first message of the inbox is taken in hand.
LEMMA TakenInHand ==
  ASSUME NEW l, NEW R, LogGood(l, R), NEW q, q = Replay(l), q # <<>>, NEW h, h = Head(q), NEW A
  PROVE  /\ LogGood(Append(l, <<"removed", h>>), R) /\ Replay(Append(l, <<"removed", h>>)) = Tail(q)
         /\ HandOn(Append(l, <<"removed", h>>), R, Tail(q), h) /\ h \in Messages
         /\ Complete(l, q, A) => Complete(Append(l, <<"removed", h>>), Tail(q), A \ {h})
  <1> DEFINE r == Append(l, <<"removed", h>>)
             t == Tail(q)
             kind == "removed"
  <1>1. l \in Seq(Deliveries) /\ Sequence(l) /\ EventsStand(l, R) /\ ListStands(l, R)
    BY GoodNow
  <1>2. /\ q \in Seq(Messages)
        /\ \A k \in 1..Len(q) : Has(l, "inserted", q[k])
        /\ \A j, k \in 1..Len(q) : q[j] = q[k] => j = k
        /\ \A k \in 1..Len(q) : Has(l, "entered", q[k]) => q[k] \in R
        /\ \A k \in 1..Len(q) : Awaits(l, k)
    BY <1>1 DEF ListStands
  <1>3. h = q[1] /\ 1 \in 1..Len(q)
    BY <1>2, TailOf
  <1>4. /\ h \in Messages /\ h \notin ToSet(t)
        /\ \A x : x \in ToSet(q) <=> x = h \/ x \in ToSet(t)
    BY <1>2, HeadAndTail
  <1>5. Has(l, "inserted", h) /\ (Has(l, "entered", h) => h \in R)
    BY <1>2, <1>3
  <1>6. Has(l, "entered", h) \/ \A x : x # h /\ Before(l, x, h) => Has(l, "removed", x)
    <2>1. Awaits(l, 1)
      BY <1>2, <1>3
    <2>2. 1..(1 - 1) = {}
      OBVIOUS
    <2> QED BY <1>3, <2>1, <2>2 DEF Awaits
  <1>7. ListStands(r, R) /\ Replay(r) = t
    BY <1>1, ListRemoved
  <1>8. LogGood(r, R)
    <2>1. Fits(l, kind, h, R)
      BY <1>5 DEF Fits
    <2>2. <<kind, h>> \in Deliveries
      BY <1>4 DEF Deliveries, Kinds
    <2>3. ListStands(Append(l, <<kind, h>>), R)
      BY <1>7
    <2> HIDE DEF kind
    <2>4. EventsStand(Append(l, <<kind, h>>), R)
      BY <1>1, <2>1, EventFits
    <2>5. LogGood(Append(l, <<kind, h>>), R)
      BY <2>2, <2>3, <2>4, GoodAppend
    <2> QED BY <2>5 DEF kind
  <1>9. Has(r, "removed", h) /\ \A x : Has(r, "removed", x) <=> Has(l, "removed", x) \/ x = h
    BY <1>1, HasAppend
  <1>10. \A x : (Has(r, "entered", x) <=> Has(l, "entered", x)) /\ (Has(r, "inserted", x) <=> Has(l, "inserted", x))
                /\ (Has(r, "accepted", x) <=> Has(l, "accepted", x)) /\ (Has(r, "claimed", x) <=> Has(l, "claimed", x))
    BY <1>1, HasAppend
  <1>11. \A x, y : Before(r, x, y) => Before(l, x, y)
    BY <1>1, BeforeAppend
  <1>12. Sequence(r)
    BY <1>8, GoodNow
  <1> HIDE DEF r, t
  <1>13. HandOn(r, R, t, h)
    BY <1>4, <1>5, <1>6, <1>9, <1>10, <1>11 DEF HandOn
  <1>14. \A x : Owed(r, x) => Owed(l, x)
    BY <1>1, <1>10, <1>12, OwedIs
  <1>15. Complete(l, q, A) => Complete(r, t, A \ {h})
    BY <1>4, <1>9, <1>10, <1>14 DEF Complete
  <1> QED BY <1>4, <1>7, <1>8, <1>13, <1>15 DEF r, t

LEMMA ClaimStep ==
  ASSUME MailboxInv, Claim  PROVE DeliveryInv'
  <1>1. /\ LogGood(log, raced) /\ Replay(log) \in Seq(Messages)
        /\ inbox = Replay(log)
        /\ activation = "resident" => Complete(log, inbox, accepted)
        /\ activation # "none"
    <2>1. driver = "boundary"
      BY DEF Claim
    <2> QED BY <2>1, InvParts
  <1>2. CASE inbox = <<>>
    <2>1. UNCHANGED <<log, inbox, activation, accepted, raced, claimed>> /\ driver' # "preStep" /\ driver # "preStep"
      BY <1>2 DEF Claim, driverFrame
    <2> QED BY <2>1, QuietKeeps DEF MailboxInv
  <1>3. CASE inbox # <<>>
    <2>1. /\ log' = Append(log, <<"removed", Head(inbox)>>) /\ inbox' = Tail(inbox) /\ claimed' = Head(inbox)
          /\ accepted' = accepted \ {Head(inbox)} /\ driver' = "preStep" /\ UNCHANGED <<activation, raced>>
      BY <1>3 DEF Claim, driverFrame
    <2> DEFINE h == Head(inbox)
    <2>2. /\ LogGood(Append(log, <<"removed", h>>), raced) /\ Replay(Append(log, <<"removed", h>>)) = Tail(inbox)
          /\ HandOn(Append(log, <<"removed", h>>), raced, Tail(inbox), h) /\ h \in Messages
          /\ Complete(log, inbox, accepted)
               => Complete(Append(log, <<"removed", h>>), Tail(inbox), accepted \ {h})
      BY <1>1, <1>3, TakenInHand
    <2>3. Holding(claimed', driver')
      BY <2>1, <2>2, MailboxAssumption DEF Holding
    <2> QED BY <1>1, <2>1, <2>2, <2>3 DEF DeliveryInv
  <1> QED BY <1>2, <1>3

\* An event that leaves the list alone.
LEMMA SilentKeeps ==
  ASSUME NEW l, NEW R, LogGood(l, R), NEW kind, NEW m, m \in Messages, kind \in Kinds,
         Fits(l, kind, m, R), Silent(l, kind, m, R), NEW A
  PROVE  /\ LogGood(Append(l, <<kind, m>>), R) /\ Replay(Append(l, <<kind, m>>)) = Replay(l)
         /\ Complete(l, Replay(l), A) => Complete(Append(l, <<kind, m>>), Replay(l), A)
  <1> DEFINE r == Append(l, <<kind, m>>)
             q == Replay(l)
  <1>1. l \in Seq(Deliveries) /\ Sequence(l) /\ EventsStand(l, R) /\ ListStands(l, R)
    BY GoodNow
  <1>2. ListStands(r, R) /\ Replay(r) = q
    BY <1>1, ListSilent
  <1>3. EventsStand(r, R)
    BY <1>1, EventFits
  <1>4. <<kind, m>> \in Deliveries
    BY DEF Deliveries
  <1>5. LogGood(r, R)
    BY <1>2, <1>3, <1>4, GoodAppend
  <1>6. Sequence(r)
    BY <1>5, GoodNow
  <1>7. \A x : (Has(r, "removed", x) <=> Has(l, "removed", x)) /\ (Has(r, "inserted", x) <=> Has(l, "inserted", x))
    <2>1. kind # "removed" /\ kind # "inserted"
      BY DEF Silent
    <2> QED BY <1>1, <2>1, HasAppend
  <1>8. \A x : Has(r, "accepted", x) <=> Has(l, "accepted", x) \/ (kind = "accepted" /\ m = x)
    BY <1>1, HasAppend
  <1>9. \A x : (Has(l, "entered", x) => Has(r, "entered", x)) /\ (Has(l, "claimed", x) => Has(r, "claimed", x))
    BY <1>1, HasAppend
  <1>10. \A x : Owed(r, x) <=> Has(r, "accepted", x) /\ ~Has(r, "claimed", x) /\ ~Has(r, "entered", x)
    BY <1>6, OwedIs
  <1>11. \A x : Owed(l, x) <=> Has(l, "accepted", x) /\ ~Has(l, "claimed", x) /\ ~Has(l, "entered", x)
    BY <1>1, OwedIs
  <1>12. \A x : x \in ToSet(q) => Has(l, "accepted", x)
    <2>1. q \in Seq(Messages) /\ \A k \in 1..Len(q) : Has(l, "inserted", q[k])
      BY <1>1 DEF ListStands
    <2>2. \A x : x \in ToSet(q) <=> \E i \in 1..Len(q) : q[i] = x
      BY <2>1, ToSetIs
    <2>3. \A x : Has(l, "inserted", x) => Has(l, "accepted", x)
      BY <1>1, Logged4
    <2> HIDE DEF q
    <2> QED BY <2>1, <2>2, <2>3
  <1> HIDE DEF r, q
  <1>13. \A x : x \in ToSet(q) /\ Owed(r, x) => Owed(l, x)
    BY <1>8, <1>9, <1>10, <1>11, <1>12
  <1>14. Complete(l, q, A) => Complete(r, q, A)
    BY <1>7, <1>13 DEF Complete
  <1> QED BY <1>2, <1>5, <1>14 DEF r, q

LEMMA EnterStep ==
  ASSUME MailboxInv, Enter  PROVE DeliveryInv'
  <1> DEFINE kind == "entered"
             c == claimed
             r == Append(log, <<kind, c>>)
  <1>1. /\ driver = "preStep" /\ log' = r /\ claimed' = Nothing /\ driver' = "turn"
        /\ UNCHANGED <<activation, raced, inbox, accepted>>
    BY DEF Enter, driverFrame
  <1>2. /\ LogGood(log, raced) /\ HandOn(log, raced, inbox, c) /\ c # Nothing
        /\ inbox = Replay(log)
        /\ activation = "resident" => Complete(log, inbox, accepted)
    BY <1>1, InvParts DEF Holding
  <1>3. /\ c \in Messages
        /\ Has(log, "removed", c)
        /\ c \in raced \/ (~Has(log, "entered", c) /\ c \notin ToSet(inbox))
        /\ Has(log, "entered", c) \/ \A x : x # c /\ Before(log, x, c) => Has(log, "removed", x)
    BY <1>2 DEF HandOn
  <1>4. Fits(log, kind, c, raced) /\ Silent(log, kind, c, raced) /\ kind \in Kinds
    BY <1>2, <1>3 DEF Fits, Silent, Kinds
  <1> HIDE DEF kind, c
  <1>5. /\ LogGood(r, raced) /\ Replay(r) = Replay(log)
        /\ Complete(log, Replay(log), accepted) => Complete(r, Replay(log), accepted)
    BY <1>2, <1>3, <1>4, SilentKeeps
  <1> HIDE DEF r
  <1>6. HandOn(log', raced', inbox', claimed') /\ Holding(claimed', driver')
    BY <1>1, EmptyHand DEF Holding
  <1> QED BY <1>1, <1>2, <1>5, <1>6 DEF DeliveryInv

\* An event that leaves the list and the hand alone.
LEMMA SilentStep ==
  ASSUME MailboxInv, NEW kind, NEW m, m \in Messages, kind \in Kinds, kind # "entered",
         Fits(log, kind, m, raced), Silent(log, kind, m, raced), log' = Append(log, <<kind, m>>),
         UNCHANGED <<inbox, activation, accepted, raced, claimed, driver>>
  PROVE  DeliveryInv'
  <1> DEFINE r == Append(log, <<kind, m>>)
  <1>1. /\ LogGood(log, raced) /\ Sequence(log) /\ EventsStand(log, raced) /\ HandOn(log, raced, inbox, claimed)
        /\ Holding(claimed, driver)
        /\ activation # "none" => inbox = Replay(log)
        /\ activation = "resident" => Complete(log, inbox, accepted)
    BY InvParts
  <1>2. /\ LogGood(r, raced) /\ Replay(r) = Replay(log)
        /\ Complete(log, Replay(log), accepted) => Complete(r, Replay(log), accepted)
    BY <1>1, SilentKeeps
  <1>3. HandOn(r, raced, inbox, claimed)
    <2>1. kind = "accepted" => ~Has(log, "accepted", m)
      BY DEF Fits
    <2>2. claimed \in raced \/ (claimed \in ToSet(inbox) => claimed \in ToSet(inbox))
      OBVIOUS
    <2> QED BY <1>1, <2>1, <2>2, HandKept
  <1>4. log' = r
    OBVIOUS
  <1> HIDE DEF r
  <1> QED BY <1>1, <1>2, <1>3, <1>4 DEF DeliveryInv

LEMMA AcknowledgeStep ==
  ASSUME MailboxInv, NEW m \in Messages, Acknowledge(m)  PROVE DeliveryInv'
  <1>1. m \in acks /\ UNCHANGED <<inbox, activation, accepted, raced, claimed, driver>>
    BY DEF Acknowledge, driverFrame, driverVars
  <1>2. CASE log' = log
    BY <1>1, <1>2, QuietKeeps DEF MailboxInv
  <1>3. CASE log' = Append(log, <<"claimed", m>>)
    <2> DEFINE kind == "claimed"
    <2>1. Fits(log, kind, m, raced) /\ Silent(log, kind, m, raced) /\ kind \in Kinds /\ kind # "entered"
      BY <1>1, InvParts DEF Fits, Silent, Kinds
    <2>2. log' = Append(log, <<kind, m>>)
      BY <1>3
    <2> HIDE DEF kind
    <2> QED BY <1>1, <2>1, <2>2, SilentStep
  <1> QED BY <1>2, <1>3 DEF Acknowledge

LEMMA AcceptKeeps ==
  ASSUME MailboxInv, NEW c \in Callers, Accept(c)  PROVE DeliveryInv'
  <1>1. UNCHANGED <<inbox, activation, accepted, raced, claimed, driver>>
    BY DEF Accept, residencyVars, driverVars
  <1>2. CASE Logged(log, "accepted", Key(c))
    <2>1. log' = log
      BY <1>2 DEF Accept
    <2> QED BY <1>1, <2>1, QuietKeeps DEF MailboxInv
  <1>3. CASE ~Logged(log, "accepted", Key(c))
    <2> DEFINE kind == "accepted"
               m == Key(c)
    <2>1. ~Has(log, "accepted", m) /\ m \in Messages
      BY <1>3, InvParts, LoggedIs, MailboxAssumption
    <2>2. Fits(log, kind, m, raced) /\ Silent(log, kind, m, raced) /\ kind \in Kinds /\ kind # "entered"
      BY <2>1 DEF Fits, Silent, Kinds
    <2>3. log' = Append(log, <<kind, m>>)
      BY <1>3 DEF Accept
    <2> HIDE DEF kind, m
    <2> QED BY <1>1, <2>1, <2>2, <2>3, SilentStep
  <1> QED BY <1>2, <1>3

\* A message that is owed joins the inbox of a resident child.
LEMMA Joined ==
  ASSUME NEW l, NEW R, LogGood(l, R), NEW q, q = Replay(l), NEW A, Complete(l, q, A),
         NEW m, m \in Messages, Owed(l, m), m \notin ToSet(q), NEW c, HandOn(l, R, q, c),
         NEW Q, R \subseteq Q, c = m => m \in Q
  PROVE  /\ LogGood(Append(l, <<"inserted", m>>), Q) /\ Replay(Append(l, <<"inserted", m>>)) = Append(q, m)
         /\ HandOn(Append(l, <<"inserted", m>>), Q, Append(q, m), c)
         /\ Complete(Append(l, <<"inserted", m>>), Append(q, m), A \cup {m})
  <1> DEFINE kind == "inserted"
             r == Append(l, <<kind, m>>)
             p == Append(q, m)
  <1>1. Sequence(l) /\ EventsStand(l, R) /\ q \in Seq(Messages)
    BY GoodNow
  <1>2. LogGood(l, Q)
    BY GoodMore
  <1>3. EventsStand(l, Q) /\ ListStands(l, Q)
    BY <1>2, GoodNow
  <1>4. Has(l, "accepted", m) /\ ~Has(l, "entered", m)
    BY <1>1, OwedIs
  <1>5. \A x : x # m /\ Before(l, x, m) /\ ~Has(l, "removed", x) => x \in ToSet(q)
    <2>1. \A x, y : Before(l, x, y) => Has(l, "inserted", x)
      BY BeforeHas
    <2> QED BY <2>1 DEF Complete
  <1>6. ListStands(r, Q) /\ Replay(r) = p
    BY <1>1, <1>3, <1>4, <1>5, ListInserted
  <1>7. Fits(l, kind, m, Q) /\ <<kind, m>> \in Deliveries
    BY <1>4 DEF Fits, Deliveries, Kinds
  <1>8. \A x : x \in ToSet(p) <=> x \in ToSet(q) \/ x = m
    <2>1. /\ p \in Seq(Messages) /\ Len(p) = Len(q) + 1 /\ Len(q) \in Nat
          /\ \A i \in 1..Len(q) : p[i] = q[i]
          /\ p[Len(q) + 1] = m
      BY <1>1
    <2>2. \A x : x \in ToSet(q) <=> \E i \in 1..Len(q) : q[i] = x
      BY <1>1, ToSetIs
    <2> HIDE DEF p
    <2>3. \A x : x \in ToSet(p) <=> \E i \in 1..Len(p) : p[i] = x
      BY <2>1, ToSetIs
    <2>4. \A i : i \in 1..Len(p) <=> i \in 1..Len(q) \/ i = Len(q) + 1
      BY <2>1
    <2> QED BY <2>1, <2>2, <2>3, <2>4
  <1>9. c \in Q \/ (c \in ToSet(p) => c \in ToSet(q))
    BY <1>8
  <1>10. kind # "entered" /\ (kind = "accepted" => ~Has(l, "accepted", m))
    OBVIOUS
  <1> HIDE DEF kind, p
  <1>11. EventsStand(r, Q)
    BY <1>1, <1>3, <1>7, EventFits
  <1>12. LogGood(r, Q)
    BY <1>2, <1>6, <1>7, <1>11, GoodAppend
  <1>13. HandOn(r, Q, p, c)
    BY <1>1, <1>9, <1>10, HandKept
  <1>14. /\ \A x : (Has(r, "removed", x) <=> Has(l, "removed", x)) /\ (Has(r, "inserted", x) <=> Has(l, "inserted", x) \/ x = m)
         /\ \A x : (Has(r, "accepted", x) <=> Has(l, "accepted", x)) /\ (Has(r, "claimed", x) <=> Has(l, "claimed", x))
                   /\ (Has(r, "entered", x) <=> Has(l, "entered", x))
    BY <1>1, HasAppend DEF kind
  <1>15. Sequence(r)
    BY <1>12, GoodNow
  <1>16. \A x : Owed(r, x) <=> Owed(l, x)
    <2>1. \A x : Owed(r, x) <=> Has(r, "accepted", x) /\ ~Has(r, "claimed", x) /\ ~Has(r, "entered", x)
      BY <1>15, OwedIs
    <2>2. \A x : Owed(l, x) <=> Has(l, "accepted", x) /\ ~Has(l, "claimed", x) /\ ~Has(l, "entered", x)
      BY <1>1, OwedIs
    <2> QED BY <1>14, <2>1, <2>2
  <1> HIDE DEF r
  <1>17. Complete(r, p, A \cup {m})
    BY <1>8, <1>14, <1>16 DEF Complete
  <1> QED BY <1>6, <1>12, <1>13, <1>17 DEF r, p, kind

LEMMA FlushedKeeps ==
  ASSUME MailboxInv, NEW c \in Callers, Flushed(c)  PROVE DeliveryInv'
  <1> DEFINE m == Key(c)
  <1>1. /\ LogGood(log, raced) /\ HandOn(log, raced, inbox, claimed) /\ Holding(claimed, driver)
        /\ activation = "resident" => inbox = Replay(log) /\ Complete(log, inbox, accepted)
    BY InvParts
  <1>2. CASE activation = "resident" /\ Owed(log, m) /\ m \notin ToSet(inbox)
    <2>1. Publish(m) /\ UNCHANGED <<activation, claimed>>
      BY <1>2 DEF Flushed
    <2>2. /\ log' = Append(log, <<"inserted", m>>) /\ inbox' = Append(inbox, m) /\ accepted' = accepted \cup {m}
          /\ raced \subseteq raced' /\ (claimed = m => m \in raced')
          /\ driver' = driver \/ (driver = "idle" /\ driver' = "boundary")
      BY <2>1 DEF Publish
    <2>3. m \in Messages
      BY MailboxAssumption
    <2> HIDE DEF m
    <2>4. /\ LogGood(Append(log, <<"inserted", m>>), raced') /\ Replay(Append(log, <<"inserted", m>>)) = Append(inbox, m)
          /\ HandOn(Append(log, <<"inserted", m>>), raced', Append(inbox, m), claimed)
          /\ Complete(Append(log, <<"inserted", m>>), Append(inbox, m), accepted \cup {m})
      BY <1>1, <1>2, <2>2, <2>3, Joined
    <2>5. Holding(claimed', driver')
      BY <1>1, <2>1, <2>2 DEF Holding
    <2> QED BY <2>1, <2>2, <2>4, <2>5 DEF DeliveryInv
  <1>3. CASE ~(activation = "resident" /\ Owed(log, m) /\ m \notin ToSet(inbox))
    <2>1. UNCHANGED <<log, inbox, activation, accepted, raced, claimed, driver>>
      BY <1>3 DEF Flushed, residencyVars, driverVars
    <2> QED BY <2>1, QuietKeeps DEF MailboxInv
  <1> QED BY <1>2, <1>3

\* The pending messages that are enqueued before one of them is refused.
Clean(p, q) == {i \in 1..Len(p) : \A j \in 1..i : p[j] \notin ToSet(q)}

LEMMA CleanIs ==
  ASSUME NEW p, p \in Seq(Messages), NEW q
  PROVE  /\ Cardinality(Clean(p, q)) \in Nat /\ Cardinality(Clean(p, q)) <= Len(p)
         /\ \A i \in 1..Cardinality(Clean(p, q)) : p[i] \notin ToSet(q)
         /\ (\A x \in ToSet(p) : x \notin ToSet(q)) => Cardinality(Clean(p, q)) = Len(p)
  <1> DEFINE T == Clean(p, q)
             n == Len(p)
             d == Cardinality(T)
  <1>1. n \in Nat
    OBVIOUS
  <1>2. T \in SUBSET (1..n)
    BY DEF Clean
  <1>3. \A i \in T : \A j \in 1..i : j \in T
    BY <1>1 DEF Clean
  <1>4. \A i \in T : p[i] \notin ToSet(q)
    BY DEF Clean
  <1>5. (\A x \in ToSet(p) : x \notin ToSet(q)) => T = 1..n
    <2>1. \A x : x \in ToSet(p) <=> \E i \in 1..n : p[i] = x
      BY ToSetIs
    <2> QED BY <1>1, <2>1 DEF Clean
  <1> HIDE DEF T, n
  <1>6. Cardinality(T) \in Nat /\ T = 1..Cardinality(T) /\ Cardinality(T) <= n
    BY <1>1, <1>2, <1>3, Interval
  <1>7. T = 1..n => d = n
    <2>1. Cardinality(1..n) = IF 1 > n THEN 0 ELSE n - 1 + 1
      BY <1>1, FS_Interval
    <2> QED BY <1>1, <2>1
  <1>8. \A i \in 1..d : p[i] \notin ToSet(q)
    BY <1>4, <1>6
  <1> QED BY <1>5, <1>6, <1>7, <1>8 DEF T, n

LEMMA AllJoined ==
  ASSUME NEW p, p \in Seq(Messages), NEW a, a \in Seq(Messages)
  PROVE  \A k \in 1..Len(p) : p[k] \in ToSet(p) /\ p[k] \in ToSet(a \o SubSeq(p, 1, Len(p)))
  <1>1. \A x : x \in ToSet(p) <=> \E i \in 1..Len(p) : p[i] = x
    BY ToSetIs
  <1>2. SubSeq(p, 1, Len(p)) = p
    BY SubSeqFull
  <1>3. \A x : x \in ToSet(a \o p) <=> x \in ToSet(a) \/ x \in ToSet(p)
    BY ToSetJoined
  <1> QED BY <1>1, <1>2, <1>3

\* What a replay leaves of a log in order; it is complete when nothing was refused.
Rebuilt(w, R, q, p, c) ==
  /\ LogGood(w, R) /\ Replay(w) = q
  /\ c = Len(p) => Complete(w, q, ToSet(p))

LEMMA Replayed ==
  ASSUME NEW l, NEW R, LogGood(l, R), NEW p, p = Pending(l), NEW c, c \in Nat, c <= Len(p),
         \A i \in 1..c : p[i] \notin ToSet(Replay(l)),
         NEW w, w = l \o Events("inserted", SubSeq(p, 1, c)), NEW q, q = Replay(l) \o SubSeq(p, 1, c)
  PROVE  Rebuilt(w, R, q, p, c)
  <1>1. Enqueued(l, R, p, c, w)
    BY EnqueueAll
  <1>2. /\ w \in Seq(Deliveries) /\ EventsStand(w, R) /\ AllStand(w, R)
        /\ Replay(w) = q
        /\ Same(l, w)
    BY <1>1 DEF Enqueued
  <1>3. LogGood(w, R)
    BY <1>2 DEF LogGood
  <1>4. l \in Seq(Deliveries) /\ Sequence(l) /\ Replay(l) \in Seq(Messages) /\ Sequence(w) /\ \A x : Once(l, "accepted", x)
    <2>1. l \in Seq(Deliveries) /\ Sequence(l) /\ Replay(l) \in Seq(Messages) /\ EventsStand(l, R)
      BY GoodNow
    <2>2. Sequence(w)
      BY <1>3, GoodNow
    <2> QED BY <2>1, <2>2 DEF EventsStand
  <1>5. p \in Seq(Messages) /\ \A x : Owed(l, x) => \E k \in 1..Len(p) : p[k] = x
    BY <1>4, PendingIs
  <1>6. \A x : Owed(w, x) <=> Owed(l, x)
    <2>1. \A x : Owed(w, x) <=> Has(w, "accepted", x) /\ ~Has(w, "claimed", x) /\ ~Has(w, "entered", x)
      BY <1>4, OwedIs
    <2>2. \A x : Owed(l, x) <=> Has(l, "accepted", x) /\ ~Has(l, "claimed", x) /\ ~Has(l, "entered", x)
      BY <1>4, OwedIs
    <2>3. \A x : (Has(w, "accepted", x) <=> Has(l, "accepted", x)) /\ (Has(w, "claimed", x) <=> Has(l, "claimed", x))
                 /\ (Has(w, "entered", x) <=> Has(l, "entered", x))
      BY <1>2 DEF Same
    <2> QED BY <2>1, <2>2, <2>3
  <1>7. \A k \in 1..Len(p) : p[k] \in ToSet(p) /\ p[k] \in ToSet(Replay(l) \o SubSeq(p, 1, Len(p)))
    BY <1>4, <1>5, AllJoined
  <1>8. ASSUME c = Len(p)  PROVE Complete(w, q, ToSet(p))
    <2>1. \A x : Owed(w, x) => x \in ToSet(p) /\ x \in ToSet(q)
      BY <1>5, <1>6, <1>7, <1>8
    <2>2. \A x : Has(w, "inserted", x) /\ ~Has(w, "removed", x) => Owed(w, x)
      BY <1>2, OwedBefore
    <2> QED BY <2>1, <2>2 DEF Complete
  <1> QED BY <1>2, <1>3, <1>8 DEF Rebuilt

LEMMA MaterializeStep ==
  ASSUME MailboxInv, NEW c \in Callers, Materialize(c)  PROVE DeliveryInv'
  <1> DEFINE rebuilt  == Replay(log)
             pending  == Pending(log)
             n        == Cardinality(Clean(pending, rebuilt))
             enqueued == SubSeq(pending, 1, n)
             all      == rebuilt \o enqueued
             written  == log \o Events("inserted", enqueued)
  <1>1. LogGood(log, raced) /\ log \in Seq(Deliveries) /\ \A x : Once(log, "accepted", x)
    BY InvParts DEF EventsStand
  <1>2. pending \in Seq(Messages)
    BY <1>1, PendingIs
  <1>3. /\ claimed' = Nothing /\ driver' # "preStep" /\ raced' = raced
        /\ \/ /\ \A x \in ToSet(pending) : x \notin ToSet(rebuilt)
              /\ activation' = "resident" /\ inbox' = all /\ log' = written
              /\ accepted' = ToSet(pending)
           \/ Close(written, all)
    BY DEF Materialize, Clean
  <1> HIDE DEF rebuilt, pending
  <1>4. /\ n \in Nat /\ n <= Len(pending) /\ \A i \in 1..n : pending[i] \notin ToSet(rebuilt)
        /\ (\A x \in ToSet(pending) : x \notin ToSet(rebuilt)) => n = Len(pending)
    BY <1>2, CleanIs
  <1> HIDE DEF n
  <1>5. /\ LogGood(written, raced) /\ Replay(written) = all
        /\ n = Len(pending) => Complete(written, all, ToSet(pending))
    <2>1. pending = Pending(log) /\ rebuilt = Replay(log)
      BY DEF pending, rebuilt
    <2>2. \A i \in 1..n : pending[i] \notin ToSet(Replay(log))
      BY <1>4, <2>1
    <2>3. all = Replay(log) \o SubSeq(pending, 1, n)
      BY <2>1
    <2>4. written = log \o Events("inserted", SubSeq(pending, 1, n))
      OBVIOUS
    <2>5. n \in Nat /\ n <= Len(pending)
      BY <1>4
    <2> HIDE DEF all, written, enqueued
    <2>6. LogGood(log, raced)
      BY <1>1
    <2>7. Rebuilt(written, raced, all, pending, n)
      BY <2>1, <2>2, <2>3, <2>4, <2>5, <2>6, Replayed
    <2> QED BY <2>7 DEF Rebuilt
  <1> HIDE DEF enqueued, all, written
  <1>6. Holding(claimed', driver')
    BY <1>3 DEF Holding
  <1>7. CASE /\ \A x \in ToSet(pending) : x \notin ToSet(rebuilt)
             /\ activation' = "resident" /\ inbox' = all /\ log' = written
             /\ accepted' = ToSet(pending)
    <2>1. HandOn(log', raced', inbox', claimed')
      BY <1>3, EmptyHand
    <2>2. Complete(log', inbox', accepted')
      BY <1>4, <1>5, <1>7
    <2> QED BY <1>3, <1>5, <1>6, <1>7, <2>1, <2>2 DEF DeliveryInv
  <1>8. CASE Close(written, all)
    <2>1. log' = Clear(written, Replay(written)) /\ inbox' = <<>> /\ activation' = "closing"
      BY <1>5, <1>8 DEF Close
    <2>2. HandOn(written, raced, all, Nothing)
      BY EmptyHand
    <2>3. LogGood(log', raced') /\ Replay(log') = <<>> /\ HandOn(log', raced', inbox', claimed')
      BY <1>3, <1>5, <2>1, <2>2, ListCleared
    <2> QED BY <1>6, <2>1, <2>3 DEF DeliveryInv
  <1> QED BY <1>3, <1>7, <1>8

LEMMA DeliveryStart ==
  ASSUME Init  PROVE DeliveryInv
  <1>1. log = <<>> /\ inbox = <<>> /\ claimed = Nothing /\ driver = "none" /\ activation = "none"
    BY DEF Init
  <1>2. log \in Seq(Deliveries) /\ Len(log) = 0
    BY <1>1
  <1>3. \A kind, m : At(log, kind, m) = {}
    BY <1>2 DEF At
  <1>4. EventsStand(log, raced)
    BY <1>3 DEF EventsStand, Once, Follows, Before
  <1>5. AllStand(log, raced)
    <2> SUFFICES ASSUME NEW k \in 0..Len(log)  PROVE ListStands(SubSeq(log, 1, k), raced)
      BY DEF AllStand
    <2>1. k = Len(log)
      BY <1>2
    <2>2. SubSeq(log, 1, k) = log
      BY <1>2, <2>1, TypedSequence, AllBeginning
    <2>3. Replay(log) = <<>>
      BY <1>1, ReplayEmpty
    <2> QED BY <2>2, <2>3, ListEmpty
  <1>6. LogGood(log, raced)
    BY <1>2, <1>4, <1>5 DEF LogGood
  <1> QED BY <1>1, <1>6, EmptyHand DEF DeliveryInv, Holding

-----------------------------------------------------------------------------
(* The theorems about deliveries. *)

\* The order of deliveries holds at the start and no step breaks it.
THEOREM DeliveriesStand == Spec => []MailboxInv
<1>1. Init => DeliveryInv
  BY DeliveryStart
<1>2. ReceiptInv /\ DeliveryInv /\ [Next]_vars => DeliveryInv'
  <2> SUFFICES ASSUME MailboxInv, [Next]_vars  PROVE DeliveryInv'
    BY DEF MailboxInv
  <2>0. DeliveryInv
    BY DEF MailboxInv
  <2>1. ASSUME NEW c \in Callers, Call(c) \/ CallStep(c)  PROVE DeliveryInv'
    <3>1. CASE Call(c) \/ Refuse(c) \/ AwaitClosing(c) \/ Closed(c) \/ ColdResume(c) \/ ResumeFails(c) \/ Unwound(c)
      BY <2>0, <3>1, QuietCalls
    <3>2. CASE RollBack(c) \/ SubmitRefused(c) \/ FlushFails(c)
      BY <3>2, ClosingSteps
    <3>3. CASE Materialize(c) \/ Accept(c) \/ Flushed(c)
      BY <3>3, MaterializeStep, AcceptKeeps, FlushedKeeps
    <3> QED BY <2>1, <3>1, <3>2, <3>3 DEF CallStep
  <2>2. CASE DriverStep \/ Maintain \/ \E m \in Messages : Acknowledge(m)
    BY <2>0, <2>2, ClaimStep, EnterStep, TurnFailsStep, QuietChild, AcknowledgeStep DEF DriverStep
  <2>3. CASE Interrupt
    BY <2>0, <2>3, QuietChild
  <2>4. CASE Settle \/ Drain
    BY <2>4, ClosingSteps
  <2>5. CASE Gone \/ Crash
    BY <2>5, CutSteps
  <2>6. CASE UNCHANGED vars
    BY <2>0, <2>6, QuietKeeps DEF vars, sessionVars, residencyVars, driverVars
  <2> QED BY <2>1, <2>2, <2>3, <2>4, <2>5, <2>6 DEF Next
<1> QED BY <1>1, <1>2, MailboxInvariant, PTL DEF Spec, MailboxInv

\* Acceptance order is delivery order: what was enqueued when a message was accepted
\* has left the inbox for a turn before that message enters the transcript, across
\* disposals, crashes that cut the log and replays (followup, Inbox, coldResume).
THEOREM DeliveredInOrder == Spec => []InAcceptanceOrder
<1>1. MailboxInv => InAcceptanceOrder
  <2> SUFFICES ASSUME MailboxInv, NEW m1 \in Messages, NEW m2 \in Messages, m1 # m2,
                      Precedes("inserted", m1, "accepted", m2), Logged(log, "entered", m2)
               PROVE  \E i \in 1..Len(log) : /\ log[i] = <<"removed", m1>>
                                             /\ ~Logged(SubSeq(log, 1, i), "entered", m2)
    BY DEF InAcceptanceOrder
  <2>1. Sequence(log) /\ EventsStand(log, raced)
    BY InvParts
  <2>2. Len(log) \in Nat
    BY <2>1 DEF Sequence
  <2>3. ASSUME NEW k \in 1..Len(log), NEW kind, NEW m
        PROVE  Logged(SubSeq(log, 1, k), kind, m) <=> \E i \in At(log, kind, m) : i <= k
    <3>1. k \in Nat /\ k <= Len(log)
      BY <2>2
    <3>2. Sequence(SubSeq(log, 1, k))
      BY <2>1, <3>1, Cut
    <3>3. \A i : i \in At(SubSeq(log, 1, k), kind, m) <=> i \in At(log, kind, m) /\ i <= k
      BY <2>1, <3>1, AtCut
    <3>4. Logged(SubSeq(log, 1, k), kind, m) <=> Has(SubSeq(log, 1, k), kind, m)
      BY <3>2, LoggedIs
    <3> QED BY <3>3, <3>4 DEF Has
  <2>4. Before(log, m1, m2)
    <3>1. PICK j \in 1..Len(log) : log[j] = <<"accepted", m2>> /\ Logged(SubSeq(log, 1, j), "inserted", m1)
      BY DEF Precedes
    <3>2. PICK i \in At(log, "inserted", m1) : i <= j
      BY <2>3, <3>1
    <3>3. j \in At(log, "accepted", m2) /\ log[i] = <<"inserted", m1>> /\ i \in Nat
      BY <3>1 DEF At
    <3>4. i # j
      BY <3>1, <3>3
    <3>5. i < j
      BY <2>2, <3>2, <3>3, <3>4
    <3> QED BY <3>3, <3>5 DEF Before
  <2> DEFINE T == At(log, "entered", m2)
  <2>5. T # {} /\ T \in SUBSET Nat
    <3>1. Has(log, "entered", m2)
      BY <2>1, LoggedIs
    <3> QED BY <3>1 DEF Has, At
  <2>6. PICK e \in T : \A i \in T : e <= i
    BY <2>5, LeastNumber
  <2>7. PICK i \in At(log, "removed", m1) : i < e
    BY <2>1, <2>4 DEF EventsStand, Follows
  <2>8. i \in 1..Len(log) /\ log[i] = <<"removed", m1>>
    BY DEF At
  <2>9. ~Logged(SubSeq(log, 1, i), "entered", m2)
    <3> SUFFICES ASSUME NEW j \in At(log, "entered", m2), j <= i  PROVE FALSE
      BY <2>3, <2>8
    <3>1. e <= j /\ e \in Nat /\ j \in Nat /\ i \in Nat
      BY <2>5, <2>6, <2>8
    <3> QED BY <2>7, <3>1
  <2> QED BY <2>8, <2>9
<1> QED BY <1>1, DeliveriesStand, PTL

\* Only a retry published while the first copy sits between its claim and its
\* user/message is entered twice; no crash, replay or resumption repeats a message
\* (submit, pendingSubagentDeliveries).
THEOREM NothingRepeats == Spec => []CrashNeverRepeats
<1>1. MailboxInv => CrashNeverRepeats
  <2> SUFFICES ASSUME MailboxInv, NEW m \in Messages \ raced
               PROVE  Cardinality({i \in 1..Len(log) : log[i] = <<"entered", m>>}) <= 1
    BY DEF CrashNeverRepeats
  <2> DEFINE T == At(log, "entered", m)
  <2>1. \A i, j \in T : i = j
    BY InvParts DEF EventsStand, Once
  <2>0. T = {i \in 1..Len(log) : log[i] = <<"entered", m>>}
    BY DEF At
  <2> HIDE DEF T
  <2>2. CASE T = {}
    <3>1. Cardinality(T) = 0
      BY <2>2, FS_EmptySet
    <3> QED BY <2>0, <3>1
  <2>3. CASE T # {}
    <3>1. PICK i \in T : TRUE
      BY <2>3
    <3>2. T = {i}
      BY <2>1
    <3>3. Cardinality(T) = 1
      BY <3>2, FS_Singleton
    <3> QED BY <2>0, <3>3
  <2> QED BY <2>2, <2>3
<1> QED BY <1>1, DeliveriesStand, PTL

\* The settlement watcher disposes no child that owes a delivery: every other closing
\* is the drain's, or that of a caller inside its critical section (watchSettlement).
THEOREM SettlementIsQuiet == Spec => SettlesQuiet
<1> DEFINE Quiet == \A m \in ToSet(inbox) : ~Owed(log, m)
           Closes == /\ activation = "resident" /\ activation' = "closing"
                     /\ lock = Nobody /\ draining' = draining
<1>1. ReceiptInv /\ DeliveryInv /\ [Next]_vars => [Closes => Quiet]_vars
  <2> SUFFICES ASSUME MailboxInv, Next, Closes  PROVE Quiet
    BY DEF MailboxInv
  <2>1. Settle => Quiet
    <3> SUFFICES ASSUME Settle  PROVE Quiet
      OBVIOUS
    <3>1. accepted = {}
      BY DEF Settle, Settled
    <3>2. Complete(log, inbox, accepted)
      BY InvParts
    <3> QED BY <3>1, <3>2 DEF Complete
  <2>2. ~Drain
    BY DEF Drain
  <2>3. activation' = activation \/ activation' = "none" \/ (\E c \in Callers : CallStep(c)) \/ Settle \/ Drain
    <3>1. CASE DriverStep \/ Maintain \/ Interrupt \/ \E m \in Messages : Acknowledge(m)
      BY <3>1 DEF DriverStep, Claim, Enter, TurnFails, TurnDone, Converge, Maintain, Interrupt, Acknowledge, driverFrame
    <3>2. CASE \E c \in Callers : Call(c)
      BY <3>2 DEF Call, residencyVars
    <3>3. CASE Gone \/ Crash
      BY <3>3 DEF Gone, Crash
    <3> QED BY <3>1, <3>2, <3>3 DEF Next
  <2>4. ASSUME NEW c \in Callers, CallStep(c)  PROVE activation' = activation \/ activation' # "closing" \/ lock # Nobody
    <3>1. CASE Refuse(c) \/ AwaitClosing(c) \/ Closed(c) \/ ColdResume(c) \/ ResumeFails(c)
               \/ Accept(c) \/ Flushed(c) \/ Unwound(c)
      BY <3>1 DEF Refuse, AwaitClosing, Closed, ColdResume, ResumeFails, Accept, Flushed, Unwound, residencyVars
    <3>2. CASE Materialize(c) \/ RollBack(c) \/ SubmitRefused(c) \/ FlushFails(c)
      <4>1. caller[c] \in Inside
        BY <3>2 DEF Materialize, RollBack, SubmitRefused, FlushFails, Inside
      <4>2. lock = c
        BY <4>1 DEF MailboxInv, ReceiptInv, CallersStand
      <4> QED BY <4>2, MailboxAssumption
    <3> QED BY <2>4, <3>1, <3>2 DEF CallStep
  <2> QED BY <2>1, <2>2, <2>3, <2>4
<1> QED BY <1>1, DeliveriesStand, PTL DEF Spec, MailboxInv, SettlesQuiet

===============================================================================
