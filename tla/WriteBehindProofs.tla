-------------------------- MODULE WriteBehindProofs --------------------------
(***************************************************************************)
(* Proofs about WriteBehind, for every set of flushers and any number of    *)
(* events: nothing is lost, repeated or reordered, and the controller       *)
(* implements DurableLog.  Both rest on where a write may start: never      *)
(* while another one is in progress, and, for a barrier that settles well,  *)
(* never behind its back.                                                  *)
(***************************************************************************)
EXTENDS WriteBehind, SequenceTheorems, TLAPS

-----------------------------------------------------------------------------
(* The inductive invariant. *)

\* Whoever may start a write finds none in progress, the timer is armed only
\* over a queue, and barriers stand, and events are stored, after the
\* initialization only.
OneWrite ==
  /\ barrier \in {"overlapped", "resume", "reject"} => active = "none"
  /\ continuing /\ barrier = "none" => active = "none"
  /\ timer => pending # <<>>
  /\ barrier # "none" => init = "ready"
  /\ init # "ready" => stored = <<>>

\* A flush waits for what the log held.
TargetsPast == \A f \in Flushers : target[f] <= submitted

WriteBehindInv == TypeOK /\ NothingLost /\ OneWrite /\ TargetsPast

logVars == <<submitted, seed, init, stored>>

-----------------------------------------------------------------------------
(* What the steps do to the events. *)

\* A write may start: none is in progress and something is queued.
MayStart == active = "none" /\ pending # <<>>

LEMMA StartsOfMayStart ==
  ASSUME TypeOK, OneWrite
  PROVE  /\ OnDeadline /\ active = "none" => MayStart
         /\ ContinueAutomatic /\ barrier = "none" /\ pending # <<>> => MayStart
         /\ DrainResumes /\ pending # <<>> => MayStart
  BY DEF TypeOK, OneWrite, OnDeadline, ContinueAutomatic, DrainResumes, MayStart, MicrotaskDue

\* Starting a write moves the queue into the batch.
LEMMA StartMoves ==
  ASSUME TypeOK, MayStart, NEW automatic \in BOOLEAN, StartWrite(automatic)
  PROVE  /\ batch' = pending /\ pending' = <<>> /\ active' = "writing"
         /\ batch' \o pending' = batch \o pending
  <1>1. batch = <<>> /\ batch' = pending /\ pending' = <<>> /\ active' = "writing"
    BY DEF TypeOK, MayStart, StartWrite
  <1>2. pending \o <<>> = pending /\ <<>> \o pending = pending
    BY ConcatEmptySeq DEF TypeOK
  <1> QED BY <1>1, <1>2

\* Taking the same events elsewhere loses none.
LEMMA LossKept ==
  ASSUME NothingLost, UNCHANGED logVars, batch' \o pending' = batch \o pending
  PROVE  NothingLost'
  BY DEF NothingLost, logVars

\* Consecutive numbers that end at n, and the next one.
EndsAt(s, n) == \A i \in 1..Len(s) : s[i] = (n - Len(s)) + i

LEMMA NextNumber ==
  ASSUME NEW s \in Seq(Nat), NEW n \in Nat,
         EndsAt(s, n)
  PROVE  Len(Append(s, n + 1)) = Len(s) + 1 /\ EndsAt(Append(s, n + 1), n + 1)
  <1> DEFINE t == Append(s, n + 1)
  <1>1. t \in Seq(Nat) /\ Len(t) = Len(s) + 1 /\ Len(s) \in Nat /\ t[Len(s) + 1] = n + 1
        /\ \A i \in 1..Len(s) : t[i] = s[i]
    OBVIOUS
  <1> HIDE DEF t
  <1>2. ASSUME NEW i \in 1..Len(t)  PROVE t[i] = (n + 1 - Len(t)) + i
    <2>1. n + 1 - Len(t) = n - Len(s)
      BY <1>1
    <2>2. CASE i \in 1..Len(s)
      BY <1>1, <2>1, <2>2 DEF EndsAt
    <2>3. CASE i \notin 1..Len(s)
      <3>1. i = Len(s) + 1
        BY <1>1, <2>3
      <3>2. t[i] = n + 1
        BY <1>1, <3>1
      <3> QED BY <1>1, <2>1, <3>1, <3>2
    <2> QED BY <2>2, <2>3
  <1> QED BY <1>1, <1>2 DEF t, EndsAt

LEMMA EnqueueLoses ==
  ASSUME TypeOK, NothingLost, Enqueue
  PROVE  NothingLost'
  <1> DEFINE rest == batch \o pending
             next == Append(rest, submitted + 1)
             known == IF init = "ready" THEN Len(stored) ELSE seed
  <1>1. batch' = batch /\ pending' = Append(pending, submitted + 1) /\ submitted' = submitted + 1
        /\ stored' = stored /\ seed' = seed /\ init' = init
    BY DEF Enqueue
  <1>2. rest \in Seq(Nat) /\ submitted \in Nat /\ Len(rest) \in Nat /\ known \in Nat
        /\ batch' \o pending' = next
    <2>1. batch \in Seq(Nat) /\ pending \in Seq(Nat) /\ submitted \in Nat /\ known \in Nat
      BY DEF TypeOK
    <2>2. Append(batch \o pending, submitted + 1) = batch \o Append(pending, submitted + 1)
      <3> DEFINE e == submitted + 1
      <3>1. <<e>> \in Seq(Nat) /\ pending \in Seq(Nat) /\ batch \in Seq(Nat) /\ batch \o pending \in Seq(Nat)
        BY <2>1
      <3>2. Append(pending, e) = pending \o <<e>> /\ Append(batch \o pending, e) = (batch \o pending) \o <<e>>
        BY <3>1, <2>1, AppendIsConcat
      <3> HIDE DEF e
      <3>3. (batch \o pending) \o <<e>> = batch \o (pending \o <<e>>)
        BY <3>1, ConcatAssociative
      <3> QED BY <3>2, <3>3 DEF e
    <2> QED BY <1>1, <2>1, <2>2
  <1>3. /\ EndsAt(rest, submitted)
        /\ submitted - Len(rest) <= known /\ known <= submitted
        /\ \A i \in 1..Len(stored) : stored[i] = i
    BY DEF NothingLost, EndsAt
  <1> HIDE DEF rest, known
  <1>4. Len(next) = Len(rest) + 1 /\ EndsAt(next, submitted + 1)
    BY <1>2, <1>3, NextNumber
  <1> HIDE DEF next
  <1>5. submitted + 1 - Len(next) <= known /\ known <= submitted + 1
    BY <1>2, <1>3, <1>4
  <1>6. known = IF init' = "ready" THEN Len(stored') ELSE seed'
    BY <1>1 DEF known
  <1>7. EndsAt(batch' \o pending', submitted')
        /\ submitted' - Len(batch' \o pending') <= known /\ known <= submitted'
    <2>1. batch' \o pending' = next /\ submitted' = submitted + 1
      BY <1>1, <1>2
    <2>2. EndsAt(batch' \o pending', submitted')
      BY <1>4, <2>1, Zenon
    <2>3. submitted' - Len(batch' \o pending') <= known /\ known <= submitted'
      <3>1. Len(next) \in Nat /\ Len(batch' \o pending') = Len(next)
        BY <1>2, <1>4, <2>1
      <3> QED BY <1>2, <1>5, <2>1, <3>1
    <2> QED BY <2>2, <2>3
  <1>8. \A i \in 1..Len(stored') : stored'[i] = i
    BY <1>1, <1>3
  <1> QED BY <1>6, <1>7, <1>8, Zenon DEF NothingLost, EndsAt

LEMMA InitReadyLoses ==
  ASSUME TypeOK, NothingLost, InitReady
  PROVE  NothingLost' /\ stored' \in Seq(Nat) /\ Len(stored') = seed
  <1>1. stored' = [i \in 1..seed |-> i] /\ init' = "ready" /\ init = "pending"
        /\ submitted' = submitted /\ seed' = seed /\ batch' = batch /\ pending' = pending
    BY DEF InitReady, queueVars
  <1>2. seed \in Nat
    BY DEF TypeOK
  <1>3. [i \in 1..seed |-> i] \in Seq(Nat) /\ Len([i \in 1..seed |-> i]) = seed
        /\ \A i \in 1..seed : [j \in 1..seed |-> j][i] = i
    BY <1>2
  <1> QED BY <1>1, <1>3 DEF NothingLost

\* What the write that succeeds adds to the stored log, of a batch that is not
\* empty: all of it that is not stored yet.
LEMMA WriteLoses ==
  ASSUME TypeOK, NothingLost, WriteSucceeds
  PROVE  NothingLost' /\ stored' \in Seq(Nat) /\ Len(stored') \in Nat
         /\ Len(stored) <= Len(stored') /\ Len(stored') <= submitted
  <1>1. PICK n \in 0..Len(batch) :
          /\ \A i \in 1..Len(batch) : batch[i] <= Len(stored) <=> i <= n
          /\ \A i \in 1..Len(Fresh(n)) : Fresh(n)[i] = Len(stored) + i
          /\ stored' = stored \o Fresh(n)
    BY DEF WriteSucceeds
  <1>2. /\ active = "writing" /\ init = "ready" /\ init' = init /\ batch' = <<>>
        /\ pending' = pending /\ submitted' = submitted /\ seed' = seed
    BY DEF WriteSucceeds
  <1> DEFINE rest == batch \o pending
  <1>3. /\ batch \in Seq(Nat) /\ pending \in Seq(Nat) /\ stored \in Seq(Nat) /\ submitted \in Nat
        /\ Len(batch) \in Nat /\ Len(pending) \in Nat /\ Len(stored) \in Nat /\ Len(batch) > 0
    BY <1>2 DEF TypeOK
  <1>4. /\ Len(rest) = Len(batch) + Len(pending)
        /\ \A i \in 1..Len(batch) : rest[i] = batch[i]
        /\ \A i \in 1..Len(pending) : rest[Len(batch) + i] = pending[i]
    BY <1>3, ConcatProperties
  <1>5. /\ \A i \in 1..Len(rest) : rest[i] = (submitted - Len(rest)) + i
        /\ submitted - Len(rest) <= Len(stored) /\ Len(stored) <= submitted
        /\ \A i \in 1..Len(stored) : stored[i] = i
    BY <1>2 DEF NothingLost
  <1> HIDE DEF rest
  <1>6. /\ Fresh(n) \in Seq(Nat) /\ Len(Fresh(n)) = Len(batch) - n
        /\ \A i \in 1..Len(Fresh(n)) : Fresh(n)[i] = batch[n + i]
    <2>1. \A i \in n + 1..Len(batch) : batch[i] \in Nat
      BY <1>3
    <2>2. /\ SubSeq(batch, n + 1, Len(batch)) \in Seq(Nat)
          /\ Len(SubSeq(batch, n + 1, Len(batch))) = IF n + 1 <= Len(batch) THEN Len(batch) - (n + 1) + 1 ELSE 0
          /\ \A i \in 1..Len(batch) - (n + 1) + 1 :
               SubSeq(batch, n + 1, Len(batch))[i] = batch[n + 1 + i - 1]
      BY <1>3, <2>1, SubSeqProperties, n + 1 \in Int, Len(batch) \in Int
    <2> QED BY <1>3, <2>2 DEF Fresh
  <1>7. /\ stored' \in Seq(Nat) /\ Len(stored') = Len(stored) + (Len(batch) - n)
        /\ \A i \in 1..Len(stored) : stored'[i] = stored[i]
        /\ \A i \in 1..Len(batch) - n : stored'[Len(stored) + i] = Fresh(n)[i]
    <2> DEFINE add == Fresh(n)
    <2>1. add \in Seq(Nat) /\ Len(add) = Len(batch) - n /\ Len(add) \in Nat
      BY <1>3, <1>6
    <2>2. stored' = stored \o add
      BY <1>1
    <2> HIDE DEF add
    <2>3. /\ stored' \in Seq(Nat) /\ Len(stored') = Len(stored) + Len(add)
          /\ \A i \in 1..Len(stored) + Len(add) :
               stored'[i] = IF i <= Len(stored) THEN stored[i] ELSE add[i - Len(stored)]
      BY <1>3, <2>1, <2>2, ConcatProperties
    <2>4. ASSUME NEW i \in 1..Len(stored)  PROVE stored'[i] = stored[i]
      <3>1. i \in 1..Len(stored) + Len(add) /\ i <= Len(stored)
        BY <1>3, <2>1
      <3> QED BY <2>3, <3>1
    <2>5. ASSUME NEW i \in 1..Len(add)  PROVE stored'[Len(stored) + i] = add[i]
      <3>1. Len(stored) + i \in 1..Len(stored) + Len(add) /\ ~(Len(stored) + i <= Len(stored))
            /\ Len(stored) + i - Len(stored) = i
        BY <1>3, <2>1
      <3> QED BY <2>3, <3>1
    <2>6. \A i \in 1..Len(batch) - n : stored'[Len(stored) + i] = Fresh(n)[i]
      BY <2>1, <2>5 DEF add
    <2> QED BY <2>1, <2>3, <2>4, <2>6
  <1>8. \A i \in 1..Len(stored') : stored'[i] = i
    <2> SUFFICES ASSUME NEW i \in 1..Len(stored')  PROVE stored'[i] = i
      OBVIOUS
    <2>1. CASE i <= Len(stored)
      <3>1. i \in 1..Len(stored)
        BY <1>3, <1>7, <2>1
      <3> QED BY <1>5, <1>7, <3>1
    <2>2. CASE i > Len(stored)
      <3>1. i - Len(stored) \in 1..Len(batch) - n /\ i = Len(stored) + (i - Len(stored))
        BY <1>3, <1>7, <2>2
      <3>2. stored'[i] = Fresh(n)[i - Len(stored)]
        BY <1>7, <3>1
      <3>3. Fresh(n)[i - Len(stored)] = Len(stored) + (i - Len(stored))
        BY <1>1, <1>6, <3>1
      <3> QED BY <3>1, <3>2, <3>3
    <2> QED BY <1>3, <1>7, <2>1, <2>2
  <1>9. batch[Len(batch)] = submitted - Len(pending)
    <2>1. Len(rest) = Len(batch) + Len(pending) /\ Len(batch) \in 1..Len(rest)
          /\ Len(batch) \in 1..Len(batch)
      BY <1>3, <1>4
    <2>2. rest[Len(batch)] = batch[Len(batch)]
      BY <1>4, <2>1
    <2>3. rest[Len(batch)] = (submitted - Len(rest)) + Len(batch)
      BY <1>5, <2>1
    <2> QED BY <1>3, <2>1, <2>2, <2>3
  <1>10. submitted - Len(pending) <= Len(stored') /\ Len(stored') <= submitted
    <2>1. CASE n = Len(batch)
      BY <1>1, <1>3, <1>5, <1>7, <1>9, <2>1
    <2>2. CASE n < Len(batch)
      <3>1. Fresh(n)[Len(batch) - n] = batch[Len(batch)]
        BY <1>3, <1>6, <2>2
      <3>2. Fresh(n)[Len(batch) - n] = Len(stored) + (Len(batch) - n)
        BY <1>1, <1>3, <1>6, <2>2
      <3> QED BY <1>3, <1>7, <1>9, <3>1, <3>2
    <2> QED BY <1>3, <2>1, <2>2
  <1>11. \A i \in 1..Len(pending) : pending[i] = (submitted - Len(pending)) + i
    <2> SUFFICES ASSUME NEW i \in 1..Len(pending)
                 PROVE  pending[i] = (submitted - Len(pending)) + i
      OBVIOUS
    <2>1. rest[Len(batch) + i] = pending[i] /\ Len(batch) + i \in 1..Len(rest)
      BY <1>3, <1>4
    <2>2. rest[Len(batch) + i] = (submitted - Len(rest)) + (Len(batch) + i)
      BY <1>5, <2>1
    <2> QED BY <1>3, <1>4, <2>1, <2>2
  <1>12. batch' \o pending' = pending
    BY <1>2, <1>3, ConcatEmptySeq
  <1>13. NothingLost'
    BY <1>2, <1>8, <1>10, <1>11, <1>12 DEF NothingLost
  <1> QED BY <1>3, <1>7, <1>10, <1>13

-----------------------------------------------------------------------------
(* The inductive invariant holds. *)

LEMMA TypeStep ==
  ASSUME WriteBehindInv, Next
  PROVE  TypeOK'
  <1> USE DEF TypeOK
  <1> TypeOK /\ OneWrite
    BY DEF WriteBehindInv
  <1>1. CASE InitReady
    BY <1>1, InitReadyLoses DEF WriteBehindInv, InitReady, queueVars, flushVars
  <1>2. CASE InitFails
    BY <1>2 DEF InitFails, queueVars, flushVars
  <1>3. CASE Enqueue
    <2>1. pending' \in Seq(Nat) /\ submitted' \in Nat
      BY <1>3 DEF Enqueue
    <2> QED BY <1>3, <2>1 DEF Enqueue, flushVars
  <1>4. CASE WriteSucceeds
    <2>1. stored' \in Seq(Nat)
      BY <1>4, WriteLoses DEF WriteBehindInv
    <2> QED BY <1>4, <2>1 DEF WriteSucceeds, flushVars
  <1>5. CASE WriteFails
    <2>1. batch \o pending \in Seq(Nat)
      <3>1. batch \in Seq(Nat) /\ pending \in Seq(Nat)
        OBVIOUS
      <3> HIDE DEF TypeOK
      <3> QED BY <3>1
    <2>2. pending' \in Seq(Nat) /\ batch' = <<>> /\ <<>> \in Seq(Nat)
      BY <1>5, <2>1 DEF WriteFails
    <2>3. active' = "rejected" /\ ((batch' # <<>>) = (active' = "writing"))
      BY <1>5 DEF WriteFails
    <2>4. UNCHANGED <<submitted, seed, init, stored, background, continuing, barrier, flush, target>>
          /\ timer' = FALSE /\ expired' = FALSE /\ paused' = TRUE
      BY <1>5 DEF WriteFails, flushVars
    <2> QED BY <2>2, <2>3, <2>4
  <1>6. CASE WriteFinally
    BY <1>6 DEF WriteFinally, flushVars
  <1>7. CASE ContinueAutomatic
    <2>1. active = "none" \/ barrier # "none"
      BY <1>7 DEF ContinueAutomatic, OneWrite
    <2> QED BY <1>7, <2>1 DEF ContinueAutomatic, StartWrite, queueVars, flushVars
  <1>8. CASE DrainResumes
    BY <1>8 DEF DrainResumes, SettleBarrier, StartWrite, queueVars, flushVars, OneWrite
  <1>9. CASE DrainRejects
    BY <1>9 DEF DrainRejects, SettleBarrier, queueVars
  <1>10. CASE OnDeadline
    BY <1>10 DEF OnDeadline, StartWrite, flushVars, OneWrite
  <1>11. ASSUME NEW f \in Flushers, CallFlush(f)  PROVE TypeOK'
    BY <1>11 DEF CallFlush
  <1>12. ASSUME NEW f \in Flushers, FlushInitFailed(f)  PROVE TypeOK'
    BY <1>12 DEF FlushInitFailed
  <1>13. ASSUME NEW f \in Flushers, JoinBarrier(f)  PROVE TypeOK'
    BY <1>13 DEF JoinBarrier, queueVars
  <1>14. ASSUME NEW f \in Flushers, OpenBarrier(f)  PROVE TypeOK'
    BY <1>14 DEF OpenBarrier, StartWrite, Overlapping
  <1> QED BY <1>1, <1>2, <1>3, <1>4, <1>5, <1>6, <1>7, <1>8, <1>9, <1>10, <1>11, <1>12, <1>13, <1>14
          DEF Next, Settling, Microtask, EnterFlush

LEMMA OneWriteStep ==
  ASSUME WriteBehindInv, Next
  PROVE  OneWrite'
  <1> USE DEF OneWrite
  <1> TypeOK /\ OneWrite
    BY DEF WriteBehindInv
  <1>1. CASE InitReady
    BY <1>1 DEF InitReady, queueVars
  <1>2. CASE InitFails
    BY <1>2 DEF InitFails, queueVars
  <1>3. CASE Enqueue
    <2>1. Append(pending, submitted + 1) # <<>>
      <3>1. pending \in Seq(Nat) /\ submitted + 1 \in Nat
        BY DEF TypeOK
      <3> QED BY <3>1, AppendProperties
    <2> QED BY <1>3, <2>1 DEF Enqueue
  <1>4. CASE WriteSucceeds
    BY <1>4 DEF WriteSucceeds
  <1>5. CASE WriteFails
    BY <1>5 DEF WriteFails
  <1>6. CASE WriteFinally
    BY <1>6 DEF WriteFinally
  <1>7. CASE ContinueAutomatic
    BY <1>7 DEF ContinueAutomatic, StartWrite, queueVars
  <1>8. CASE DrainResumes
    BY <1>8 DEF DrainResumes, SettleBarrier, StartWrite, queueVars
  <1>9. CASE DrainRejects
    BY <1>9 DEF DrainRejects, SettleBarrier, queueVars
  <1>10. CASE OnDeadline
    BY <1>10 DEF OnDeadline, StartWrite, MicrotaskDue
  <1>11. ASSUME NEW f \in Flushers, CallFlush(f)  PROVE OneWrite'
    BY <1>11 DEF CallFlush
  <1>12. ASSUME NEW f \in Flushers, FlushInitFailed(f)  PROVE OneWrite'
    BY <1>12 DEF FlushInitFailed
  <1>13. ASSUME NEW f \in Flushers, JoinBarrier(f)  PROVE OneWrite'
    BY <1>13 DEF JoinBarrier, queueVars
  <1>14. ASSUME NEW f \in Flushers, OpenBarrier(f)  PROVE OneWrite'
    BY <1>14 DEF OpenBarrier, StartWrite, Overlapping
  <1> QED BY <1>1, <1>2, <1>3, <1>4, <1>5, <1>6, <1>7, <1>8, <1>9, <1>10, <1>11, <1>12, <1>13, <1>14
          DEF Next, Settling, Microtask, EnterFlush

\* The events in the log, stored, written or queued change hands only when one is
\* submitted, when the initialization or a write stores some, when a write fails
\* and when one starts.
LEMMA LossStep ==
  ASSUME WriteBehindInv, Next
  PROVE  NothingLost'
  <1> TypeOK /\ OneWrite /\ NothingLost
    BY DEF WriteBehindInv
  <1>1. CASE InitReady
    BY <1>1, InitReadyLoses
  <1>2. CASE Enqueue
    BY <1>2, EnqueueLoses
  <1>3. CASE WriteSucceeds
    BY <1>3, WriteLoses
  <1>4. CASE WriteFails
    <2>1. batch \o pending \in Seq(Nat)
      BY ConcatProperties DEF TypeOK
    <2>2. UNCHANGED logVars /\ batch' \o pending' = batch \o pending
      BY <1>4, <2>1, ConcatEmptySeq DEF WriteFails, logVars
    <2> QED BY <2>2, LossKept
  <1>5. CASE InitFails
    BY <1>5 DEF InitFails, queueVars, NothingLost
  <1>6. CASE UNCHANGED <<logVars, batch, pending>>
    BY <1>6, LossKept DEF logVars
  <1>7. ASSUME NEW automatic \in BOOLEAN, StartWrite(automatic), MayStart, UNCHANGED logVars
        PROVE  NothingLost'
    BY <1>7, StartMoves, LossKept
  <1>8. CASE ContinueAutomatic
    BY <1>6, <1>7, <1>8, StartsOfMayStart DEF ContinueAutomatic, queueVars, logVars
  <1>9. CASE DrainResumes
    BY <1>6, <1>7, <1>9, StartsOfMayStart DEF DrainResumes, SettleBarrier, queueVars, logVars
  <1>10. CASE OnDeadline
    BY <1>6, <1>7, <1>10, StartsOfMayStart DEF OnDeadline, logVars
  <1>11. ASSUME NEW f \in Flushers, OpenBarrier(f)  PROVE NothingLost'
    BY <1>6, <1>7, <1>11 DEF OpenBarrier, logVars, MayStart, Overlapping
  <1>12. ASSUME WriteFinally \/ DrainRejects \/ \E f \in Flushers : CallFlush(f) \/ FlushInitFailed(f) \/ JoinBarrier(f)
         PROVE  NothingLost'
    BY <1>6, <1>12 DEF WriteFinally, DrainRejects, CallFlush, FlushInitFailed, JoinBarrier, queueVars, logVars
  <1> QED BY <1>1, <1>2, <1>3, <1>4, <1>5, <1>8, <1>9, <1>10, <1>11, <1>12
          DEF Next, Settling, Microtask, EnterFlush

LEMMA TargetStep ==
  ASSUME WriteBehindInv, Next
  PROVE  TargetsPast'
  <1> TypeOK /\ TargetsPast
    BY DEF WriteBehindInv
  <1>1. CASE submitted' = submitted /\ target' = target
    BY <1>1 DEF TargetsPast
  <1>2. CASE Enqueue
    BY <1>2 DEF Enqueue, flushVars, TargetsPast, TypeOK
  <1>3. ASSUME NEW f \in Flushers, CallFlush(f)  PROVE TargetsPast'
    BY <1>3 DEF CallFlush, TargetsPast, TypeOK
  <1>4. ASSUME NEW f \in Flushers, EnterFlush(f)  PROVE submitted' = submitted /\ target' = target
    BY <1>4 DEF EnterFlush, FlushInitFailed, JoinBarrier, OpenBarrier
  <1>5. InitReady \/ InitFails \/ Settling \/ Microtask \/ OnDeadline => submitted' = submitted /\ target' = target
    BY DEF InitReady, InitFails, Settling, WriteSucceeds, WriteFails, Microtask, WriteFinally,
           ContinueAutomatic, DrainResumes, DrainRejects, OnDeadline, flushVars
  <1> QED BY <1>1, <1>2, <1>3, <1>4, <1>5 DEF Next

LEMMA Stutters ==
  ASSUME WriteBehindInv, UNCHANGED vars
  PROVE  WriteBehindInv'
  <1> TypeOK' /\ OneWrite' /\ NothingLost' /\ TargetsPast'
    BY DEF WriteBehindInv, TypeOK, OneWrite, NothingLost, TargetsPast, vars, queueVars, flushVars
  <1> QED BY DEF WriteBehindInv

LEMMA Starting == Init => WriteBehindInv
  <1> SUFFICES ASSUME Init  PROVE WriteBehindInv
    OBVIOUS
  <1>1. TypeOK /\ OneWrite /\ TargetsPast
    <2>1. <<>> \in Seq(Nat) /\ <<1>> \in Seq(Nat) /\ <<1>> # <<>>
      OBVIOUS
    <2>2. pending \in Seq(Nat) /\ (timer => pending # <<>>) /\ timer \in BOOLEAN
      BY <2>1 DEF Init
    <2>3. seed \in Nat /\ seed \in 0..1 /\ submitted = seed
      BY DEF Init
    <2>4. TypeOK
      BY <2>1, <2>2, <2>3 DEF Init, TypeOK
    <2>5. OneWrite
      BY <2>2 DEF Init, OneWrite
    <2>6. TargetsPast
      <3>1. \A f \in Flushers : target[f] = 0
        BY DEF Init
      <3>2. target \in [Flushers -> Nat] /\ submitted \in Nat
        BY <2>4 DEF TypeOK
      <3>3. 0 <= submitted
        BY <3>2
      <3> QED BY <3>1, <3>3, Zenon DEF TargetsPast
    <2> QED BY <2>4, <2>5, <2>6
  <1>2. stored = <<>> /\ submitted = seed /\ seed \in 0..1 /\ batch = <<>> /\ init # "ready"
        /\ (pending = <<>> \/ (seed = 1 /\ pending = <<1>>))
    BY DEF Init
  <1>3. CASE pending = <<>>
    <2>1. batch \o pending = <<>>
      BY <1>2, <1>3, ConcatEmptySeq
    <2> QED BY <1>1, <1>2, <2>1 DEF NothingLost, WriteBehindInv
  <1>4. CASE seed = 1 /\ pending = <<1>>
    <2>1. batch \o pending = <<1>>
      BY <1>2, <1>4, ConcatEmptySeq, <<1>> \in Seq(Nat)
    <2>2. Len(<<1>>) = 1 /\ <<1>>[1] = 1
      OBVIOUS
    <2> QED BY <1>1, <1>2, <1>4, <2>1, <2>2 DEF NothingLost, WriteBehindInv
  <1> QED BY <1>2, <1>3, <1>4

\* The inductive invariant: types, that nothing is lost, where a write may start,
\* and that flushes wait for what the log held (write-behind.ts).
THEOREM WriteBehindInvariant == Spec => []WriteBehindInv
  <1>1. WriteBehindInv /\ [Next]_vars => WriteBehindInv'
    BY TypeStep, OneWriteStep, LossStep, TargetStep, Stutters DEF WriteBehindInv
  <1> QED BY Starting, <1>1, PTL DEF Spec

\* The controller's fields keep their types, and a batch exists only while it is
\* written.
THEOREM ControllerTyped == Spec => []TypeOK
  <1> QED BY WriteBehindInvariant, PTL DEF WriteBehindInv

\* What is stored is a prefix of the log, and the write in progress with the queue
\* is the whole rest, whatever fails, overlaps or is filtered.
THEOREM LosesNothing == Spec => []NothingLost
  <1> QED BY WriteBehindInvariant, PTL DEF WriteBehindInv

-----------------------------------------------------------------------------
(* The controller implements DurableLog. *)

\* What a caller of flush sees of it.
Seen == [f \in Flushers |-> IF flush[f] \in {"init", "barrier"} THEN "waiting" ELSE flush[f]]

\* With nothing written and nothing queued the whole log is stored.
LEMMA AllStored ==
  ASSUME WriteBehindInv, batch = <<>>, pending = <<>>, init = "ready"
  PROVE  submitted <= Len(stored) /\ \A f \in Flushers : target[f] <= Len(stored)
  <1>1. batch \o pending = <<>> /\ Len(<<>>) = 0
    BY ConcatEmptySeq, <<>> \in Seq(Nat)
  <1>2. submitted - Len(batch \o pending) <= Len(stored)
    BY DEF WriteBehindInv, NothingLost
  <1>3. submitted \in Nat /\ Len(stored) \in Nat /\ target \in [Flushers -> Nat]
    BY DEF WriteBehindInv, TypeOK
  <1>4. submitted <= Len(stored)
    BY <1>1, <1>2, <1>3
  <1>5. \A f \in Flushers : target[f] <= submitted
    BY DEF WriteBehindInv, TargetsPast
  <1> QED BY <1>3, <1>4, <1>5

LEMMA AbstractInit == Init => Abstract!Init
  <1> SUFFICES ASSUME Init  PROVE Abstract!Init
    OBVIOUS
  <1>1. submitted \in Nat /\ Len(stored) = 0
    BY DEF Init
  <1>2. Seen = [f \in Flushers |-> "none"] /\ target = [f \in Flushers |-> 0]
    BY DEF Init, Seen
  <1> QED BY <1>1, <1>2 DEF Abstract!Init, Seen

\* A step after which the stored log is longer, and nothing else, makes events durable.
LEMMA Grows ==
  ASSUME UNCHANGED <<submitted, flush, target>>, Len(stored) \in Nat, Len(stored') \in Nat,
         Len(stored) <= Len(stored'), Len(stored') <= submitted
  PROVE  [Abstract!Next]_Abstract!vars
  <1>1. CASE Len(stored') = Len(stored)
    BY <1>1 DEF Abstract!vars
  <1>2. CASE Len(stored) < Len(stored')
    BY <1>2 DEF Abstract!Next, Abstract!Persist
  <1> QED BY <1>1, <1>2

\* A step that changes the flushes, with what it may do to one that waits.
LEMMA Settles ==
  ASSUME UNCHANGED <<submitted, stored, target>>, TypeOK, TypeOK',
         \A f \in Flushers : Seen'[f] # Seen[f] =>
           /\ Seen[f] = "waiting" /\ Seen'[f] \in {"done", "failed"}
           /\ Seen'[f] = "done" => target[f] <= Len(stored)
  PROVE  [Abstract!Next]_Abstract!vars
  <1>1. Seen' \in [Flushers -> {"none", "waiting", "done", "failed"}]
    BY DEF Seen, TypeOK
  <1>2. Abstract!FlushesSettle
    BY <1>1 DEF Abstract!FlushesSettle, Seen
  <1> QED BY <1>2 DEF Abstract!Next

LEMMA Refines ==
  ASSUME WriteBehindInv, [Next]_vars
  PROVE  [Abstract!Next]_Abstract!vars
  <1> TypeOK /\ OneWrite /\ NothingLost /\ TypeOK'
    BY TypeStep, Stutters DEF WriteBehindInv
  <1>1. ASSUME UNCHANGED <<submitted, stored, target>>, Seen' = Seen
        PROVE  [Abstract!Next]_Abstract!vars
    BY <1>1 DEF Abstract!vars, Seen
  <1>2. ASSUME UNCHANGED <<submitted, stored, flush, target>>
        PROVE  [Abstract!Next]_Abstract!vars
    BY <1>1, <1>2 DEF Seen
  <1>3. CASE InitReady
    <2>1. Len(stored) = 0 /\ Len(stored') = seed /\ seed \in Nat
      BY <1>3, InitReadyLoses DEF InitReady, OneWrite, TypeOK
    <2>2. NothingLost' /\ init' = "ready" /\ submitted' = submitted /\ flush' = flush /\ target' = target
      BY <1>3, InitReadyLoses DEF InitReady, flushVars
    <2>3. Len(stored') <= submitted
      BY <2>2 DEF NothingLost
    <2> QED BY <2>1, <2>2, <2>3, Grows
  <1>4. CASE Enqueue
    BY <1>4 DEF Enqueue, flushVars, Abstract!Next, Abstract!Submit
  <1>5. CASE WriteSucceeds
    <2>1. Len(stored) \in Nat /\ UNCHANGED <<submitted, flush, target>>
      BY <1>5 DEF WriteSucceeds, flushVars, TypeOK
    <2> QED BY <1>5, <2>1, WriteLoses, Grows
  <1>6. CASE InitFails \/ WriteFails \/ WriteFinally \/ OnDeadline \/ ContinueAutomatic
    BY <1>2, <1>6 DEF InitFails, WriteFails, WriteFinally, OnDeadline, ContinueAutomatic, flushVars
  <1>7. CASE DrainResumes
    <2>1. CASE pending # <<>>
      BY <1>2, <1>7, <2>1 DEF DrainResumes
    <2>2. CASE pending = <<>>
      <3>1. batch = <<>> /\ init = "ready"
        BY <1>7 DEF DrainResumes, OneWrite, TypeOK
      <3>2. \A f \in Flushers : target[f] <= Len(stored)
        BY <2>2, <3>1, AllStored
      <3>3. UNCHANGED <<submitted, stored, target>>
            /\ flush' = [f \in Flushers |-> IF flush[f] = "barrier" THEN "done" ELSE flush[f]]
        BY <1>7, <2>2 DEF DrainResumes, SettleBarrier
      <3>4. \A f \in Flushers : Seen'[f] # Seen[f] => Seen[f] = "waiting" /\ Seen'[f] = "done"
        BY <3>3 DEF Seen
      <3> QED BY <3>2, <3>3, <3>4, Settles
    <2> QED BY <2>1, <2>2
  <1>8. CASE DrainRejects
    <2>1. UNCHANGED <<submitted, stored, target>>
          /\ flush' = [f \in Flushers |-> IF flush[f] = "barrier" THEN "failed" ELSE flush[f]]
      BY <1>8 DEF DrainRejects, SettleBarrier
    <2>2. \A f \in Flushers : Seen'[f] # Seen[f] => Seen[f] = "waiting" /\ Seen'[f] = "failed"
      BY <2>1 DEF Seen
    <2> QED BY <2>1, <2>2, Settles
  <1>9. ASSUME NEW f \in Flushers, CallFlush(f)  PROVE [Abstract!Next]_Abstract!vars
    <2>1. UNCHANGED <<submitted, stored>> /\ target' = [target EXCEPT ![f] = submitted]
          /\ flush' = [flush EXCEPT ![f] = "init"] /\ flush[f] \notin {"init", "barrier"}
      BY <1>9 DEF CallFlush
    <2>2. Seen' = [Seen EXCEPT ![f] = "waiting"] /\ Seen[f] # "waiting"
      BY <2>1 DEF Seen, TypeOK
    <2>3. Abstract!CallFlush(f)
      BY <2>1, <2>2 DEF Abstract!CallFlush, Seen
    <2> QED BY <2>3 DEF Abstract!Next
  <1>10. ASSUME NEW f \in Flushers, FlushInitFailed(f)  PROVE [Abstract!Next]_Abstract!vars
    <2>1. UNCHANGED <<submitted, stored, target>> /\ flush' = [flush EXCEPT ![f] = "failed"] /\ flush[f] = "init"
      BY <1>10 DEF FlushInitFailed
    <2>2. \A g \in Flushers : Seen'[g] # Seen[g] => Seen[g] = "waiting" /\ Seen'[g] = "failed"
      BY <2>1 DEF Seen, TypeOK
    <2> QED BY <2>1, <2>2, Settles
  <1>11. ASSUME NEW f \in Flushers, JoinBarrier(f)  PROVE [Abstract!Next]_Abstract!vars
    <2>1. UNCHANGED <<submitted, stored, target>> /\ flush' = [flush EXCEPT ![f] = "barrier"] /\ flush[f] = "init"
      BY <1>11 DEF JoinBarrier
    <2>2. Seen' = Seen
      BY <2>1 DEF Seen, TypeOK
    <2> QED BY <1>1, <2>1, <2>2
  <1>12. ASSUME NEW f \in Flushers, OpenBarrier(f)  PROVE [Abstract!Next]_Abstract!vars
    <2>1. UNCHANGED <<submitted, stored, target>> /\ flush[f] = "init" /\ init = "ready"
      BY <1>12 DEF OpenBarrier
    <2>2. CASE flush' = [flush EXCEPT ![f] = "barrier"]
      <3>1. Seen' = Seen
        BY <2>1, <2>2 DEF Seen, TypeOK
      <3> QED BY <1>1, <2>1, <3>1
    <2>3. CASE flush' = [flush EXCEPT ![f] = "done"] /\ active = "none" /\ pending = <<>>
      <3>1. batch = <<>>
        BY <2>3 DEF TypeOK
      <3>2. \A g \in Flushers : target[g] <= Len(stored)
        BY <2>1, <2>3, <3>1, AllStored
      <3>3. \A g \in Flushers : Seen'[g] # Seen[g] => Seen[g] = "waiting" /\ Seen'[g] = "done"
        BY <2>1, <2>3 DEF Seen, TypeOK
      <3> QED BY <2>1, <3>2, <3>3, Settles
    <2> QED BY <1>12, <2>2, <2>3 DEF OpenBarrier, Overlapping
  <1>13. CASE UNCHANGED vars
    BY <1>2, <1>13 DEF vars, flushVars
  <1> QED BY <1>3, <1>4, <1>5, <1>6, <1>7, <1>8, <1>9, <1>10, <1>11, <1>12, <1>13
          DEF Next, Settling, Microtask, EnterFlush

\* The controller keeps what persistence promises of one live session: the stored
\* log only grows, as a prefix of the log, and a flush that succeeds covers every
\* event that was in the log when it was called.
THEOREM ImplementsTheLog == Spec => ImplementsDurableLog
  <1>1. WriteBehindInv /\ [Next]_vars => [Abstract!Next]_Abstract!vars
    BY Refines
  <1> QED BY WriteBehindInvariant, AbstractInit, <1>1, PTL DEF Spec, ImplementsDurableLog, Abstract!Spec

=============================================================================
