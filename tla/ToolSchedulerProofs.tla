------------------------- MODULE ToolSchedulerProofs -------------------------
(***************************************************************************)
(* Proofs about ToolScheduler, for any number of calls, any pool and any    *)
(* room in the inbox: results pair up in model order, exclusive calls are   *)
(* barriers, nothing starts late and no body outlives its result.  The      *)
(* argument is where a group stands: what is started and not committed is   *)
(* in the pool or has a slot, so a group that is done has committed all.     *)
(***************************************************************************)
EXTENDS ToolScheduler, SequenceTheorems, TLAPS

-----------------------------------------------------------------------------
(* The inductive invariant. *)

GroupPoints == {"fill", "preparing", "commit", "race", "grouped", "draining", "completing"}

\* Outside a group all that began is committed; within one, a parallel call is
\* followed by parallel calls only and an exclusive call is alone.
GroupStands ==
  /\ pc = "classify" => first = started + 1 /\ committed = started
  /\ pc \in GroupPoints =>
       /\ first <= NCalls /\ first - 1 <= committed /\ started <= last
       /\ last = IF mode[first] = "parallel" THEN NCalls ELSE first
       /\ mode[first] = "parallel" => \A i \in first..started : mode[i] = "parallel"

\* A call is in the pool, has a slot, is being prepared, or was lost to a failure;
\* so a pool that stops empty has committed everything.
PoolStands ==
  /\ pc \in {"classify", "fill", "grouped"} => ~failure
  /\ pc \in {"classify", "grouped"} => inFlight = {}
  /\ pc = "fill" => committed = started \/ slot[Next1] = "none"
  /\ pc = "preparing" => committed < started /\ slot[started] = "none" /\ started \notin inFlight
  /\ pc \in GroupPoints =>
       \A i \in Calls : committed < i /\ i <= started =>
         slot[i] # "none" \/ i \in inFlight \/ failure \/ (pc = "preparing" /\ i = started)
  /\ pc = "grouped" => committed = started
  /\ pc \in {"completing", "returned", "threw"} => inFlight \subseteq settled
  /\ \A i \in Calls : started < i => slot[i] = "none"
  /\ \A i \in Calls : slot[i] # "none" => i \notin inFlight \ settled
  /\ \A i \in settled : slot[i] # "none" \/ failure

\* Between its last look at the signal and the start of a call the scheduler does
\* not wait.
LooksFirst == pc = "fill" /\ signal => aborted

\* Pending calls are those started and not committed.
TraceStands ==
  /\ trace.openTurn = 1 /\ trace.openStep = 1
  /\ \A i \in trace.pendingCalls : committed < i /\ i <= started

HasResult(s, i) == \E k \in 1..Len(s) : s[k][1] = i

\* Until the execution ends only what is committed has a result, and perhaps the
\* call whose commit failed.
ResultsStand ==
  /\ Running => \A k \in 1..Len(results) :
       /\ results[k][1] <= started
       /\ results[k][1] <= committed
            \/ (pc \in {"draining", "completing"} /\ results[k][1] = committed + 1)
  /\ \A i \in Calls : i <= committed => HasResult(results, i)

SchedulerInv ==
  /\ TypeOK /\ GroupStands /\ PoolStands /\ LooksFirst /\ TraceStands /\ ResultsStand
  /\ InModelOrder /\ PairedAtEnd /\ ExclusiveIsBarrier /\ NoBodyOutlivesItsResult

-----------------------------------------------------------------------------
(* Results. *)

Results == Seq(Calls \X Origins)

InOrder(s) == \A j, k \in 1..Len(s) : j < k => s[j][1] <= s[k][1]

\* Every result names the call it answers.
LEMMA ResultsNumbered ==
  ASSUME TypeOK
  PROVE  \A k \in 1..Len(results) : results[k][1] \in Nat
  <1>1. results \in Seq(Calls \X Origins)
    BY DEF TypeOK
  <1>2. \A k \in 1..Len(results) : results[k][1] \in Calls
    BY <1>1
  <1> QED BY <1>2, SchedulerAssumption DEF Calls

\* A result no earlier than the others keeps their order.
LEMMA OneMore ==
  ASSUME NEW s \in Results, NEW i \in Calls, NEW o \in Origins,
         InOrder(s), \A k \in 1..Len(s) : s[k][1] <= i
  PROVE  LET t == Append(s, <<i, o>>)
         IN /\ t \in Results /\ InOrder(t)
            /\ \A c \in Calls : HasResult(t, c) <=> HasResult(s, c) \/ c = i
            /\ \A k \in 1..Len(t) : t[k][1] = i \/ \E j \in 1..Len(s) : t[k][1] = s[j][1]
  <1> DEFINE t == Append(s, <<i, o>>)
  <1>1. /\ t \in Results /\ Len(t) = Len(s) + 1 /\ Len(s) \in Nat
        /\ t[Len(s) + 1] = <<i, o>> /\ \A k \in 1..Len(s) : t[k] = s[k]
    BY AppendProperties DEF Results
  <1>2. t[Len(s) + 1][1] = i
    BY <1>1
  <1>3. \A k \in 1..Len(s) : s[k][1] \in Int
    BY DEF Results, Calls
  <1> HIDE DEF t
  <1>4. \A k \in 1..Len(t) : k \in 1..Len(s) \/ k = Len(s) + 1
    BY <1>1
  <1>5. InOrder(t)
    <2> SUFFICES ASSUME NEW j \in 1..Len(t), NEW k \in 1..Len(t), j < k  PROVE t[j][1] <= t[k][1]
      BY DEF InOrder
    <2>1. j \in 1..Len(s)
      BY <1>1
    <2>2. CASE k \in 1..Len(s)
      BY <1>1, <2>1, <2>2 DEF InOrder
    <2>3. CASE k = Len(s) + 1
      BY <1>1, <1>2, <2>1, <2>3
    <2> QED BY <1>4, <2>2, <2>3
  <1>6. ASSUME NEW c \in Calls  PROVE HasResult(t, c) <=> HasResult(s, c) \/ c = i
    <2>1. HasResult(t, c) => HasResult(s, c) \/ c = i
      BY <1>1, <1>2, <1>4 DEF HasResult
    <2>2. HasResult(s, c) => HasResult(t, c)
      BY <1>1 DEF HasResult
    <2>3. HasResult(t, i)
      BY <1>1, <1>2, Len(s) + 1 \in 1..Len(t) DEF HasResult
    <2> QED BY <2>1, <2>2, <2>3
  <1>7. \A k \in 1..Len(t) : t[k][1] = i \/ \E j \in 1..Len(s) : t[k][1] = s[j][1]
    BY <1>1, <1>2, <1>4
  <1> QED BY <1>1, <1>5, <1>6, <1>7 DEF t

\* The synthetic results of the calls from i on, behind those of calls before it.
LEMMA Skipping ==
  ASSUME NEW s \in Results, NEW i \in 1..NCalls + 1,
         InOrder(s), \A k \in 1..Len(s) : s[k][1] < i
  PROVE  LET t == s \o [j \in 1..(NCalls - i + 1) |-> <<i + j - 1, "skipped">>]
         IN /\ t \in Results /\ InOrder(t)
            /\ \A c \in Calls : HasResult(s, c) \/ i <= c => HasResult(t, c)
            /\ \A k \in 1..Len(t) : t[k][1] >= i \/ \E j \in 1..Len(s) : t[k][1] = s[j][1]
  <1> DEFINE n == NCalls - i + 1
             u == [j \in 1..n |-> <<i + j - 1, "skipped">>]
             t == s \o u
  <1>1. n \in Nat /\ Len(s) \in Nat /\ i \in Nat
    BY SchedulerAssumption DEF Results
  <1>2. u \in Results /\ Len(u) = n
    <2>1. \A j \in 1..n : <<i + j - 1, "skipped">> \in Calls \X Origins
      BY SchedulerAssumption DEF Calls, Origins
    <2>2. u \in [1..n -> Calls \X Origins]
      BY <2>1
    <2> HIDE DEF n, u
    <2>3. u \in Seq(Calls \X Origins) /\ Len(u) = n
      BY <1>1, <2>2
    <2> QED BY <2>3 DEF Results
  <1>3. \A j \in 1..n : u[j][1] = i + j - 1
    OBVIOUS
  <1> HIDE DEF u, n
  <1>4. /\ t \in Results /\ Len(t) = Len(s) + n
        /\ \A k \in 1..Len(s) + n : t[k] = IF k <= Len(s) THEN s[k] ELSE u[k - Len(s)]
    BY <1>1, <1>2, ConcatProperties DEF Results
  <1>5. \A k \in 1..Len(s) : t[k] = s[k]
    BY <1>1, <1>4
  <1>6. ASSUME NEW k \in 1..Len(t), k \notin 1..Len(s)
        PROVE  k - Len(s) \in 1..n /\ t[k][1] = i + (k - Len(s)) - 1
    <2>1. k - Len(s) \in 1..n /\ k \in 1..Len(s) + n /\ ~(k <= Len(s))
      BY <1>1, <1>4, <1>6
    <2>2. t[k] = u[k - Len(s)]
      BY <1>4, <2>1
    <2> QED BY <1>3, <2>1, <2>2
  <1> HIDE DEF t
  <1>7. \A k \in 1..Len(s) : s[k][1] \in Int
    BY DEF Results, Calls
  <1>8. InOrder(t)
    <2> SUFFICES ASSUME NEW j \in 1..Len(t), NEW k \in 1..Len(t), j < k  PROVE t[j][1] <= t[k][1]
      BY DEF InOrder
    <2>1. CASE k \in 1..Len(s)
      <3>1. j \in 1..Len(s)
        BY <1>1, <2>1
      <3> QED BY <1>5, <2>1, <3>1 DEF InOrder
    <2>2. CASE k \notin 1..Len(s) /\ j \in 1..Len(s)
      <3>1. t[j][1] < i /\ t[j][1] \in Int
        BY <1>5, <1>7, <2>2
      <3>2. t[k][1] = i + (k - Len(s)) - 1 /\ k - Len(s) \in 1..n
        BY <1>6, <2>2
      <3> QED BY <1>1, <3>1, <3>2
    <2>3. CASE k \notin 1..Len(s) /\ j \notin 1..Len(s)
      <3>1. t[k][1] = i + (k - Len(s)) - 1 /\ t[j][1] = i + (j - Len(s)) - 1
        BY <1>6, <2>3
      <3> QED BY <1>1, <3>1
    <2> QED BY <2>1, <2>2, <2>3
  <1>9. ASSUME NEW c \in Calls, HasResult(s, c)  PROVE HasResult(t, c)
    <2>1. PICK k \in 1..Len(s) : s[k][1] = c
      BY <1>9 DEF HasResult
    <2>2. k \in 1..Len(t) /\ t[k][1] = c
      BY <1>1, <1>4, <1>5, <2>1
    <2> QED BY <2>2 DEF HasResult
  <1>10. ASSUME NEW c \in Calls, i <= c  PROVE HasResult(t, c)
    <2> DEFINE k == Len(s) + (c - i + 1)
    <2>1. k \in 1..Len(t) /\ k \notin 1..Len(s) /\ i + (k - Len(s)) - 1 = c
      BY <1>1, <1>4, <1>10, SchedulerAssumption DEF Calls, n
    <2>2. t[k][1] = c
      BY <1>6, <2>1
    <2> QED BY <2>1, <2>2 DEF HasResult
  <1>11. ASSUME NEW k \in 1..Len(t)  PROVE t[k][1] >= i \/ \E j \in 1..Len(s) : t[k][1] = s[j][1]
    <2>1. CASE k \in 1..Len(s)
      BY <1>5, <2>1
    <2>2. CASE k \notin 1..Len(s)
      BY <1>1, <1>6, <2>2
    <2> QED BY <2>1, <2>2
  <1> QED BY <1>4, <1>8, <1>9, <1>10, <1>11 DEF t, u, n

-----------------------------------------------------------------------------
(* What the actions log. *)

LEMMA TraceMoves ==
  ASSUME NEW tr \in Traces(Calls), tr.openTurn = 1, tr.openStep = 1, NEW i \in Calls
  PROVE  /\ ToolCall(tr, 1, 1, i) \in Traces(Calls) /\ ToolResult(tr, 1, 1, i, FALSE) \in Traces(Calls)
         /\ ToolCall(tr, 1, 1, i).openTurn = 1 /\ ToolCall(tr, 1, 1, i).openStep = 1
         /\ ToolResult(tr, 1, 1, i, FALSE).openTurn = 1 /\ ToolResult(tr, 1, 1, i, FALSE).openStep = 1
         /\ ToolCall(tr, 1, 1, i).pendingCalls = tr.pendingCalls \cup {i}
         /\ ToolResult(tr, 1, 1, i, FALSE).pendingCalls = tr.pendingCalls \ {i}
  <1> DEFINE Sets(t, calls) == /\ t \in Traces(Calls) /\ t.openTurn = 1 /\ t.openStep = 1
                               /\ t.pendingCalls = calls
  <1>1. ASSUME NEW calls \in SUBSET Calls  PROVE Sets([tr EXCEPT !.pendingCalls = calls], calls)
    BY <1>1 DEF Traces
  <1>2. Sets(ToolCall(tr, 1, 1, i), tr.pendingCalls \cup {i})
    <2>1. tr.pendingCalls \cup {i} \in SUBSET Calls
      BY DEF Traces
    <2>2. ToolCall(tr, 1, 1, i) = [tr EXCEPT !.pendingCalls = tr.pendingCalls \cup {i}]
      BY DEF ToolCall, Traces, Accept, InOpenStep
    <2> HIDE DEF Sets
    <2> QED BY <1>1, <2>1, <2>2
  <1>3. Sets(ToolResult(tr, 1, 1, i, FALSE), tr.pendingCalls \ {i})
    <2>1. CASE i \in tr.pendingCalls
      <3>1. tr.pendingCalls \ {i} \in SUBSET Calls
        BY DEF Traces
      <3>2. ToolResult(tr, 1, 1, i, FALSE) = [tr EXCEPT !.pendingCalls = tr.pendingCalls \ {i}]
        BY <2>1 DEF ToolResult, Traces, Accept, InOpenStep
      <3> HIDE DEF Sets
      <3> QED BY <1>1, <3>1, <3>2
    <2>2. CASE i \notin tr.pendingCalls
      <3>1. ToolResult(tr, 1, 1, i, FALSE) = [tr EXCEPT !.broken = TRUE]
        BY <2>2 DEF ToolResult, Traces, Accept, InOpenStep
      <3>2. Sets([tr EXCEPT !.broken = TRUE], tr.pendingCalls)
        BY DEF Traces
      <3>3. tr.pendingCalls \ {i} = tr.pendingCalls
        BY <2>2
      <3> HIDE DEF Sets
      <3> QED BY <3>1, <3>2, <3>3
    <2> QED BY <2>1, <2>2
  <1> QED BY <1>2, <1>3

\* A call that is ready has started.
LEMMA ReadyStarted ==
  ASSUME SchedulerInv, pc \in GroupPoints, Ready
  PROVE  Next1 \in Calls /\ Next1 <= started
  BY SchedulerAssumption DEF SchedulerInv, TypeOK, PoolStands, Ready, Next1, Calls

\* Where the next result goes: it is the next call's, it has started, and no later
\* call has one.
LEMMA NextResult ==
  ASSUME SchedulerInv, pc \in {"commit", "completing"}, Next1 \in Calls
  PROVE  InOrder(results) /\ results \in Results /\ \A k \in 1..Len(results) : results[k][1] <= Next1
  <1>1. InOrder(results) /\ results \in Results
    BY DEF SchedulerInv, InModelOrder, InOrder, TypeOK, Results
  <1>2. \A k \in 1..Len(results) : results[k][1] <= committed \/ results[k][1] = committed + 1
    BY DEF SchedulerInv, ResultsStand, Running
  <1>3. committed \in Nat /\ \A k \in 1..Len(results) : results[k][1] \in Nat
    BY ResultsNumbered DEF SchedulerInv, TypeOK
  <1> QED BY <1>1, <1>2, <1>3 DEF Next1

-----------------------------------------------------------------------------
(* Every step keeps the invariant. *)

LEMMA TypeStep ==
  ASSUME SchedulerInv, Next
  PROVE  TypeOK'
  <1> TypeOK /\ GroupStands /\ PoolStands /\ TraceStands
    BY DEF SchedulerInv
  <1> USE SchedulerAssumption DEF TypeOK, Points, groupVars, progress, poolVars, logVars
  <1>0. NCalls \in Nat /\ Calls = 1..NCalls /\ started \in Nat /\ committed \in Nat /\ first \in Nat /\ last \in Nat
    BY DEF Calls
  <1>1. CASE AllExecuted
    BY <1>1 DEF AllExecuted
  <1>2. CASE StartGroup
    <2>1. last' \in 0..NCalls
      BY <1>0, <1>2 DEF StartGroup
    <2> QED BY <1>2, <2>1 DEF StartGroup
  <1>3. ASSUME NEW i \in 1..NCalls + 1, SkipFrom(i), \A k \in 1..Len(results) : results[k][1] < i
        PROVE  results' \in Seq(Calls \X Origins)
    <2>1. InOrder(results) /\ results \in Results
      BY DEF SchedulerInv, InModelOrder, InOrder, Results
    <2>2. results \o [j \in 1..(NCalls - i + 1) |-> <<i + j - 1, "skipped">>] \in Results
      BY <1>3, <2>1, Skipping
    <2> QED BY <1>3, <2>2 DEF SkipFrom, Results
  <1>4. \A k \in 1..Len(results) : Running => results[k][1] < started + 1
    <2>1. \A k \in 1..Len(results) : results[k][1] \in Nat
      BY <1>0
    <2>2. Running => \A k \in 1..Len(results) : results[k][1] <= started
      BY DEF SchedulerInv, ResultsStand
    <2> QED BY <1>0, <2>1, <2>2
  <1>5. CASE ClassifyThrows
    <2>1. Running /\ first = started + 1 /\ SkipFrom(first)
      BY <1>5 DEF ClassifyThrows, GroupStands, Running
    <2>2. results' \in Seq(Calls \X Origins)
      BY <1>3, <1>4, <2>1
    <2> QED BY <1>5, <2>2 DEF ClassifyThrows
  <1>6. CASE GroupAborted \/ CompletionEnds
    <2>1. Running /\ SkipFrom(started + 1) /\ started + 1 \in 1..NCalls + 1
      BY <1>0, <1>6 DEF GroupAborted, CompletionEnds, Running
    <2>2. results' \in Seq(Calls \X Origins)
      BY <1>3, <1>4, <2>1
    <2> QED BY <1>6, <2>2 DEF GroupAborted, CompletionEnds
  <1>7. CASE FillStops \/ StartThrows \/ PrepareThrows \/ CommitDone \/ Drained \/ Abort \/ LoseOwnership
    BY <1>7 DEF FillStops, StartThrows, PrepareThrows, Fail, CommitDone, Drained, Abort, LoseOwnership
  <1>8. CASE StartCall
    <2>1. started + 1 \in Calls /\ started' = started + 1
      BY <1>0, <1>8 DEF StartCall, GroupStands, GroupPoints, PoolStops, PoolFull
    <2>2. trace' \in Traces(Calls)
      BY <1>8, <2>1, TraceMoves DEF StartCall, TraceStands
    <2>3. started' \in 0..NCalls /\ committed' \in 0..started' /\ inFlight' \subseteq 1..started'
          /\ settled' \subseteq 1..started' /\ attempted' \subseteq 1..started'
      BY <1>0, <1>8, <2>1 DEF StartCall
    <2> QED BY <1>8, <2>2, <2>3 DEF StartCall
  <1>9. ASSUME NEW kind \in {"dispatch", "post", "final"}, Prepared(kind)  PROVE TypeOK'
    <2>1. started \in Calls /\ started \in 1..started
      BY <1>0, <1>9 DEF Prepared, PoolStands
    <2>2. inFlight' \subseteq 1..started
      <3>1. CASE kind = "dispatch"
        <4>1. inFlight' = inFlight \cup {started} /\ inFlight \subseteq 1..started
          BY <1>9, <3>1 DEF Prepared
        <4> QED BY <2>1, <4>1, Zenon
      <3>2. CASE kind \in {"post", "final"}
        BY <1>9, <3>2 DEF Prepared
      <3> QED BY <3>1, <3>2
    <2>3. slot' \in [Calls -> {"none", "post", "final"}]
      <3>1. CASE kind = "dispatch"
        BY <1>9, <3>1 DEF Prepared
      <3>2. CASE kind \in {"post", "final"}
        BY <1>9, <3>2 DEF Prepared
      <3> QED BY <3>1, <3>2
    <2> QED BY <1>9, <2>2, <2>3 DEF Prepared
  <1>10. ASSUME NEW i \in Calls, RaceSettles(i)  PROVE TypeOK'
    BY <1>10 DEF RaceSettles
  <1>11. ASSUME NEW i \in Calls, NEW kind \in {"post", "final"}, DispatchSettles(i, kind)  PROVE TypeOK'
    BY <1>11 DEF DispatchSettles
  <1>12. ASSUME NEW i \in Calls, DispatchFails(i)  PROVE TypeOK'
    BY <1>12 DEF DispatchFails
  <1>13. ASSUME NEW o \in Origins, Next1 \in Calls, pc \in {"commit", "completing"}, LogResult(trace, results, Next1, o)
         PROVE  results' \in Seq(Calls \X Origins) /\ trace' \in Traces(Calls)
    <2>1. Append(results, <<Next1, o>>) \in Results
      BY <1>13, NextResult, OneMore
    <2> QED BY <1>13, <2>1, TraceMoves DEF LogResult, Results, TraceStands
  <1>14. CASE CommitNext
    <2>1. Next1 \in Calls /\ Next1 <= started
      BY <1>14, ReadyStarted DEF CommitNext, GroupPoints
    <2>2. results' \in Seq(Calls \X Origins) /\ trace' \in Traces(Calls)
      BY <1>13, <1>14, <2>1 DEF CommitNext, Origins
    <2>3. committed' \in 0..started' /\ accepted' \in 0..InboxRoom
      BY <1>0, <1>14, <2>1 DEF CommitNext, Next1
    <2> QED BY <1>14, <2>2, <2>3 DEF CommitNext
  <1>15. CASE CommitThrows
    <2>1. Next1 \in 1..started
      BY <1>0, <1>15, ReadyStarted DEF CommitThrows, GroupPoints
    <2> QED BY <1>15, <2>1 DEF CommitThrows, CommitFails
  <1>16. CASE ContextRefused
    <2>1. Next1 \in Calls /\ Next1 \in 1..started
      BY <1>0, <1>16, ReadyStarted DEF ContextRefused, GroupPoints
    <2>2. results' \in Seq(Calls \X Origins) /\ trace' \in Traces(Calls)
      BY <1>13, <1>16, <2>1 DEF ContextRefused, Origins
    <2> QED BY <1>16, <2>1, <2>2 DEF ContextRefused, CommitFails
  <1>17. CASE GroupDone
    <2>1. first' \in 1..NCalls + 1
      BY <1>0, <1>17 DEF GroupDone
    <2> QED BY <1>17, <2>1 DEF GroupDone
  <1>18. CASE CompleteNext
    <2>1. Next1 \in Calls /\ Next1 \in 1..started
      BY <1>0, <1>18 DEF CompleteNext, Next1
    <2>2. committed' \in 0..started' /\ started' = started
      BY <1>0, <1>18, <2>1 DEF CompleteNext, Next1
    <2>3. CASE \E o \in Origins : LogResult(trace, results, Next1, o) /\ accepted' \in 0..InboxRoom
      BY <1>13, <1>18, <2>1, <2>2, <2>3 DEF CompleteNext
    <2>4. CASE LogResult(ToolResult(trace, 1, 1, Next1, FALSE), Append(results, <<Next1, "tool">>), Next1, "unknown")
               /\ accepted' = accepted
      <3> DEFINE t == Append(results, <<Next1, "tool">>)
      <3>1. t \in Results /\ InOrder(t) /\ \A k \in 1..Len(t) : t[k][1] <= Next1
        <4>1. /\ t \in Results /\ InOrder(t)
              /\ \A k \in 1..Len(t) : t[k][1] = Next1 \/ \E j \in 1..Len(results) : t[k][1] = results[j][1]
          BY <1>18, <2>1, NextResult, OneMore DEF CompleteNext, Origins
        <4>2. \A j \in 1..Len(results) : results[j][1] <= Next1
          BY <1>18, <2>1, NextResult DEF CompleteNext
        <4> QED BY <1>0, <2>1, <4>1, <4>2
      <3>2. Append(t, <<Next1, "unknown">>) \in Results
        BY <2>1, <3>1, OneMore DEF Origins
      <3>3. trace' \in Traces(Calls)
        BY <2>1, <2>4, TraceMoves DEF LogResult, TraceStands
      <3>4. results' \in Seq(Calls \X Origins)
        BY <2>4, <3>2 DEF LogResult, Results
      <3> HIDE DEF t
      <3> QED BY <1>18, <2>2, <2>4, <3>3, <3>4 DEF CompleteNext
    <2>5. ASSUME NEW contexts \in 0..1, accepted + contexts <= InboxRoom  PROVE accepted + contexts \in 0..InboxRoom
      BY <1>0, <2>5
    <2>6. accepted' \in 0..InboxRoom
      BY <1>18, <2>5 DEF CompleteNext
    <2>7. \/ \E o \in Origins : LogResult(trace, results, Next1, o)
          \/ /\ LogResult(ToolResult(trace, 1, 1, Next1, FALSE), Append(results, <<Next1, "tool">>), Next1, "unknown")
             /\ accepted' = accepted
      BY <1>18 DEF CompleteNext, Origins
    <2> QED BY <2>3, <2>4, <2>6, <2>7
  <1> QED BY <1>1, <1>2, <1>5, <1>6, <1>7, <1>8, <1>9, <1>10, <1>11, <1>12, <1>14, <1>15, <1>16, <1>17, <1>18
          DEF Next, Scheduler, Bodies

\* A group keeps its shape, and StartCall extends it only by a call of its mode.
LEMMA GroupStep ==
  ASSUME SchedulerInv, Next
  PROVE  GroupStands'
  <1> /\ NCalls \in Nat /\ Calls = 1..NCalls /\ started \in 0..NCalls /\ committed \in 0..started
      /\ first \in 1..(NCalls + 1) /\ last \in 0..NCalls
    BY SchedulerAssumption DEF SchedulerInv, TypeOK, Calls
  <1> GroupStands /\ PoolStands
    BY DEF SchedulerInv
  <1> USE DEF GroupStands, GroupPoints, groupVars, progress
  <1>1. CASE AllExecuted \/ ClassifyThrows \/ GroupAborted \/ CompletionEnds
    BY <1>1 DEF AllExecuted, ClassifyThrows, GroupAborted, CompletionEnds
  <1>2. CASE StartGroup
    BY <1>2 DEF StartGroup
  <1>3. CASE StartCall
    <2>1. /\ pc = "fill" /\ pc' = "preparing" /\ UNCHANGED <<mode, first, last, committed>>
          /\ started' = started + 1 /\ started # last
          /\ ~(started \in first..(last - 1) /\ mode[first] = "parallel" /\ mode[started + 1] = "exclusive")
      BY <1>3 DEF StartCall, PoolStops, PoolFull, NeedsBarrier
    <2>2. mode[started + 1] \in {"parallel", "exclusive"}
      <3>1. started + 1 \in Calls
        BY <2>1
      <3> QED BY <3>1 DEF SchedulerInv, TypeOK
    <2>3. mode[first] = "parallel" => mode[started + 1] = "parallel"
      <3>1. started >= first \/ started + 1 = first
        BY <2>1
      <3>2. started <= last - 1
        BY <2>1
      <3> QED BY <2>1, <2>2, <3>1, <3>2
    <2>4. mode[first] = "parallel" => \A i \in first..started' : mode[i] = "parallel"
      BY <2>1, <2>3
    <2>5. started' <= last
      BY <2>1
    <2> QED BY <2>1, <2>4, <2>5
  <1>4. CASE GroupDone
    BY <1>4 DEF GroupDone, PoolStands
  <1>5. CASE CommitNext \/ CompleteNext
    <2>1. pc \in GroupPoints /\ pc' = pc /\ UNCHANGED <<mode, first, last, started>> /\ committed' = committed + 1
      BY <1>5 DEF CommitNext, CompleteNext, Next1
    <2> QED BY <2>1, <1>5 DEF CommitNext, CompleteNext
  <1>6. CASE \/ FillStops \/ StartThrows \/ PrepareThrows \/ CommitThrows \/ ContextRefused \/ CommitDone \/ Drained
             \/ \E kind \in {"dispatch", "post", "final"} : Prepared(kind)
             \/ \E i \in Calls : RaceSettles(i)
    <2>1. pc \in GroupPoints /\ pc' \in GroupPoints /\ UNCHANGED <<mode, first, last, started, committed>>
      BY <1>6 DEF FillStops, StartThrows, PrepareThrows, Fail, CommitThrows, ContextRefused, CommitDone,
                  Drained, Prepared, RaceSettles
    <2> QED BY <2>1
  <1>7. CASE Bodies \/ Abort \/ LoseOwnership
    <2>1. UNCHANGED <<pc, mode, first, last, started, committed>>
      BY <1>7 DEF Bodies, DispatchFails, DispatchSettles, Abort, LoseOwnership
    <2> QED BY <2>1
  <1> QED BY <1>1, <1>2, <1>3, <1>4, <1>5, <1>6, <1>7 DEF Next, Scheduler

\* Only StartCall may break the barrier, and fillPool stops before it would.
LEMMA BarrierStep ==
  ASSUME SchedulerInv, Next
  PROVE  ExclusiveIsBarrier'
  <1> /\ NCalls \in Nat /\ Calls = 1..NCalls /\ started \in 0..NCalls /\ committed \in 0..started
      /\ first \in 1..(NCalls + 1) /\ last \in 0..NCalls
    BY SchedulerAssumption DEF SchedulerInv, TypeOK, Calls
  <1> ExclusiveIsBarrier /\ GroupStands
    BY DEF SchedulerInv
  <1> USE DEF ExclusiveIsBarrier, groupVars, progress
  <1>1. CASE StartCall
    <2>1. /\ pc = "fill" /\ UNCHANGED <<mode, committed>>
          /\ started' = started + 1 /\ started # last
          /\ ~(started \in first..(last - 1) /\ mode[first] = "parallel" /\ mode[started + 1] = "exclusive")
      BY <1>1 DEF StartCall, PoolStops, PoolFull, NeedsBarrier
    <2>2. /\ first <= NCalls /\ first - 1 <= committed /\ started <= last
          /\ last = IF mode[first] = "parallel" THEN NCalls ELSE first
          /\ mode[first] = "parallel" => \A i \in first..started : mode[i] = "parallel"
      BY <2>1 DEF GroupStands, GroupPoints
    <2>3. mode[first] \in {"parallel", "exclusive"}
      BY <2>2, first \in Calls DEF SchedulerInv, TypeOK
    <2>4. mode[first] # "parallel" => started = first - 1 /\ committed = started
      BY <2>1, <2>2
    <2>5. ASSUME NEW i \in 1..started', mode'[i] = "exclusive", i > committed'
          PROVE  i = started + 1 /\ committed = started
      <3>1. CASE mode[first] # "parallel"
        BY <2>1, <2>4, <2>5, <3>1
      <3>2. CASE mode[first] = "parallel"
        <4>1. i \notin first..started
          BY <2>1, <2>2, <2>5, <3>2
        <4>2. i >= first
          BY <2>1, <2>2, <2>5
        <4>3. i = started + 1
          BY <2>1, <2>5, <4>1, <4>2
        <4>4. ~(started \in first..(last - 1))
          BY <2>1, <2>5, <3>2, <4>3
        <4>5. started < first
          BY <2>1, <2>2, <4>4
        <4> QED BY <2>2, <4>3, <4>5
      <3> QED BY <3>1, <3>2
    <2> QED BY <2>1, <2>5
  <1>2. CASE CommitNext \/ CompleteNext
    <2>1. UNCHANGED <<mode, started>> /\ committed' = committed + 1
      BY <1>2 DEF CommitNext, CompleteNext, Next1
    <2> QED BY <2>1
  <1>3. CASE /\ Next /\ ~StartCall /\ ~CommitNext /\ ~CompleteNext
    <2>1. UNCHANGED <<mode, started, committed>>
      BY <1>3 DEF Next, Scheduler, Bodies, AllExecuted, StartGroup, ClassifyThrows, FillStops, StartThrows,
                  Prepared, PrepareThrows, Fail, RaceSettles, CommitThrows, ContextRefused, CommitDone,
                  GroupDone, GroupAborted, Drained, CompletionEnds, DispatchFails, DispatchSettles,
                  Abort, LoseOwnership
    <2> QED BY <2>1
  <1> QED BY <1>1, <1>2, <1>3

\* The trace takes the tool/call of what starts and the result of what commits.
LEMMA TraceStep ==
  ASSUME SchedulerInv, Next
  PROVE  TraceStands'
  <1> /\ NCalls \in Nat /\ Calls = 1..NCalls /\ started \in 0..NCalls /\ committed \in 0..started
      /\ trace \in Traces(Calls)
    BY SchedulerAssumption DEF SchedulerInv, TypeOK, Calls
  <1> TraceStands /\ \A i \in trace.pendingCalls : i \in Calls
    BY DEF SchedulerInv, Traces
  <1> USE DEF TraceStands, progress, logVars
  <1>1. CASE StartCall
    <2>1. started + 1 \in Calls
      <3>1. started' \in 0..NCalls
        BY TypeStep DEF TypeOK
      <3> QED BY <1>1, <3>1 DEF StartCall
    <2>2. /\ trace'.openTurn = 1 /\ trace'.openStep = 1
          /\ trace'.pendingCalls = trace.pendingCalls \cup {started + 1}
      BY <1>1, <2>1, TraceMoves DEF StartCall
    <2>3. started' = started + 1 /\ committed' = committed
      BY <1>1 DEF StartCall
    <2> QED BY <2>2, <2>3
  <1>2. CASE CommitNext \/ CompleteNext \/ ContextRefused
    <2>1. Next1 \in Calls /\ Next1 = committed + 1
      <3>1. CASE CommitNext \/ ContextRefused
        BY <3>1, ReadyStarted DEF CommitNext, ContextRefused, GroupPoints, Next1
      <3>2. CASE CompleteNext
        BY <3>2 DEF CompleteNext, Next1
      <3> QED BY <1>2, <3>1, <3>2
    <2>2. started' = started /\ committed' \in {committed, committed + 1}
      BY <1>2 DEF CommitNext, CompleteNext, ContextRefused, Next1
    <2> DEFINE One == ToolResult(trace, 1, 1, Next1, FALSE)
               Two == ToolResult(One, 1, 1, Next1, FALSE)
               Settles(t) == /\ t \in Traces(Calls) /\ t.openTurn = 1 /\ t.openStep = 1
                             /\ t.pendingCalls = trace.pendingCalls \ {Next1}
    <2>3. Settles(One)
      BY <2>1, TraceMoves
    <2>4. Settles(Two)
      <3>1. One \in Traces(Calls) /\ One.openTurn = 1 /\ One.openStep = 1
        BY <2>3
      <3> HIDE DEF One
      <3>2. /\ Two \in Traces(Calls) /\ Two.openTurn = 1 /\ Two.openStep = 1
            /\ Two.pendingCalls = One.pendingCalls \ {Next1}
        BY <2>1, <3>1, TraceMoves
      <3>3. (trace.pendingCalls \ {Next1}) \ {Next1} = trace.pendingCalls \ {Next1}
        OBVIOUS
      <3> QED BY <2>3, <3>2, <3>3
    <2>5. trace' = One \/ trace' = Two
      BY <1>2 DEF CommitNext, CompleteNext, ContextRefused, LogResult
    <2> HIDE DEF One, Two
    <2>6. /\ trace'.openTurn = 1 /\ trace'.openStep = 1
          /\ trace'.pendingCalls = trace.pendingCalls \ {Next1}
      BY <2>3, <2>4, <2>5
    <2>7. \A i \in trace'.pendingCalls : committed' < i /\ i <= started'
      BY <2>1, <2>2, <2>6
    <2> QED BY <2>6, <2>7
  <1>3. CASE ~StartCall /\ ~CommitNext /\ ~CompleteNext /\ ~ContextRefused
    <2>1. UNCHANGED <<trace, started, committed>>
      BY <1>3 DEF Next, Scheduler, Bodies, AllExecuted, StartGroup, ClassifyThrows, FillStops, StartThrows,
                  Prepared, PrepareThrows, Fail, RaceSettles, CommitThrows, CommitDone, SkipFrom,
                  GroupDone, GroupAborted, Drained, CompletionEnds, DispatchFails, DispatchSettles,
                  Abort, LoseOwnership
    <2> QED BY <2>1
  <1> QED BY <1>1, <1>2, <1>3

LEMMA LookStep ==
  ASSUME SchedulerInv, Next
  PROVE  LooksFirst'
  <1> LooksFirst /\ signal \in BOOLEAN /\ aborted \in BOOLEAN
    BY DEF SchedulerInv, TypeOK
  <1>1. CASE StartGroup \/ CommitDone
    BY <1>1 DEF StartGroup, CommitDone, LooksFirst
  <1>2. CASE Abort
    BY <1>2 DEF Abort, Awaiting, LooksFirst
  <1>3. CASE ~StartGroup /\ ~CommitDone /\ ~Abort
    <2>1. UNCHANGED <<signal, aborted>> /\ (pc' = "fill" => pc = "fill")
      BY <1>3 DEF Next, Scheduler, Bodies, AllExecuted, ClassifyThrows, FillStops, StartCall, StartThrows,
                  Prepared, PrepareThrows, Fail, RaceSettles, CommitNext, CommitThrows, ContextRefused,
                  GroupDone, GroupAborted, Drained, CompleteNext, CompletionEnds, DispatchFails,
                  DispatchSettles, LoseOwnership
    <2> QED BY <2>1 DEF LooksFirst
  <1> QED BY <1>1, <1>2, <1>3

LEMMA PoolStep ==
  ASSUME SchedulerInv, Next
  PROVE  PoolStands'
  <1> /\ NCalls \in Nat /\ Calls = 1..NCalls /\ started \in 0..NCalls /\ committed \in 0..started
      /\ first \in 1..(NCalls + 1) /\ last \in 0..NCalls
      /\ slot \in [Calls -> {"none", "post", "final"}] /\ failure \in BOOLEAN
      /\ inFlight \subseteq 1..started /\ settled \subseteq 1..started
    BY SchedulerAssumption DEF SchedulerInv, TypeOK, Calls
  <1> GroupStands /\ PoolStands
    BY DEF SchedulerInv
  <1> USE DEF PoolStands, GroupPoints, groupVars, progress, poolVars, Next1
  <1>1. CASE AllExecuted \/ ClassifyThrows \/ GroupAborted \/ CompletionEnds
    BY <1>1 DEF AllExecuted, ClassifyThrows, GroupAborted, CompletionEnds
  <1>2. CASE StartGroup
    BY <1>2 DEF StartGroup, GroupStands
  <1>3. CASE FillStops
    <2>1. UNCHANGED <<started, committed, slot, inFlight, settled, failure>> /\ pc = "fill"
          /\ pc' = IF inFlight = {} THEN "grouped" ELSE "race"
      BY <1>3 DEF FillStops
    <2>2. inFlight = {} => committed = started
      BY <2>1
    <2> QED BY <2>1, <2>2
  <1>4. CASE StartCall
    <2>1. UNCHANGED <<committed, slot, inFlight, settled, failure>> /\ pc = "fill" /\ pc' = "preparing"
          /\ started' = started + 1
      BY <1>4 DEF StartCall
    <2>2. started + 1 \in Calls /\ slot[started + 1] = "none" /\ started + 1 \notin inFlight
      <3>1. started' \in 0..NCalls
        BY TypeStep DEF TypeOK
      <3> QED BY <2>1, <3>1
    <2> QED BY <2>1, <2>2
  <1>5. CASE StartThrows \/ PrepareThrows
    BY <1>5 DEF StartThrows, PrepareThrows, Fail
  <1>6. ASSUME NEW kind \in {"dispatch", "post", "final"}, Prepared(kind)  PROVE PoolStands'
    <2>1. CASE kind = "dispatch"
      BY <1>6, <2>1 DEF Prepared
    <2>2. CASE kind \in {"post", "final"}
      BY <1>6, <2>2 DEF Prepared
    <2> QED BY <2>1, <2>2
  <1>7. ASSUME NEW i \in Calls, RaceSettles(i)  PROVE PoolStands'
    BY <1>7 DEF RaceSettles
  <1>8. CASE CommitNext \/ CompleteNext
    <2>1. UNCHANGED <<pc, started, slot, inFlight, settled, failure>> /\ pc \in {"commit", "completing"}
          /\ committed' = committed + 1
      BY <1>8 DEF CommitNext, CompleteNext
    <2> QED BY <2>1
  <1>9. CASE CommitThrows \/ ContextRefused
    BY <1>9 DEF CommitThrows, ContextRefused, CommitFails
  <1>10. CASE CommitDone
    <2>1. UNCHANGED <<started, committed, slot, inFlight, settled, failure>> /\ pc = "commit" /\ ~Ready
          /\ pc' = IF failure THEN "draining" ELSE "fill"
      BY <1>10 DEF CommitDone
    <2>2. committed = started \/ slot[committed + 1] = "none"
      BY <2>1 DEF Ready, GroupStands
    <2> QED BY <2>1, <2>2
  <1>11. CASE GroupDone \/ Drained
    <2>1. CASE GroupDone
      BY <2>1 DEF GroupDone
    <2>2. CASE Drained
      BY <2>2 DEF Drained
    <2> QED BY <1>11, <2>1, <2>2
  <1>12. ASSUME NEW i \in Calls, NEW kind \in {"post", "final"}, pc # "fill", Running, DispatchSettles(i, kind)
         PROVE  PoolStands'
    <2>1. /\ UNCHANGED <<pc, started, committed, inFlight, failure>> /\ i \in inFlight /\ i \notin settled
          /\ settled' = settled \cup {i} /\ slot' = [slot EXCEPT ![i] = kind]
      BY <1>12 DEF DispatchSettles
    <2>2. \A j \in Calls : slot'[j] = IF j = i THEN kind ELSE slot[j]
      BY <2>1
    <2>3. pc \notin {"classify", "fill", "grouped", "completing", "returned", "threw"}
      BY <1>12, <2>1 DEF Running
    <2>4. \A j \in Calls : slot[j] # "none" => slot'[j] # "none"
      BY <2>2
    <2>5. \A j \in Calls : slot'[j] # "none" => j \notin inFlight \ settled'
      BY <2>1, <2>2
    <2>6. \A j \in settled' : slot'[j] # "none" \/ failure
      BY <2>1, <2>2
    <2>7. \A j \in Calls : started < j => slot'[j] = "none"
      BY <2>1, <2>2
    <2>8. pc = "preparing" => slot'[started] = "none" /\ started \notin inFlight
      BY <2>1, <2>2
    <2>9. \A j \in Calls : committed < j /\ j <= started =>
            slot'[j] # "none" \/ j \in inFlight \/ failure \/ (pc = "preparing" /\ j = started)
      <3>1. pc \in GroupPoints
        BY <2>3 DEF SchedulerInv, TypeOK, Points
      <3> QED BY <2>4, <3>1
    <2> QED BY <2>1, <2>3, <2>5, <2>6, <2>7, <2>8, <2>9
  <1>13. ASSUME NEW i \in Calls, pc # "fill", Running, DispatchFails(i)  PROVE PoolStands'
    BY <1>13 DEF DispatchFails, Running
  <1>14. CASE Abort \/ LoseOwnership
    <2>1. UNCHANGED <<pc, started, committed, slot, inFlight, settled, failure>>
      BY <1>14 DEF Abort, LoseOwnership
    <2> QED BY <2>1
  <1> QED BY <1>1, <1>2, <1>3, <1>4, <1>5, <1>6, <1>7, <1>8, <1>9, <1>10, <1>11, <1>12, <1>13, <1>14
          DEF Next, Scheduler, Bodies, Awaiting

\* Committing a call, or failing to after its result, keeps the order.
LEMMA Logged ==
  ASSUME SchedulerInv, CommitNext \/ CompleteNext \/ ContextRefused
  PROVE  /\ Next1 \in Calls /\ Next1 <= started
         /\ results' \in Results /\ InOrder(results')
         /\ \A c \in Calls : HasResult(results, c) \/ c = Next1 => HasResult(results', c)
         /\ \A k \in 1..Len(results') :
              results'[k][1] = Next1 \/ \E j \in 1..Len(results) : results'[k][1] = results[j][1]
  <1> DEFINE Extends(s) == /\ s \in Results /\ InOrder(s)
                           /\ \A c \in Calls : HasResult(results, c) \/ c = Next1 => HasResult(s, c)
                           /\ \A k \in 1..Len(s) :
                                s[k][1] = Next1 \/ \E j \in 1..Len(results) : s[k][1] = results[j][1]
             One == Append(results, <<Next1, "tool">>)
             Unknown == Append(results, <<Next1, "unknown">>)
             Two == Append(One, <<Next1, "unknown">>)
  <1>1. Next1 \in Calls /\ Next1 <= started
    <2>1. CASE CommitNext \/ ContextRefused
      BY <2>1, ReadyStarted DEF CommitNext, ContextRefused, GroupPoints
    <2>2. CASE CompleteNext
      <3>1. NCalls \in Nat /\ Calls = 1..NCalls /\ started \in 0..NCalls /\ committed \in 0..started
        BY SchedulerAssumption DEF SchedulerInv, TypeOK, Calls
      <3>2. committed < started
        BY <2>2 DEF CompleteNext
      <3> QED BY <3>1, <3>2 DEF Next1
    <2> QED BY <2>1, <2>2
  <1>2. results \in Results /\ InOrder(results) /\ \A k \in 1..Len(results) : results[k][1] <= Next1
    BY <1>1, NextResult DEF CommitNext, CompleteNext, ContextRefused
  <1>3. ASSUME NEW o \in Origins  PROVE Extends(Append(results, <<Next1, o>>))
    <2> DEFINE t == Append(results, <<Next1, o>>)
    <2>1. /\ t \in Results /\ InOrder(t)
          /\ \A c \in Calls : HasResult(t, c) <=> HasResult(results, c) \/ c = Next1
          /\ \A k \in 1..Len(t) : t[k][1] = Next1 \/ \E j \in 1..Len(results) : t[k][1] = results[j][1]
      BY <1>1, <1>2, OneMore
    <2> HIDE DEF t
    <2>2. Extends(t)
      BY <2>1
    <2> QED BY <2>2 DEF t
  <1>4. Extends(One) /\ Extends(Unknown)
    <2> HIDE DEF Extends
    <2> QED BY <1>3 DEF Origins
  <1>5. Extends(Two)
    <2> HIDE DEF One
    <2>1. One \in Results /\ InOrder(One) /\ \A k \in 1..Len(One) : One[k][1] <= Next1
      <3>1. Next1 <= Next1
        BY <1>1, SchedulerAssumption DEF Calls
      <3> QED BY <1>2, <1>4, <3>1
    <2>2. /\ Two \in Results /\ InOrder(Two)
          /\ \A c \in Calls : HasResult(Two, c) <=> HasResult(One, c) \/ c = Next1
          /\ \A k \in 1..Len(Two) : Two[k][1] = Next1 \/ \E j \in 1..Len(One) : Two[k][1] = One[j][1]
      BY <1>1, <2>1, OneMore DEF Origins
    <2> HIDE DEF Two
    <2>3. ASSUME NEW c \in Calls, HasResult(results, c) \/ c = Next1  PROVE HasResult(Two, c)
      BY <1>4, <2>2, <2>3
    <2>4. ASSUME NEW k \in 1..Len(Two)
          PROVE  Two[k][1] = Next1 \/ \E j \in 1..Len(results) : Two[k][1] = results[j][1]
      <3>1. CASE Two[k][1] = Next1
        BY <3>1
      <3>2. ASSUME NEW j \in 1..Len(One), Two[k][1] = One[j][1]
            PROVE  Two[k][1] = Next1 \/ \E l \in 1..Len(results) : Two[k][1] = results[l][1]
        <4>1. One[j][1] = Next1 \/ \E l \in 1..Len(results) : One[j][1] = results[l][1]
          BY <1>4
        <4> QED BY <3>2, <4>1
      <3> QED BY <2>2, <3>1, <3>2
    <2> QED BY <2>2, <2>3, <2>4
  <1>6. results' = One \/ results' = Unknown \/ results' = Two
    BY DEF CommitNext, CompleteNext, ContextRefused, LogResult
  <1> HIDE DEF One, Unknown, Two
  <1>7. Extends(results')
    BY <1>4, <1>5, <1>6
  <1> QED BY <1>1, <1>7

\* What is skipped when the execution ends was not started.
LEMMA Skipped ==
  ASSUME SchedulerInv, ClassifyThrows \/ GroupAborted \/ CompletionEnds
  PROVE  /\ ~Live => results' = results
         /\ Live => /\ InOrder(results')
                    /\ \A c \in Calls : HasResult(results, c) \/ started < c => HasResult(results', c)
                    /\ \A k \in 1..Len(results') :
                         results'[k][1] > started \/ \E j \in 1..Len(results) : results'[k][1] = results[j][1]
  <1>1. SkipFrom(started + 1) /\ Running
    BY DEF ClassifyThrows, GroupAborted, CompletionEnds, SchedulerInv, GroupStands, Running
  <1>2. /\ NCalls \in Nat /\ Calls = 1..NCalls /\ started \in 0..NCalls
        /\ started + 1 \in 1..(NCalls + 1) /\ results \in Results
    BY SchedulerAssumption DEF SchedulerInv, TypeOK, Calls, Results
  <1>3. CASE ~Live
    BY <1>1, <1>3 DEF SkipFrom
  <1>4. CASE Live
    <2> DEFINE t == results \o [j \in 1..(NCalls - (started + 1) + 1) |-> <<started + 1 + j - 1, "skipped">>]
    <2>1. results' = t
      BY <1>1, <1>4 DEF SkipFrom
    <2>2. InOrder(results) /\ \A k \in 1..Len(results) : results[k][1] < started + 1
      <3>1. \A k \in 1..Len(results) : results[k][1] <= started /\ results[k][1] \in Nat
        BY <1>1, <1>2 DEF SchedulerInv, ResultsStand, Results
      <3> QED BY <1>2, <3>1 DEF SchedulerInv, InModelOrder, InOrder
    <2>3. /\ t \in Results /\ InOrder(t)
          /\ \A c \in Calls : HasResult(results, c) \/ started + 1 <= c => HasResult(t, c)
          /\ \A k \in 1..Len(t) : t[k][1] >= started + 1 \/ \E j \in 1..Len(results) : t[k][1] = results[j][1]
      BY <1>2, <2>2, Skipping
    <2> HIDE DEF t
    <2>4. \A k \in 1..Len(t) : t[k][1] \in Nat
      BY <1>2, <2>3 DEF Results
    <2>5. \A c \in Calls : started < c => started + 1 <= c
      BY <1>2
    <2>6. \A k \in 1..Len(t) : t[k][1] >= started + 1 => t[k][1] > started
      BY <1>2, <2>4
    <2> QED BY <1>4, <2>1, <2>3, <2>5, <2>6
  <1> QED BY <1>3, <1>4

\* All other steps leave the results alone.
LEMMA Silent ==
  ASSUME Next, ~CommitNext, ~CompleteNext, ~ContextRefused, ~ClassifyThrows, ~GroupAborted, ~CompletionEnds
  PROVE  UNCHANGED <<results, committed>> /\ (started' = started \/ started' = started + 1)
  BY DEF Next, Scheduler, Bodies, AllExecuted, StartGroup, FillStops, StartCall, StartThrows, Prepared,
         PrepareThrows, Fail, RaceSettles, CommitThrows, CommitDone, GroupDone, Drained, DispatchFails,
         DispatchSettles, Abort, LoseOwnership, logVars, progress

LEMMA ResultStep ==
  ASSUME SchedulerInv, Next
  PROVE  ResultsStand' /\ InModelOrder'
  <1> /\ NCalls \in Nat /\ Calls = 1..NCalls /\ started \in 0..NCalls /\ committed \in 0..started
    BY SchedulerAssumption DEF SchedulerInv, TypeOK, Calls
  <1> \A k \in 1..Len(results) : results[k][1] \in Nat
    BY ResultsNumbered DEF SchedulerInv
  <1> ResultsStand /\ InModelOrder /\ PoolStands
    BY DEF SchedulerInv
  <1> USE DEF ResultsStand, Running
  <1>1. CASE CommitNext \/ CompleteNext \/ ContextRefused
    <2>1. /\ Next1 \in Calls /\ Next1 <= started
          /\ results' \in Results /\ InOrder(results')
          /\ \A c \in Calls : HasResult(results, c) \/ c = Next1 => HasResult(results', c)
          /\ \A k \in 1..Len(results') :
              results'[k][1] = Next1 \/ \E j \in 1..Len(results) : results'[k][1] = results[j][1]
      BY <1>1, Logged
    <2>2. \/ pc \in {"commit", "completing"} /\ pc' = pc /\ committed' = committed + 1
          \/ pc = "commit" /\ pc' = "draining" /\ committed' = committed
      <3>1. CASE CommitNext
        BY <3>1 DEF CommitNext, Next1
      <3>2. CASE CompleteNext
        BY <3>2 DEF CompleteNext, Next1
      <3>3. CASE ContextRefused
        BY <3>3 DEF ContextRefused, progress
      <3> QED BY <1>1, <3>1, <3>2, <3>3
    <2>3. started' = started
      BY <1>1 DEF CommitNext, CompleteNext, ContextRefused, progress
    <2>4. \A k \in 1..Len(results) : results[k][1] <= started
            /\ (results[k][1] <= committed \/ (pc = "completing" /\ results[k][1] = committed + 1))
      BY <2>2
    <2>5. \A k \in 1..Len(results') : results'[k][1] <= started'
            /\ (results'[k][1] <= committed' \/ (pc' = "draining" /\ results'[k][1] = committed' + 1))
      <3> SUFFICES ASSUME NEW k \in 1..Len(results')
                   PROVE  results'[k][1] <= started'
                          /\ (results'[k][1] <= committed' \/ (pc' = "draining" /\ results'[k][1] = committed' + 1))
        OBVIOUS
      <3>1. CASE results'[k][1] = Next1
        BY <2>1, <2>2, <2>3, <3>1 DEF Next1
      <3>2. CASE \E j \in 1..Len(results) : results'[k][1] = results[j][1]
        <4>1. PICK j \in 1..Len(results) : results'[k][1] = results[j][1]
          BY <3>2
        <4>2. results[j][1] \in Nat
          OBVIOUS
        <4> QED BY <2>2, <2>3, <2>4, <4>1, <4>2
      <3> QED BY <2>1, <3>1, <3>2
    <2>6. \A c \in Calls : c <= committed' => HasResult(results', c)
      BY <2>1, <2>2 DEF Next1
    <2> QED BY <2>1, <2>5, <2>6 DEF InOrder, InModelOrder
  <1>2. CASE ClassifyThrows \/ GroupAborted \/ CompletionEnds
    <2>1. pc' \in {"returned", "threw"} /\ committed' = committed
      BY <1>2 DEF ClassifyThrows, GroupAborted, CompletionEnds, progress
    <2>2. CASE ~Live
      <3>1. results' = results
        BY <1>2, <2>2, Skipped
      <3> QED BY <2>1, <3>1 DEF InModelOrder
    <2>3. CASE Live
      <3>1. InOrder(results') /\ \A c \in Calls : HasResult(results, c) => HasResult(results', c)
        BY <1>2, <2>3, Skipped
      <3> QED BY <2>1, <3>1 DEF InOrder, InModelOrder
    <2> QED BY <2>2, <2>3
  <1>3. CASE /\ ~CommitNext /\ ~CompleteNext /\ ~ContextRefused
             /\ ~ClassifyThrows /\ ~GroupAborted /\ ~CompletionEnds
    <2>1. UNCHANGED <<results, committed>> /\ (started' = started \/ started' = started + 1)
      BY <1>3, Silent
    <2>2. pc \in {"draining", "completing"} => pc' \in {"draining", "completing"}
      BY <1>3 DEF Next, Scheduler, Bodies, AllExecuted, StartGroup, FillStops, StartCall, StartThrows, Prepared,
         PrepareThrows, Fail, RaceSettles, CommitThrows, CommitDone, GroupDone, Drained, DispatchFails,
         DispatchSettles, Abort, LoseOwnership
    <2>3. Running' => Running
      BY <1>3 DEF Next, Scheduler, Bodies, AllExecuted, StartGroup, FillStops, StartCall, StartThrows, Prepared,
         PrepareThrows, Fail, RaceSettles, CommitThrows, CommitDone, GroupDone, Drained, DispatchFails,
         DispatchSettles, Abort, LoseOwnership
    <2>4. ResultsStand'
      BY <2>1, <2>2, <2>3
    <2> QED BY <2>1, <2>4 DEF InModelOrder
  <1> QED BY <1>1, <1>2, <1>3

LEMMA PairStep ==
  ASSUME SchedulerInv, Next
  PROVE  PairedAtEnd'
  <1> /\ NCalls \in Nat /\ Calls = 1..NCalls /\ started \in 0..NCalls /\ committed \in 0..started
      /\ first \in 1..(NCalls + 1)
    BY SchedulerAssumption DEF SchedulerInv, TypeOK, Calls
  <1>1. \A i \in Calls : i <= committed => HasResult(results, i)
    BY DEF SchedulerInv, ResultsStand
  <1>2. ASSUME committed = started, UNCHANGED trace  PROVE trace'.pendingCalls = {}
    <2>1. \A i \in trace.pendingCalls : i \in Calls /\ committed < i /\ i <= started
      BY DEF SchedulerInv, TypeOK, TraceStands, Traces
    <2> QED BY <1>2, <2>1
  <1>3. CASE AllExecuted
    <2>1. committed = started /\ started = NCalls /\ UNCHANGED <<trace, results>>
      BY <1>3 DEF AllExecuted, SchedulerInv, GroupStands, logVars
    <2> QED BY <1>1, <1>2, <2>1 DEF PairedAtEnd, HasResult
  <1>4. CASE ClassifyThrows \/ GroupAborted \/ CompletionEnds
    <2>1. fenced' = fenced /\ UNCHANGED trace
      BY <1>4 DEF ClassifyThrows, GroupAborted, CompletionEnds
    <2>2. CASE fenced
      BY <2>1, <2>2 DEF PairedAtEnd
    <2>3. CASE ~fenced
      <3>1. committed = started
        BY <1>4, <2>3 DEF ClassifyThrows, GroupAborted, CompletionEnds, SchedulerInv, GroupStands, PoolStands
      <3>2. \A c \in Calls : HasResult(results, c) \/ started < c => HasResult(results', c)
        BY <1>4, <2>3, Skipped DEF Live
      <3>3. \A c \in Calls : HasResult(results', c)
        BY <1>1, <3>1, <3>2
      <3> QED BY <1>2, <2>1, <3>1, <3>3 DEF PairedAtEnd, HasResult
    <2> QED BY <2>2, <2>3
  <1>5. CASE ~AllExecuted /\ ~ClassifyThrows /\ ~GroupAborted /\ ~CompletionEnds
    <2>1. Running'
      BY <1>5 DEF Next, Scheduler, Bodies, StartGroup, FillStops, StartCall, StartThrows, Prepared,
         PrepareThrows, Fail, RaceSettles, CommitNext, CommitThrows, ContextRefused, CommitDone, GroupDone,
         Drained, CompleteNext, DispatchFails, DispatchSettles, Abort, LoseOwnership, Running, Awaiting
    <2> QED BY <2>1 DEF PairedAtEnd
  <1> QED BY <1>3, <1>4, <1>5

LEMMA BodyStep ==
  ASSUME SchedulerInv, Next
  PROVE  NoBodyOutlivesItsResult'
  <1> /\ NCalls \in Nat /\ Calls = 1..NCalls /\ started \in 0..NCalls /\ committed \in 0..started
      /\ inFlight \subseteq 1..started /\ settled \subseteq 1..started
    BY SchedulerAssumption DEF SchedulerInv, TypeOK, Calls
  <1> \A k \in 1..Len(results) : results[k][1] \in Nat
    BY ResultsNumbered DEF SchedulerInv
  <1> NoBodyOutlivesItsResult /\ PoolStands
    BY DEF SchedulerInv
  <1> USE DEF NoBodyOutlivesItsResult
  <1>1. ~Running' => inFlight' \subseteq settled'
    BY PoolStep, TypeStep DEF PoolStands, Running, TypeOK, Points
  <1>2. CASE CommitNext \/ CompleteNext \/ ContextRefused
    <2>1. /\ Next1 \in Calls
          /\ \A k \in 1..Len(results') :
               results'[k][1] = Next1 \/ \E j \in 1..Len(results) : results'[k][1] = results[j][1]
      BY <1>2, Logged
    <2>2. UNCHANGED <<inFlight, settled>>
      BY <1>2 DEF CommitNext, CompleteNext, ContextRefused, poolVars
    <2>3. Next1 \notin inFlight \ settled
      <3>1. CASE CommitNext \/ ContextRefused
        BY <2>1, <3>1 DEF CommitNext, ContextRefused, Ready, PoolStands
      <3>2. CASE CompleteNext
        BY <3>2 DEF CompleteNext, PoolStands
      <3> QED BY <1>2, <3>1, <3>2
    <2> QED BY <1>1, <2>1, <2>2, <2>3
  <1>3. CASE ClassifyThrows \/ GroupAborted \/ CompletionEnds
    <2>1. UNCHANGED <<inFlight, settled>>
      BY <1>3 DEF ClassifyThrows, GroupAborted, CompletionEnds, poolVars
    <2>2. inFlight \subseteq settled
      BY <1>3 DEF ClassifyThrows, GroupAborted, CompletionEnds, PoolStands
    <2> QED BY <1>1, <2>1, <2>2
  <1>4. ASSUME NEW kind \in {"dispatch", "post", "final"}, Prepared(kind)  PROVE NoBodyOutlivesItsResult'
    <2>1. /\ pc = "preparing" /\ pc' = "commit" /\ UNCHANGED <<results, settled>>
          /\ inFlight' \subseteq inFlight \cup {started}
      BY <1>4 DEF Prepared, logVars
    <2>2. \A k \in 1..Len(results) : results[k][1] < started
      <3>1. committed < started
        BY <2>1 DEF PoolStands
      <3>2. \A k \in 1..Len(results) : results[k][1] <= committed
        BY <2>1 DEF SchedulerInv, ResultsStand, Running
      <3> QED BY <3>1, <3>2
    <2>3. \A k \in 1..Len(results) : results[k][1] # started
      BY <2>2
    <2> QED BY <1>1, <2>1, <2>3
  <1>5. CASE /\ ~CommitNext /\ ~CompleteNext /\ ~ContextRefused
             /\ ~ClassifyThrows /\ ~GroupAborted /\ ~CompletionEnds
             /\ \A kind \in {"dispatch", "post", "final"} : ~Prepared(kind)
    <2>1. results' = results
      BY <1>5, Silent
    <2>2. inFlight' \subseteq inFlight /\ settled \subseteq settled'
      BY <1>5 DEF Next, Scheduler, Bodies, AllExecuted, StartGroup, FillStops, StartCall, StartThrows,
         PrepareThrows, Fail, RaceSettles, CommitThrows, CommitDone, GroupDone, Drained, DispatchFails,
         DispatchSettles, Abort, LoseOwnership, poolVars
    <2> QED BY <1>1, <2>1, <2>2
  <1> QED BY <1>2, <1>3, <1>4, <1>5

LEMMA Stutter ==
  ASSUME SchedulerInv, UNCHANGED vars
  PROVE  SchedulerInv'
  <1>1. UNCHANGED <<pc, mode, first, last, started, committed, slot, inFlight, settled, attempted, failure,
                    signal, aborted, accepted, trace, results, fenced>>
    BY DEF vars, groupVars, progress, poolVars, logVars
  <1>2. TypeOK' /\ GroupStands' /\ PoolStands' /\ LooksFirst'
    BY <1>1 DEF SchedulerInv, TypeOK, GroupStands, PoolStands, LooksFirst, Next1
  <1>3. TraceStands' /\ ResultsStand'
    BY <1>1 DEF SchedulerInv, TraceStands, ResultsStand, Running
  <1>4. InModelOrder' /\ PairedAtEnd' /\ ExclusiveIsBarrier' /\ NoBodyOutlivesItsResult'
    BY <1>1 DEF SchedulerInv, InModelOrder, PairedAtEnd, ExclusiveIsBarrier, NoBodyOutlivesItsResult, Running
  <1> QED BY <1>2, <1>3, <1>4 DEF SchedulerInv

LEMMA Starts ==
  ASSUME Init  PROVE SchedulerInv
  <1>1. NCalls \in Nat /\ Calls = 1..NCalls /\ 1 <= NCalls /\ InboxRoom \in Nat
    BY SchedulerAssumption DEF Calls
  <1>2. trace \in Traces(Calls) /\ trace.openTurn = 1 /\ trace.openStep = 1 /\ trace.pendingCalls = {}
    BY DEF Init, OpenStep, EmptyTrace, Traces
  <1>3. results \in Seq(Calls \X Origins) /\ Len(results) = 0
    BY DEF Init
  <1>4. TypeOK
    <2>1. slot \in [Calls -> {"none", "post", "final"}] /\ accepted \in 0..InboxRoom
      BY <1>1 DEF Init
    <2>2. /\ first \in 1..(NCalls + 1) /\ last \in 0..NCalls /\ started \in 0..NCalls /\ committed \in 0..started
      BY <1>1 DEF Init
    <2>3. inFlight = {} /\ settled = {} /\ attempted = {} /\ pc \in Points /\ mode \in [Calls -> {"parallel", "exclusive"}]
      BY DEF Init, Points
    <2>4. failure \in BOOLEAN /\ signal \in BOOLEAN /\ aborted \in BOOLEAN /\ fenced \in BOOLEAN
      BY Zenon DEF Init
    <2> QED BY <1>2, <1>3, <2>1, <2>2, <2>3, <2>4 DEF TypeOK
  <1>5. GroupStands /\ PoolStands /\ LooksFirst /\ TraceStands
    BY <1>1, <1>2 DEF Init, GroupStands, PoolStands, LooksFirst, TraceStands, GroupPoints
  <1>6. ResultsStand
    BY <1>1, <1>3 DEF Init, ResultsStand, Running
  <1>7. PairedAtEnd /\ ExclusiveIsBarrier
    BY <1>1 DEF Init, PairedAtEnd, ExclusiveIsBarrier, Running
  <1>8. InModelOrder /\ NoBodyOutlivesItsResult
    <2>1. 1..Len(results) = {}
      BY <1>3
    <2>2. pc = "classify" /\ inFlight = {}
      BY DEF Init
    <2> QED BY <2>1, <2>2 DEF InModelOrder, NoBodyOutlivesItsResult, Running
  <1> QED BY <1>4, <1>5, <1>6, <1>7, <1>8 DEF SchedulerInv

-----------------------------------------------------------------------------
(* The theorems. *)

\* Every reachable state keeps the whole invariant.
THEOREM SchedulerInvariant == Spec => []SchedulerInv
  <1>1. Init => SchedulerInv
    BY Starts
  <1>2. SchedulerInv /\ [Next]_vars => SchedulerInv'
    BY TypeStep, GroupStep, PoolStep, LookStep, TraceStep, ResultStep, PairStep, BarrierStep, BodyStep, Stutter
       DEF SchedulerInv
  <1> QED BY <1>1, <1>2, PTL DEF Spec

\* Every call of the assistant message has its result when executeToolCalls ends
\* unfenced, in the message's order, whatever stage fails and when the abort comes.
THEOREM CallsAreAnswered == Spec => []ResultsPaired
  <1>1. SchedulerInv => ResultsPaired
    BY DEF SchedulerInv, ResultsPaired
  <1> QED BY <1>1, SchedulerInvariant, PTL

\* fillPool never lets an exclusive call overlap another.
THEOREM ExclusiveCallsAreBarriers == Spec => []ExclusiveIsBarrier
  <1>1. SchedulerInv => ExclusiveIsBarrier
    BY DEF SchedulerInv
  <1> QED BY <1>1, SchedulerInvariant, PTL

\* executeToolCalls answers no call and does not settle while its body runs.
THEOREM BodiesAreAwaited == Spec => []NoBodyOutlivesItsResult
  <1>1. SchedulerInv => NoBodyOutlivesItsResult
    BY DEF SchedulerInv
  <1> QED BY <1>1, SchedulerInvariant, PTL

\* No step starts a body after a failure, or a call after the abort.
THEOREM StartsAreInTime == Spec => NothingStartsLate
  <1> DEFINE InTime == (failure => inFlight' \subseteq inFlight) /\ (signal => started' = started)
  <1>1. ASSUME SchedulerInv, Next  PROVE InTime
    <2>1. ASSUME NEW kind \in {"dispatch", "post", "final"}, Prepared(kind)  PROVE InTime
      BY <2>1 DEF Prepared, progress
    <2>2. CASE StartCall
      <3>1. ~aborted /\ pc = "fill" /\ UNCHANGED inFlight
        BY <2>2 DEF StartCall, PoolStops, PoolFull, poolVars
      <3>2. ~signal
        <4>1. signal \in BOOLEAN /\ aborted \in BOOLEAN /\ LooksFirst
          BY <1>1 DEF SchedulerInv, TypeOK
        <4> QED BY <3>1, <4>1 DEF LooksFirst
      <3> QED BY <3>1, <3>2
    <2>3. CASE ~StartCall /\ \A kind \in {"dispatch", "post", "final"} : ~Prepared(kind)
      <3> SUFFICES inFlight' \subseteq inFlight /\ started' = started
        OBVIOUS
      <3> QED BY <1>1, <2>3 DEF Next, Scheduler, Bodies, AllExecuted, StartGroup, ClassifyThrows, FillStops, StartThrows,
         PrepareThrows, Fail, RaceSettles, CommitNext, CommitThrows, ContextRefused, CommitDone,
         GroupDone, GroupAborted, Drained, CompleteNext, CompletionEnds, DispatchFails,
         DispatchSettles, Abort, LoseOwnership, poolVars, progress
    <2> QED BY <1>1, <2>1, <2>2, <2>3
  <1>2. SchedulerInv /\ [Next]_vars => [InTime]_vars
    BY <1>1
  <1> QED BY <1>2, SchedulerInvariant, PTL DEF Spec, NothingStartsLate

=============================================================================
