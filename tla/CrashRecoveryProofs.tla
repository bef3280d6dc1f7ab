------------------------ MODULE CrashRecoveryProofs ------------------------
(***************************************************************************)
(* Proofs about CrashRecovery: a repaired log is a sound log, however often *)
(* and wherever the process, an append or a repair is cut.                  *)
(*                                                                         *)
(* The model reads a log with three folds (the repair's cursor, the         *)
(* companion check, the transcript check).  First, what a fold makes of one *)
(* more event; then Sound, what the three readings agree on, and that each  *)
(* event the loop appends keeps it; then that the closers complete a sound  *)
(* log; last, the inductive invariant IInv and the theorems.                *)
(***************************************************************************)
EXTENDS CrashRecovery, SequenceTheorems, WellFoundedInduction, TLAPS

-----------------------------------------------------------------------------
(* Folds.  A fold's value on a sequence with one more element is one step from
   its value on the sequence: FoldLeft iterates over sets of indices, and the
   number of indices is well founded. *)

\* A set of numbers has a least one.

LEMMA LeastNumber ==
  ASSUME NEW T \in SUBSET Nat, T # {}
  PROVE  \E n \in T : \A m \in T : n <= m
  <1> DEFINE R == {ss \in Nat \X Nat : ss[1] < ss[2]}
  <1>1. IsWellFoundedOn(R, Nat)
    BY NatLessThanWellFounded DEF OpToRel
  <1>2. PICK n \in T : \A m \in T : ~(<<m, n>> \in R)
    BY <1>1, WFMin
  <1>3. \A m \in T : <<m, n>> \in R <=> m < n
    OBVIOUS
  <1>4. n \in Nat /\ \A m \in T : m \in Nat
    OBVIOUS
  <1> HIDE DEF R
  <1>5. \A m \in T : ~(m < n)
    BY <1>2, <1>3
  <1> QED BY <1>4, <1>5

\* A fold's setting: it starts at b and g takes a value of S and an element of E to a
\* value of S.
Folds(S, E, b, g) == b \in S /\ g \in [S \X E -> S]

\* r agrees with s on the first n elements; r is s with e appended.
SameUpTo(s, r, n) == \A j \in 1..n : s[j] = r[j]
Extends(r, s, e) == r = Append(s, e)

\* it iterates g from b over the elements of s at sets of indices up to n, the way
\* FoldLeft does, as long as it stays among the values S.
Iterates(it, n, S, b, g, s) ==
  /\ it[{}] = b
  /\ \A t \in SUBSET (1..n) :
       t # {} /\ it[t \ {Max(t)}] \in S => it[t] = g[<<it[t \ {Max(t)}], s[Max(t)]>>]

LEMMA MaxIndex ==
  ASSUME NEW k \in Nat \ {0}, NEW t \in SUBSET (1..k), k \in t
  PROVE  Max(t) = k /\ t \ {k} \in SUBSET (1..(k - 1))
  <1>1. \A x \in t : (\A y \in t : x >= y) <=> x = k
    OBVIOUS
  <1>2. Max(t) = k
    BY <1>1 DEF Max
  <1> QED BY <1>2

LEMMA MaxBelow ==
  ASSUME NEW n \in Nat, NEW t \in SUBSET (1..n), t # {}
  PROVE  Max(t) \in t
  <1> DEFINE T == {k \in 0..n : \A y \in t : k >= y}
             U == {k \in Nat : \A y \in t : k >= y}
  <1>1. n \in U
    OBVIOUS
  <1>2. PICK m \in U : \A k \in U : m <= k
    BY <1>1, LeastNumber
  <1>3. m \in t
    <2> SUFFICES ASSUME m \notin t  PROVE FALSE
      OBVIOUS
    <2>1. PICK y \in t : TRUE
      OBVIOUS
    <2>2. m \in Nat /\ m # 0 /\ m - 1 \in Nat
      BY <2>1
    <2>3. \A x \in t : m - 1 >= x
      BY <2>2
    <2>4. m - 1 \in U
      BY <2>2, <2>3
    <2> QED BY <1>2, <2>2, <2>4
  <1>4. \A y \in t : m >= y
    OBVIOUS
  <1> QED BY <1>3, <1>4 DEF Max

LEMMA IterationExists ==
  ASSUME NEW S, NEW E, NEW b, NEW g, Folds(S, E, b, g), NEW s, s \in Seq(E), NEW n, n \in 0..Len(s)
  PROVE  \E it \in [SUBSET (1..n) -> S] : Iterates(it, n, S, b, g, s)
  <1> USE DEF Folds
  <1> DEFINE Iterable(k) == \E it \in [SUBSET (1..k) -> S] : Iterates(it, k, S, b, g, s)
             Bad == {k \in 0..Len(s) : ~Iterable(k)}
  <1> SUFFICES ASSUME Bad # {}  PROVE FALSE
    OBVIOUS
  <1> HIDE DEF Iterable
  <1>1. Bad \in SUBSET Nat
    OBVIOUS
  <1>2. PICK k \in Bad : \A m \in Bad : k <= m
    BY <1>1, LeastNumber
  <1>3. k # 0
    <2>1. ASSUME k = 0  PROVE Iterable(k)
      <3> DEFINE it == [t \in SUBSET (1..k) |-> b]
      <3>1. 1..k = {}
        BY <2>1
      <3>2. it \in [SUBSET (1..k) -> S] /\ Iterates(it, k, S, b, g, s)
        BY <3>1 DEF Iterates
      <3> HIDE DEF it
      <3> QED BY <3>2 DEF Iterable
    <2> QED BY <2>1
  <1>4. k - 1 \in 0..Len(s) /\ k \in 1..Len(s) /\ k - 1 \notin Bad
    BY <1>2, <1>3
  <1>5. PICK f \in [SUBSET (1..(k - 1)) -> S] : Iterates(f, k - 1, S, b, g, s)
    BY <1>4 DEF Iterable
  <1> DEFINE it == [t \in SUBSET (1..k) |-> IF k \in t THEN g[<<f[t \ {k}], s[k]>>] ELSE f[t]]
  <1> HIDE DEF Bad
  <1>6. \A t \in SUBSET (1..k) : k \notin t => t \in SUBSET (1..(k - 1))
    BY <1>4
  <1>7. \A t \in SUBSET (1..k) : k \in t => Max(t) = k /\ t \ {k} \in SUBSET (1..(k - 1))
    <2>1. k \in Nat \ {0}
      BY <1>4
    <2> QED BY <2>1, MaxIndex
  <1>8. s[k] \in E
    BY <1>4
  <1>9. \A x \in S : g[<<x, s[k]>>] \in S
    BY <1>8
  <1>10. \A t \in SUBSET (1..k) : it[t] \in S
    BY <1>6, <1>7, <1>9
  <1>11. it \in [SUBSET (1..k) -> S]
    BY <1>10
  <1>12. ASSUME NEW t \in SUBSET (1..k), t # {}
         PROVE  it[t] = g[<<it[t \ {Max(t)}], s[Max(t)]>>]
    <2>1. CASE k \in t
      <3>1. Max(t) = k /\ t \ {k} \in SUBSET (1..(k - 1)) /\ k \notin t \ {k}
        BY <1>7, <2>1
      <3>2. it[t \ {k}] = f[t \ {k}]
        BY <3>1
      <3> QED BY <2>1, <3>1, <3>2
    <2>2. CASE k \notin t
      <3>1. t \in SUBSET (1..(k - 1)) /\ it[t] = f[t]
        BY <1>6, <2>2
      <3>2. t \ {Max(t)} \in SUBSET (1..(k - 1)) /\ k \notin t \ {Max(t)}
        BY <2>2, <3>1
      <3>3. it[t \ {Max(t)}] = f[t \ {Max(t)}] /\ f[t \ {Max(t)}] \in S
        BY <3>2
      <3> QED BY <1>5, <1>12, <3>1, <3>3 DEF Iterates
    <2> QED BY <2>1, <2>2
  <1>13. Iterates(it, k, S, b, g, s)
    <2>1. {} \in SUBSET (1..(k - 1)) /\ {} \in SUBSET (1..k) /\ k \notin {}
      OBVIOUS
    <2>2. it[{}] = b
      BY <1>5, <2>1 DEF Iterates
    <2> QED BY <1>12, <2>2 DEF Iterates
  <1> HIDE DEF it
  <1>14. k \notin Bad
    BY <1>11, <1>13 DEF Bad, Iterable
  <1> QED BY <1>14

\* Iterations over sequences that agree up to n agree there.
LEMMA IterationsAgree ==
  ASSUME NEW S, NEW E, NEW b, NEW g, Folds(S, E, b, g),
         NEW s, s \in Seq(E), NEW n, n = Len(s), NEW r, SameUpTo(s, r, n),
         NEW k, k \in Nat, n <= k, NEW it, NEW jt, Iterates(it, n, S, b, g, s), Iterates(jt, k, S, b, g, r)
  PROVE  it[1..n] \in S /\ it[1..n] = jt[1..n]
  <1> USE DEF Folds
  <1>0. n \in Nat /\ \A j \in 1..n : s[j] = r[j] /\ s[j] \in E
    BY DEF SameUpTo
  <1> DEFINE Bad == {j \in 0..n : ~(it[1..j] \in S /\ it[1..j] = jt[1..j])}
  <1> SUFFICES ASSUME Bad # {}  PROVE FALSE
    OBVIOUS
  <1>1. Bad \in SUBSET Nat
    BY <1>0
  <1>2. PICK j \in Bad : \A i \in Bad : j <= i
    BY <1>1, LeastNumber
  <1>3. j # 0
    <2>1. 1..0 = {} /\ {} \in SUBSET (1..n) /\ {} \in SUBSET (1..k)
      OBVIOUS
    <2>2. it[{}] = b /\ jt[{}] = b
      BY <2>1 DEF Iterates
    <2> QED BY <2>1, <2>2
  <1>4. j \in 1..n /\ j - 1 \in 0..n /\ j - 1 \notin Bad
    BY <1>0, <1>2, <1>3
  <1>5. it[1..(j - 1)] \in S /\ it[1..(j - 1)] = jt[1..(j - 1)]
    BY <1>4
  <1> HIDE DEF Bad
  <1>6. Max(1..j) = j /\ (1..j) \ {j} = 1..(j - 1) /\ 1..j # {}
    <2>1. j \in Nat \ {0} /\ j \in 1..j
      BY <1>4
    <2>2. Max(1..j) = j
      BY <2>1, MaxIndex
    <2>3. (1..j) \ {j} = 1..(j - 1)
      BY <2>1
    <2> QED BY <2>1, <2>2, <2>3
  <1>7. 1..j \in SUBSET (1..n) /\ 1..j \in SUBSET (1..k)
    BY <1>0, <1>4
  <1>8. it[1..j] = g[<<it[1..(j - 1)], s[j]>>] /\ jt[1..j] = g[<<jt[1..(j - 1)], r[j]>>]
    BY <1>5, <1>6, <1>7 DEF Iterates
  <1>9. s[j] = r[j] /\ s[j] \in E
    BY <1>0, <1>4
  <1>10. j \notin Bad
    BY <1>5, <1>8, <1>9 DEF Bad
  <1> QED BY <1>10

\* An iteration stays among the values, and one more element is one more step.
LEMMA IterationValue ==
  ASSUME NEW S, NEW E, NEW b, NEW g, Folds(S, E, b, g), NEW s, s \in Seq(E),
         NEW it, Iterates(it, Len(s), S, b, g, s)
  PROVE  it[1..Len(s)] \in S
  <1>1. Len(s) \in Nat /\ Len(s) <= Len(s)
    OBVIOUS
  <1>2. SameUpTo(s, s, Len(s))
    BY DEF SameUpTo
  <1> QED BY <1>1, <1>2, IterationsAgree

LEMMA IterationStep ==
  ASSUME NEW S, NEW E, NEW b, NEW g, Folds(S, E, b, g), NEW s, s \in Seq(E), NEW e, e \in E,
         NEW r, Extends(r, s, e),
         NEW it, Iterates(it, Len(s), S, b, g, s), NEW jt, Iterates(jt, Len(r), S, b, g, r)
  PROVE  jt[1..Len(r)] = g[<<it[1..Len(s)], e>>]
  <1> DEFINE n == Len(s)
  <1>1. n \in Nat /\ n + 1 \in Nat /\ n <= n + 1 /\ n + 1 \in Nat \ {0} /\ n + 1 \in 1..(n + 1)
    OBVIOUS
  <1>2. Len(r) = n + 1 /\ r[n + 1] = e /\ \A j \in 1..n : s[j] = r[j] /\ s[j] \in E
    BY DEF Extends
  <1>3. Iterates(jt, n + 1, S, b, g, r) /\ Iterates(it, n, S, b, g, s)
    BY <1>2
  <1>4. it[1..n] \in S
    BY IterationValue
  <1> HIDE DEF n
  <1>5. it[1..n] = jt[1..n]
    <2> DEFINE k == n + 1
    <2>1. k \in Nat /\ n <= k /\ n = Len(s) /\ Iterates(jt, k, S, b, g, r)
      BY <1>1, <1>3 DEF n
    <2>2. SameUpTo(s, r, n)
      BY <1>2 DEF SameUpTo
    <2> HIDE DEF k
    <2> QED BY <1>3, <2>1, <2>2, IterationsAgree
  <1>6. Max(1..(n + 1)) = n + 1
    BY <1>1, MaxIndex
  <1>7. (1..(n + 1)) \ {n + 1} = 1..n
    BY <1>1
  <1>8. jt[1..(n + 1)] = g[<<jt[1..n], r[n + 1]>>]
    <2>1. 1..(n + 1) \in SUBSET (1..(n + 1)) /\ 1..(n + 1) # {} /\ jt[1..n] \in S
      BY <1>1, <1>4, <1>5
    <2> QED BY <1>3, <1>6, <1>7, <2>1 DEF Iterates
  <1> QED BY <1>2, <1>5, <1>8 DEF n

\* The largest index of a set of indices is one of them.
LEMMA LastIndex ==
  ASSUME NEW E, NEW s \in Seq(E), NEW t \in SUBSET (DOMAIN s), t # {}
  PROVE  t \ {Max(t)} \in SUBSET (DOMAIN s) /\ s[Max(t)] \in E
  <1>1. DOMAIN s = 1..Len(s) /\ Len(s) \in Nat
    OBVIOUS
  <1>2. Max(t) \in t
    BY <1>1, MaxBelow
  <1> QED BY <1>2

\* The function FoldLeft iterates with exists.
IteratesOver(it, S, b, g, s) ==
  /\ it \in [SUBSET (DOMAIN s) -> S]
  /\ \A t \in SUBSET (DOMAIN s) :
       it[t] = IF t = {} THEN b ELSE g[<<it[t \ {Max(t)}], s[Max(t)]>>]

LEMMA IterationOver ==
  ASSUME NEW S, NEW E, NEW b, NEW g, Folds(S, E, b, g), NEW s, s \in Seq(E)
  PROVE  \E it : IteratesOver(it, S, b, g, s)
  <1>1. DOMAIN s = 1..Len(s) /\ Len(s) \in 0..Len(s)
    OBVIOUS
  <1>2. PICK it \in [SUBSET (1..Len(s)) -> S] : Iterates(it, Len(s), S, b, g, s)
    BY <1>1, IterationExists
  <1>3. ASSUME NEW t \in SUBSET (DOMAIN s)
        PROVE  it[t] = IF t = {} THEN b ELSE g[<<it[t \ {Max(t)}], s[Max(t)]>>]
    <2>1. CASE t = {}
      BY <1>2, <2>1 DEF Iterates
    <2>2. CASE t # {}
      BY <1>1, <1>2, <2>2, LastIndex DEF Iterates
    <2> QED BY <2>1, <2>2
  <1> QED BY <1>1, <1>2, <1>3 DEF IteratesOver

-----------------------------------------------------------------------------
(* The three readings of a log. *)

Entries == [call: Calls, step: Nat, started: BOOLEAN]
Cursors == [openTurn: Nat, openStep: Nat, pending: Seq(Entries)]
CallTraces == Rules!Traces(Calls)
Transcripts == [pending: Seq(Calls), valid: BOOLEAN]

NoCursor == [openTurn |-> 0, openStep |-> 0, pending |-> <<>>]
NoTrace == Rules!EmptyTrace
NoTranscript == [pending |-> <<>>, valid |-> TRUE]

Trace(events) == FoldLeft(Traced, NoTrace, events)

\* Removing at an index.
LEMMA RemoveAtType ==
  ASSUME NEW S, NEW s \in Seq(S), NEW i \in 1..Len(s)
  PROVE  RemoveAt(s, i) \in Seq(S)
  <1>1. SubSeq(s, 1, i - 1) \in Seq(S)
    BY SubSeqProperties
  <1>2. SubSeq(s, i + 1, Len(s)) \in Seq(S)
    BY SubSeqProperties
  <1> QED BY <1>1, <1>2, ConcatProperties DEF RemoveAt

LEMMA PendingTypes ==
  ASSUME NEW p \in Seq(Entries), NEW c
  PROVE  Started(p, c) \in Seq(Entries) /\ Without(p, c) \in Seq(Entries)
  <1>1. DOMAIN p = 1..Len(p) /\ Len(p) \in Nat
    OBVIOUS
  <1>2. Started(p, c) \in Seq(Entries)
    <2>1. ASSUME NEW i \in 1..Len(p)
          PROVE  [p[i] EXCEPT !.started = @ \/ p[i].call = c] \in Entries
      <3>1. p[i] \in Entries
        OBVIOUS
      <3>2. (p[i].started \/ p[i].call = c) \in BOOLEAN
        OBVIOUS
      <3> HIDE DEF Calls
      <3> QED BY <3>1, <3>2 DEF Entries
    <2> QED BY <1>1, <2>1, IsASeq DEF Started
  <1>3. Without(p, c) \in Seq(Entries)
    BY <1>1, RemoveAtType DEF Without
  <1> QED BY <1>2, <1>3

LEMMA CursorTypes ==
  NoCursor \in Cursors /\ \A at \in Cursors, e \in Events : MoveCursor(at, e) \in Cursors
  <1>1. NoCursor \in Cursors
    BY EmptySeq DEF NoCursor, Cursors
  <1>2. ASSUME NEW at \in Cursors, NEW e \in Events  PROVE MoveCursor(at, e) \in Cursors
    <2>1. Requested(e) \in Seq(Entries)
      <3>1. e.calls \in Seq(Calls) /\ e.step \in Nat
        BY DEF Events
      <3>2. Len(e.calls) \in Nat /\ \A i \in 1..Len(e.calls) : e.calls[i] \in Calls
        BY <3>1
      <3>3. \A i \in 1..Len(e.calls) :
              [call |-> e.calls[i], step |-> e.step, started |-> FALSE] \in Entries
        BY <3>1, <3>2 DEF Entries
      <3> QED BY <3>2, <3>3, IsASeq DEF Requested
    <2>2. at.pending \in Seq(Entries) /\ at.openTurn \in Nat /\ at.openStep \in Nat
      BY DEF Cursors
    <2>3. at.pending \o Requested(e) \in Seq(Entries)
      BY <2>1, <2>2, ConcatProperties
    <2>4. /\ Started(at.pending, CallOf(e)) \in Seq(Entries)
          /\ Without(at.pending, CallOf(e)) \in Seq(Entries) /\ <<>> \in Seq(Entries)
      BY <2>2, PendingTypes, EmptySeq
    <2>5. e.type \in Types /\ e.turn \in Nat /\ e.step \in Nat
      BY DEF Events
    <2> QED BY <2>2, <2>3, <2>4, <2>5 DEF MoveCursor, Cursors, Types
  <1> QED BY <1>1, <1>2

LEMMA TraceTypes ==
  NoTrace \in CallTraces /\ \A tr \in CallTraces, e \in Events : Traced(tr, e) \in CallTraces
  <1>1. NoTrace \in CallTraces
    BY DEF NoTrace, CallTraces, Rules!EmptyTrace, Rules!Traces
  <1>2. ASSUME NEW tr \in CallTraces, NEW e \in Events  PROVE Traced(tr, e) \in CallTraces
    <2>1. e.type \in Types /\ e.turn \in Nat /\ e.step \in Nat
      BY DEF Events
    <2>2. e.type \in {"tool/call", "tool/result"} => CallOf(e) \in Calls
      BY DEF Events, CallOf
    <2>3. ASSUME NEW t \in Nat, NEW s \in Nat
          PROVE  /\ Rules!TurnStart(tr, t) \in CallTraces /\ Rules!TurnEnd(tr, t) \in CallTraces
                 /\ Rules!StepStart(tr, t, s) \in CallTraces /\ Rules!StepEnd(tr, t, s) \in CallTraces
                 /\ Rules!StepEvent(tr, t, s) \in CallTraces
      <3> USE DEF CallTraces, Rules!Traces, Rules!Accept
      <3>0. tr.nextTurn + 1 \in Nat /\ tr.nextStep + 1 \in Nat
        OBVIOUS
      <3>1. /\ [tr EXCEPT !.openTurn = 0, !.nextTurn = tr.nextTurn + 1] \in CallTraces
            /\ [tr EXCEPT !.openStep = 0, !.nextStep = tr.nextStep + 1, !.pendingCalls = {}]
                 \in CallTraces
            /\ [tr EXCEPT !.broken = TRUE] \in CallTraces
        BY <3>0
      <3>2. Rules!TurnStart(tr, t) \in CallTraces
        BY DEF Rules!TurnStart
      <3>3. Rules!TurnEnd(tr, t) \in CallTraces
        BY <3>1 DEF Rules!TurnEnd
      <3>4. Rules!StepStart(tr, t, s) \in CallTraces
        BY DEF Rules!StepStart
      <3>5. Rules!StepEnd(tr, t, s) \in CallTraces
        BY <3>1 DEF Rules!StepEnd
      <3>6. Rules!StepEvent(tr, t, s) \in CallTraces
        BY DEF Rules!StepEvent
      <3> QED BY <3>2, <3>3, <3>4, <3>5, <3>6
    <2>4. ASSUME NEW t \in Nat, NEW s \in Nat, NEW c \in Calls, NEW n
          PROVE  /\ Rules!ToolCall(tr, t, s, c) \in CallTraces
                 /\ Rules!ToolResult(tr, t, s, c, n) \in CallTraces
      BY DEF CallTraces, Rules!Traces, Rules!Accept, Rules!ToolCall, Rules!ToolResult
    <2> HIDE DEF CallTraces
    <2> QED BY <2>1, <2>2, <2>3, <2>4 DEF Traced, Types
  <1> QED BY <1>1, <1>2

LEMMA TranscriptTypes ==
  NoTranscript \in Transcripts
  /\ \A tr \in Transcripts, e \in Events : Answered(tr, e) \in Transcripts
  <1>1. NoTranscript \in Transcripts
    BY EmptySeq DEF NoTranscript, Transcripts
  <1>2. ASSUME NEW tr \in Transcripts, NEW e \in Events  PROVE Answered(tr, e) \in Transcripts
    <2>1. e.calls \in Seq(Calls)
      BY DEF Events
    <2>2. tr.pending # <<>> => Tail(tr.pending) \in Seq(Calls)
      BY DEF Transcripts
    <2> QED BY <2>1, <2>2 DEF Answered, Transcripts
  <1> QED BY <1>1, <1>2

CursorMap == [p \in Cursors \X Events |-> MoveCursor(p[1], p[2])]

\* The repair's cursor is iterated over the log.
LEMMA CursorIterates ==
  ASSUME NEW s \in Seq(Events)
  PROVE  \E it : Iterates(it, Len(s), Cursors, NoCursor, CursorMap, s) /\ Cursor(s) = it[1..Len(s)]
  <1> DEFINE Defines(it) == it = [t \in SUBSET (DOMAIN s) |->
                                    IF t = {} THEN NoCursor ELSE MoveCursor(it[t \ {Max(t)}], s[Max(t)])]
             iter == CHOOSE it : Defines(it)
  <1>1. /\ Folds(Cursors, Events, NoCursor, CursorMap)
        /\ \A x \in Cursors, e \in Events : CursorMap[<<x, e>>] = MoveCursor(x, e)
    BY CursorTypes DEF CursorMap, Folds
  <1>2. Cursor(s) = iter[DOMAIN s]
    BY DEF Cursor, FoldLeft, MapThenFoldSet, NoCursor
  <1> HIDE DEF CursorMap
  <1>3. PICK it : IteratesOver(it, Cursors, NoCursor, CursorMap, s)
    BY <1>1, IterationOver
  <1>4. \A t \in SUBSET (DOMAIN s) : it[t] = IF t = {} THEN NoCursor ELSE MoveCursor(it[t \ {Max(t)}], s[Max(t)])
    BY <1>1, <1>3, LastIndex DEF IteratesOver
  <1>5. Defines(it)
    BY <1>3, <1>4 DEF IteratesOver
  <1>6. Defines(iter)
    BY <1>5
  <1> HIDE DEF iter
  <1>7. \A t \in SUBSET (DOMAIN s) : iter[t] = IF t = {} THEN NoCursor ELSE MoveCursor(iter[t \ {Max(t)}], s[Max(t)])
    BY <1>6
  <1>8. DOMAIN s = 1..Len(s)
    OBVIOUS
  <1>9. Iterates(iter, Len(s), Cursors, NoCursor, CursorMap, s)
    BY <1>1, <1>7, <1>8, LastIndex DEF Iterates
  <1> QED BY <1>2, <1>8, <1>9

LEMMA CursorStep ==
  ASSUME NEW s \in Seq(Events)
  PROVE  /\ Cursor(<<>>) = NoCursor /\ Cursor(s) \in Cursors
         /\ \A e \in Events : Cursor(Append(s, e)) = MoveCursor(Cursor(s), e)
  <1>1. /\ Folds(Cursors, Events, NoCursor, CursorMap)
        /\ \A x \in Cursors, e \in Events : CursorMap[<<x, e>>] = MoveCursor(x, e)
    BY CursorTypes DEF CursorMap, Folds
  <1>2. PICK it : Iterates(it, Len(s), Cursors, NoCursor, CursorMap, s) /\ Cursor(s) = it[1..Len(s)]
    BY CursorIterates
  <1>3. it[1..Len(s)] \in Cursors
    BY <1>1, <1>2, IterationValue
  <1>4. ASSUME NEW e \in Events  PROVE Cursor(Append(s, e)) = MoveCursor(Cursor(s), e)
    <2> DEFINE r == Append(s, e)
    <2>1. r \in Seq(Events) /\ Extends(r, s, e)
      BY DEF Extends
    <2> HIDE DEF r
    <2>2. PICK jt : Iterates(jt, Len(r), Cursors, NoCursor, CursorMap, r) /\ Cursor(r) = jt[1..Len(r)]
      BY <2>1, CursorIterates
    <2>3. jt[1..Len(r)] = CursorMap[<<it[1..Len(s)], e>>]
      BY <1>1, <1>2, <2>1, <2>2, IterationStep
    <2> QED BY <1>1, <1>2, <1>3, <2>2, <2>3 DEF r
  <1>5. Cursor(<<>>) = NoCursor
    <2> DEFINE r == <<>>
    <2>1. r \in Seq(Events) /\ r = <<>>
      OBVIOUS
    <2> HIDE DEF r
    <2>2. PICK jt : Iterates(jt, Len(r), Cursors, NoCursor, CursorMap, r) /\ Cursor(r) = jt[1..Len(r)]
      BY <2>1, CursorIterates
    <2>3. jt[1..Len(r)] = NoCursor
      BY <2>1, <2>2 DEF Iterates
    <2> QED BY <2>1, <2>2, <2>3
  <1> QED BY <1>2, <1>3, <1>4, <1>5

TraceMap == [p \in CallTraces \X Events |-> Traced(p[1], p[2])]

\* The companion check is iterated over the log.
LEMMA TraceIterates ==
  ASSUME NEW s \in Seq(Events)
  PROVE  \E it : Iterates(it, Len(s), CallTraces, NoTrace, TraceMap, s) /\ Trace(s) = it[1..Len(s)]
  <1> DEFINE Defines(it) == it = [t \in SUBSET (DOMAIN s) |->
                                    IF t = {} THEN NoTrace ELSE Traced(it[t \ {Max(t)}], s[Max(t)])]
             iter == CHOOSE it : Defines(it)
  <1>1. /\ Folds(CallTraces, Events, NoTrace, TraceMap)
        /\ \A x \in CallTraces, e \in Events : TraceMap[<<x, e>>] = Traced(x, e)
    BY TraceTypes DEF TraceMap, Folds
  <1>2. Trace(s) = iter[DOMAIN s]
    BY DEF Trace, FoldLeft, MapThenFoldSet, NoTrace
  <1> HIDE DEF TraceMap
  <1>3. PICK it : IteratesOver(it, CallTraces, NoTrace, TraceMap, s)
    BY <1>1, IterationOver
  <1>4. \A t \in SUBSET (DOMAIN s) : it[t] = IF t = {} THEN NoTrace ELSE Traced(it[t \ {Max(t)}], s[Max(t)])
    BY <1>1, <1>3, LastIndex DEF IteratesOver
  <1>5. Defines(it)
    BY <1>3, <1>4 DEF IteratesOver
  <1>6. Defines(iter)
    BY <1>5
  <1> HIDE DEF iter
  <1>7. \A t \in SUBSET (DOMAIN s) : iter[t] = IF t = {} THEN NoTrace ELSE Traced(iter[t \ {Max(t)}], s[Max(t)])
    BY <1>6
  <1>8. DOMAIN s = 1..Len(s)
    OBVIOUS
  <1>9. Iterates(iter, Len(s), CallTraces, NoTrace, TraceMap, s)
    BY <1>1, <1>7, <1>8, LastIndex DEF Iterates
  <1> QED BY <1>2, <1>8, <1>9

LEMMA TraceStep ==
  ASSUME NEW s \in Seq(Events)
  PROVE  /\ Trace(<<>>) = NoTrace /\ Trace(s) \in CallTraces
         /\ \A e \in Events : Trace(Append(s, e)) = Traced(Trace(s), e)
  <1>1. /\ Folds(CallTraces, Events, NoTrace, TraceMap)
        /\ \A x \in CallTraces, e \in Events : TraceMap[<<x, e>>] = Traced(x, e)
    BY TraceTypes DEF TraceMap, Folds
  <1>2. PICK it : Iterates(it, Len(s), CallTraces, NoTrace, TraceMap, s) /\ Trace(s) = it[1..Len(s)]
    BY TraceIterates
  <1>3. it[1..Len(s)] \in CallTraces
    BY <1>1, <1>2, IterationValue
  <1>4. ASSUME NEW e \in Events  PROVE Trace(Append(s, e)) = Traced(Trace(s), e)
    <2> DEFINE r == Append(s, e)
    <2>1. r \in Seq(Events) /\ Extends(r, s, e)
      BY DEF Extends
    <2> HIDE DEF r
    <2>2. PICK jt : Iterates(jt, Len(r), CallTraces, NoTrace, TraceMap, r) /\ Trace(r) = jt[1..Len(r)]
      BY <2>1, TraceIterates
    <2>3. jt[1..Len(r)] = TraceMap[<<it[1..Len(s)], e>>]
      BY <1>1, <1>2, <2>1, <2>2, IterationStep
    <2> QED BY <1>1, <1>2, <1>3, <2>2, <2>3 DEF r
  <1>5. Trace(<<>>) = NoTrace
    <2> DEFINE r == <<>>
    <2>1. r \in Seq(Events) /\ r = <<>>
      OBVIOUS
    <2> HIDE DEF r
    <2>2. PICK jt : Iterates(jt, Len(r), CallTraces, NoTrace, TraceMap, r) /\ Trace(r) = jt[1..Len(r)]
      BY <2>1, TraceIterates
    <2>3. jt[1..Len(r)] = NoTrace
      BY <2>1, <2>2 DEF Iterates
    <2> QED BY <2>1, <2>2, <2>3
  <1> QED BY <1>2, <1>3, <1>4, <1>5

TranscriptMap == [p \in Transcripts \X Events |-> Answered(p[1], p[2])]

\* The transcript check is iterated over the log.
LEMMA TranscriptIterates ==
  ASSUME NEW s \in Seq(Events)
  PROVE  \E it : Iterates(it, Len(s), Transcripts, NoTranscript, TranscriptMap, s) /\ Transcript(s) = it[1..Len(s)]
  <1> DEFINE Defines(it) == it = [t \in SUBSET (DOMAIN s) |->
                                    IF t = {} THEN NoTranscript ELSE Answered(it[t \ {Max(t)}], s[Max(t)])]
             iter == CHOOSE it : Defines(it)
  <1>1. /\ Folds(Transcripts, Events, NoTranscript, TranscriptMap)
        /\ \A x \in Transcripts, e \in Events : TranscriptMap[<<x, e>>] = Answered(x, e)
    BY TranscriptTypes DEF TranscriptMap, Folds
  <1>2. Transcript(s) = iter[DOMAIN s]
    BY DEF Transcript, FoldLeft, MapThenFoldSet, NoTranscript
  <1> HIDE DEF TranscriptMap
  <1>3. PICK it : IteratesOver(it, Transcripts, NoTranscript, TranscriptMap, s)
    BY <1>1, IterationOver
  <1>4. \A t \in SUBSET (DOMAIN s) : it[t] = IF t = {} THEN NoTranscript ELSE Answered(it[t \ {Max(t)}], s[Max(t)])
    BY <1>1, <1>3, LastIndex DEF IteratesOver
  <1>5. Defines(it)
    BY <1>3, <1>4 DEF IteratesOver
  <1>6. Defines(iter)
    BY <1>5
  <1> HIDE DEF iter
  <1>7. \A t \in SUBSET (DOMAIN s) : iter[t] = IF t = {} THEN NoTranscript ELSE Answered(iter[t \ {Max(t)}], s[Max(t)])
    BY <1>6
  <1>8. DOMAIN s = 1..Len(s)
    OBVIOUS
  <1>9. Iterates(iter, Len(s), Transcripts, NoTranscript, TranscriptMap, s)
    BY <1>1, <1>7, <1>8, LastIndex DEF Iterates
  <1> QED BY <1>2, <1>8, <1>9

LEMMA TranscriptStep ==
  ASSUME NEW s \in Seq(Events)
  PROVE  /\ Transcript(<<>>) = NoTranscript /\ Transcript(s) \in Transcripts
         /\ \A e \in Events : Transcript(Append(s, e)) = Answered(Transcript(s), e)
  <1>1. /\ Folds(Transcripts, Events, NoTranscript, TranscriptMap)
        /\ \A x \in Transcripts, e \in Events : TranscriptMap[<<x, e>>] = Answered(x, e)
    BY TranscriptTypes DEF TranscriptMap, Folds
  <1>2. PICK it : Iterates(it, Len(s), Transcripts, NoTranscript, TranscriptMap, s) /\ Transcript(s) = it[1..Len(s)]
    BY TranscriptIterates
  <1>3. it[1..Len(s)] \in Transcripts
    BY <1>1, <1>2, IterationValue
  <1>4. ASSUME NEW e \in Events  PROVE Transcript(Append(s, e)) = Answered(Transcript(s), e)
    <2> DEFINE r == Append(s, e)
    <2>1. r \in Seq(Events) /\ Extends(r, s, e)
      BY DEF Extends
    <2> HIDE DEF r
    <2>2. PICK jt : Iterates(jt, Len(r), Transcripts, NoTranscript, TranscriptMap, r) /\ Transcript(r) = jt[1..Len(r)]
      BY <2>1, TranscriptIterates
    <2>3. jt[1..Len(r)] = TranscriptMap[<<it[1..Len(s)], e>>]
      BY <1>1, <1>2, <2>1, <2>2, IterationStep
    <2> QED BY <1>1, <1>2, <1>3, <2>2, <2>3 DEF r
  <1>5. Transcript(<<>>) = NoTranscript
    <2> DEFINE r == <<>>
    <2>1. r \in Seq(Events) /\ r = <<>>
      OBVIOUS
    <2> HIDE DEF r
    <2>2. PICK jt : Iterates(jt, Len(r), Transcripts, NoTranscript, TranscriptMap, r) /\ Transcript(r) = jt[1..Len(r)]
      BY <2>1, TranscriptIterates
    <2>3. jt[1..Len(r)] = NoTranscript
      BY <2>1, <2>2 DEF Iterates
    <2> QED BY <2>1, <2>2, <2>3
  <1> QED BY <1>2, <1>3, <1>4, <1>5

-----------------------------------------------------------------------------
(* Sound logs. *)

\* What the three readings of a log agree on: the rules are kept, the open turn and
\* step are those the rules expect, and the calls without a result are the open
\* step's, each once, in the order in which the transcript waits for their results.
Matched(at, tr, said) ==
  /\ ~tr.broken /\ tr.openTurn = at.openTurn /\ tr.openStep = at.openStep
  /\ tr.nextTurn # 0 /\ tr.nextStep # 0
  /\ at.openTurn # 0 => at.openTurn = tr.nextTurn
  /\ at.openStep # 0 => at.openTurn # 0 /\ at.openStep = tr.nextStep
  /\ at.openStep = 0 => at.pending = <<>>
  /\ \A i \in 1..Len(at.pending) :
       /\ at.pending[i].step = at.openStep
       /\ at.pending[i].started => at.pending[i].call \in tr.pendingCalls
  /\ \A i, j \in 1..Len(at.pending) : at.pending[i].call = at.pending[j].call => i = j
  /\ said.valid /\ Len(said.pending) = Len(at.pending)
  /\ \A i \in 1..Len(at.pending) : said.pending[i] = at.pending[i].call

\* The next turn is counted from the last one that started.
Counted(tr, last) == tr.nextTurn = IF tr.openTurn = 0 THEN last + 1 ELSE last

\* Every call is one of the first n; a call without a result has none in the log, and
\* is known to have started when the log says that it was called.
Recorded(l, at, n) ==
  /\ \A i \in 1..Len(at.pending) : at.pending[i].call <= n
  /\ \A k \in 1..Len(l) : l[k].type \in {"tool/call", "tool/result"} =>
       /\ CallOf(l[k]) <= n
       /\ \A i \in 1..Len(at.pending) : at.pending[i].call = CallOf(l[k]) =>
            l[k].type = "tool/call" /\ at.pending[i].started

Sound(l, n) ==
  /\ Matched(Cursor(l), Trace(l), Transcript(l))
  /\ Counted(Trace(l), LastTurn(l))
  /\ Recorded(l, Cursor(l), n)

\* The first entry of a list without repeated calls is the one that leaves it.
LEMMA WithoutFirst ==
  ASSUME NEW p \in Seq(Entries), p # <<>>,
         \A i, j \in 1..Len(p) : p[i].call = p[j].call => i = j
  PROVE  /\ Len(Without(p, p[1].call)) = Len(p) - 1
         /\ \A i \in 1..(Len(p) - 1) : Without(p, p[1].call)[i] = p[i + 1]
  <1>1. Len(p) \in Nat \ {0} /\ DOMAIN p = 1..Len(p) /\ 1 \in 1..Len(p)
    BY EmptySeq
  <1>2. ASSUME NEW i \in 1..Len(p)  PROVE p[i].call = p[1].call <=> i = 1
    BY <1>1, <1>2
  <1>3. (CHOOSE i \in DOMAIN p : p[i].call = p[1].call) = 1
    BY <1>1, <1>2
  <1>4. Without(p, p[1].call) = RemoveAt(p, 1)
    BY <1>1, <1>3 DEF Without
  <1>5. SubSeq(p, 1, 1 - 1) = <<>>
    BY <1>1, SubSeqProperties, EmptySeq
  <1>6. /\ SubSeq(p, 1 + 1, Len(p)) \in Seq(Entries)
        /\ Len(SubSeq(p, 1 + 1, Len(p))) = Len(p) - 1
        /\ \A i \in 1..(Len(p) - 1) : SubSeq(p, 1 + 1, Len(p))[i] = p[i + 1]
    BY <1>1, SubSeqProperties
  <1>7. RemoveAt(p, 1) = SubSeq(p, 1 + 1, Len(p))
    BY <1>5, <1>6, ConcatEmptySeq DEF RemoveAt
  <1> QED BY <1>4, <1>6, <1>7

\* The types of the readings, and what appending one event makes of them.
LEMMA Readings ==
  ASSUME NEW l \in Seq(Events)
  PROVE  /\ Cursor(l) \in Cursors /\ Trace(l) \in CallTraces /\ Transcript(l) \in Transcripts
         /\ \A e \in Events : /\ Cursor(Append(l, e)) = MoveCursor(Cursor(l), e)
                              /\ Trace(Append(l, e)) = Traced(Trace(l), e)
                              /\ Transcript(Append(l, e)) = Answered(Transcript(l), e)
  BY CursorStep, TraceStep, TranscriptStep

LEMMA LastTurnStep ==
  ASSUME NEW l \in Seq(Events), NEW e \in Events
  PROVE  /\ LastTurn(l) \in Nat
         /\ LastTurn(Append(l, e)) = IF e.type = "turn/start" THEN e.turn ELSE LastTurn(l)
  <1> DEFINE I(s) == {i \in 1..Len(s) : s[i].type = "turn/start"}
             r == Append(l, e)
             n == Len(l)
  <1>1. \A s : LastTurn(s) = IF I(s) # {} THEN IF Max(I(s)) = 0 THEN 0 ELSE s[Max(I(s))].turn ELSE 0
    BY DEF LastTurn, SelectLastInSeq
  <1>2. n \in Nat /\ Len(r) = n + 1 /\ r[n + 1] = e /\ \A i \in 1..n : r[i] = l[i]
    OBVIOUS
  <1>3. I(l) \in SUBSET (1..n) /\ I(r) \in SUBSET (1..(n + 1))
    BY <1>2
  <1>4. ASSUME e.type = "turn/start"  PROVE LastTurn(r) = e.turn
    <2>1. n + 1 \in I(r) /\ n + 1 \in Nat \ {0}
      BY <1>2, <1>4
    <2>2. Max(I(r)) = n + 1
      <3> DEFINE k == n + 1  T == I(r)
      <3>1. k \in Nat \ {0} /\ T \in SUBSET (1..k) /\ k \in T
        BY <1>3, <2>1
      <3> HIDE DEF k, T
      <3>2. Max(T) = k
        BY <3>1, MaxIndex
      <3> QED BY <3>2 DEF k, T
    <2> QED BY <1>1, <1>2, <2>1, <2>2
  <1>5. ASSUME e.type # "turn/start"  PROVE LastTurn(r) = LastTurn(l)
    <2>1. I(r) = I(l)
      BY <1>2, <1>5
    <2>2. I(l) # {} => Max(I(l)) \in I(l)
      BY <1>2, <1>3, MaxBelow
    <2>3. I(l) # {} => r[Max(I(l))] = l[Max(I(l))]
      BY <1>2, <1>3, <2>2
    <2> QED BY <1>1, <2>1, <2>3
  <1>6. LastTurn(l) \in Nat
    <2>1. I(l) # {} => Max(I(l)) \in I(l)
      BY <1>2, <1>3, MaxBelow
    <2>2. I(l) # {} => l[Max(I(l))] \in Events
      BY <1>2, <2>1
    <2>3. \A x \in Events : x.turn \in Nat
      BY DEF Events
    <2> QED BY <1>1, <2>2, <2>3
  <1> QED BY <1>4, <1>5, <1>6

\* The events that leave the recorded calls alone: nothing without a result is left
\* that was not so before.
LEMMA RecordedKept ==
  ASSUME NEW l \in Seq(Events), NEW n \in Nat, NEW at, Recorded(l, at, n), NEW e \in Events,
         e.type \notin {"tool/call", "tool/result"}, NEW at2,
         at2.pending = <<>> \/ at2.pending = at.pending
  PROVE  Recorded(Append(l, e), at2, n)
  <1>1. /\ Len(Append(l, e)) = Len(l) + 1 /\ Append(l, e)[Len(l) + 1] = e /\ Len(l) \in Nat
        /\ \A k \in 1..Len(l) : Append(l, e)[k] = l[k]
    OBVIOUS
  <1>2. ASSUME NEW k \in 1..Len(Append(l, e)),
               Append(l, e)[k].type \in {"tool/call", "tool/result"}
        PROVE  k \in 1..Len(l) /\ Append(l, e)[k] = l[k]
    <2>1. k # Len(l) + 1
      BY <1>1, <1>2
    <2> QED BY <1>1, <2>1
  <1> QED BY <1>2 DEF Recorded

LEMMA AppendTurnStart ==
  ASSUME NEW l \in Seq(Events), NEW n \in Nat, Sound(l, n), Cursor(l).openTurn = 0,
         NEW e \in Events, e.type = "turn/start", e.turn = Trace(l).nextTurn
  PROVE  /\ Sound(Append(l, e), n)
         /\ Cursor(Append(l, e)) = [openTurn |-> e.turn, openStep |-> 0, pending |-> <<>>]
         /\ Trace(Append(l, e)).nextTurn = e.turn /\ Trace(Append(l, e)).nextStep = 1
         /\ e.turn # 0
  <1> DEFINE at == Cursor(l)   tr == Trace(l)   said == Transcript(l)
             r == Append(l, e)
  <1>1. at \in Cursors /\ tr \in CallTraces /\ said \in Transcripts
    BY Readings
  <1>2. Cursor(r) = MoveCursor(at, e) /\ Trace(r) = Traced(tr, e) /\ Transcript(r) = Answered(said, e)
    BY Readings
  <1>3. Matched(at, tr, said) /\ Counted(tr, LastTurn(l)) /\ Recorded(l, at, n) /\ at.openTurn = 0
    BY DEF Sound
  <1>4. LastTurn(r) = e.turn
    BY LastTurnStep
  <1>5. e.type = "turn/start" /\ e.turn = tr.nextTurn /\ e.turn \in Nat
    BY DEF Events
  <1> HIDE DEF at, tr, said
  <1>6. MoveCursor(at, e) = [openTurn |-> e.turn, openStep |-> 0, pending |-> <<>>]
    BY <1>5 DEF MoveCursor
  <1>7. at.openStep = 0 /\ at.pending = <<>> /\ Len(at.pending) = 0 /\ tr.openTurn = 0 /\ tr.openStep = 0
    BY <1>1, <1>3 DEF Matched, Cursors
  <1>8. Traced(tr, e) = [tr EXCEPT !.openTurn = e.turn, !.nextStep = 1]
    BY <1>5, <1>7 DEF Traced, Rules!TurnStart, Rules!Accept
  <1>9. said.pending = <<>> /\ said.valid
    BY <1>1, <1>3, <1>7, EmptySeq DEF Matched, Transcripts
  <1>10. Answered(said, e) = said
    BY <1>1, <1>5, <1>9 DEF Answered, Transcripts
  <1>11. Matched(Cursor(r), Trace(r), Transcript(r))
    BY <1>1, <1>2, <1>3, <1>5, <1>6, <1>7, <1>8, <1>9, <1>10 DEF Matched, CallTraces, Rules!Traces
  <1>12. Counted(Trace(r), LastTurn(r))
    BY <1>1, <1>2, <1>3, <1>4, <1>5, <1>8 DEF Counted, Matched, CallTraces, Rules!Traces
  <1>13. Recorded(r, Cursor(r), n)
    BY <1>2, <1>3, <1>5, <1>6, RecordedKept
  <1>14. Cursor(r).openTurn = e.turn /\ Trace(r).nextTurn = e.turn /\ Trace(r).nextStep = 1 /\ e.turn # 0
    BY <1>1, <1>2, <1>3, <1>5, <1>6, <1>8 DEF CallTraces, Rules!Traces, Matched
  <1> QED BY <1>2, <1>6, <1>11, <1>12, <1>13, <1>14 DEF Sound

LEMMA AppendTurnEnd ==
  ASSUME NEW l \in Seq(Events), NEW n \in Nat, Sound(l, n),
         Cursor(l).openTurn # 0, Cursor(l).openStep = 0,
         NEW e \in Events, e.type = "turn/end", e.turn = Cursor(l).openTurn
  PROVE  /\ Sound(Append(l, e), n)
         /\ Cursor(Append(l, e)) = NoCursor
         /\ Trace(Append(l, e)).nextTurn = e.turn + 1
  <1> DEFINE at == Cursor(l)   tr == Trace(l)   said == Transcript(l)
             r == Append(l, e)
  <1>1. at \in Cursors /\ tr \in CallTraces /\ said \in Transcripts
    BY Readings
  <1>2. Cursor(r) = MoveCursor(at, e) /\ Trace(r) = Traced(tr, e) /\ Transcript(r) = Answered(said, e)
    BY Readings
  <1>3. /\ Matched(at, tr, said) /\ Counted(tr, LastTurn(l)) /\ Recorded(l, at, n)
        /\ at.openTurn # 0 /\ at.openStep = 0
    BY DEF Sound
  <1>4. LastTurn(r) = LastTurn(l) /\ LastTurn(l) \in Nat
    BY LastTurnStep
  <1>5. e.type = "turn/end" /\ e.turn = at.openTurn /\ e.turn \in Nat
    BY DEF Events
  <1> HIDE DEF at, tr, said
  <1>6. MoveCursor(at, e) = NoCursor
    BY <1>5 DEF MoveCursor, NoCursor
  <1>7. at.pending = <<>> /\ tr.openTurn = e.turn /\ tr.openStep = 0 /\ tr.nextTurn = e.turn
    BY <1>1, <1>3, <1>5 DEF Matched, Cursors
  <1>8. Traced(tr, e) = [tr EXCEPT !.openTurn = 0, !.nextTurn = tr.nextTurn + 1]
    BY <1>5, <1>7 DEF Traced, Rules!TurnEnd, Rules!Accept
  <1>9. said.pending = <<>> /\ said.valid
    BY <1>1, <1>3, <1>7, EmptySeq DEF Matched, Transcripts
  <1>10. Answered(said, e) = said
    BY <1>5 DEF Answered
  <1>11. /\ Trace(r).openTurn = 0 /\ Trace(r).openStep = 0 /\ Trace(r).nextTurn = e.turn + 1
         /\ Trace(r).nextStep = tr.nextStep /\ Trace(r).broken = tr.broken
    BY <1>1, <1>2, <1>7, <1>8 DEF CallTraces, Rules!Traces
  <1>12. Matched(Cursor(r), Trace(r), Transcript(r))
    <2>1. e.turn + 1 # 0
      BY <1>5
    <2> QED BY <1>2, <1>3, <1>6, <1>9, <1>10, <1>11, <2>1 DEF Matched, NoCursor
  <1>13. Counted(Trace(r), LastTurn(r))
    BY <1>3, <1>4, <1>5, <1>7, <1>11 DEF Counted
  <1>14. Recorded(r, Cursor(r), n)
    BY <1>2, <1>3, <1>5, <1>6, RecordedKept DEF NoCursor
  <1> QED BY <1>2, <1>6, <1>11, <1>12, <1>13, <1>14 DEF Sound

LEMMA AppendStepStart ==
  ASSUME NEW l \in Seq(Events), NEW n \in Nat, Sound(l, n),
         Cursor(l).openTurn # 0, Cursor(l).openStep = 0, NEW e \in Events,
         e.type = "step/start", e.turn = Cursor(l).openTurn, e.step = Trace(l).nextStep
  PROVE  /\ Sound(Append(l, e), n)
         /\ Cursor(Append(l, e)) = [openTurn |-> e.turn, openStep |-> e.step, pending |-> <<>>]
         /\ Trace(Append(l, e)).nextTurn = Trace(l).nextTurn
         /\ Trace(Append(l, e)).nextStep = e.step /\ e.step # 0
  <1> DEFINE at == Cursor(l)   tr == Trace(l)   said == Transcript(l)
             r == Append(l, e)
  <1>1. at \in Cursors /\ tr \in CallTraces /\ said \in Transcripts
    BY Readings
  <1>2. Cursor(r) = MoveCursor(at, e) /\ Trace(r) = Traced(tr, e) /\ Transcript(r) = Answered(said, e)
    BY Readings
  <1>3. /\ Matched(at, tr, said) /\ Counted(tr, LastTurn(l)) /\ Recorded(l, at, n)
        /\ at.openTurn # 0 /\ at.openStep = 0
    BY DEF Sound
  <1>4. LastTurn(r) = LastTurn(l) /\ LastTurn(l) \in Nat
    BY LastTurnStep
  <1>5. e.type = "step/start" /\ e.turn = at.openTurn /\ e.step = tr.nextStep /\ e.turn \in Nat
    BY DEF Events
  <1> HIDE DEF at, tr, said
  <1>6. /\ at.pending = <<>> /\ tr.openTurn = e.turn /\ tr.openStep = 0 /\ tr.nextTurn = e.turn
        /\ e.step # 0
    BY <1>1, <1>3, <1>5 DEF Matched, Cursors
  <1>7. MoveCursor(at, e) = [openTurn |-> e.turn, openStep |-> e.step, pending |-> <<>>]
    BY <1>1, <1>5, <1>6 DEF MoveCursor, Cursors
  <1>8. Traced(tr, e) = [tr EXCEPT !.openStep = e.step]
    BY <1>5, <1>6 DEF Traced, Rules!StepStart, Rules!Accept
  <1>9. said.pending = <<>> /\ said.valid
    BY <1>1, <1>3, <1>6, EmptySeq DEF Matched, Transcripts
  <1>10. Answered(said, e) = said
    BY <1>5 DEF Answered
  <1>11. /\ Trace(r).openTurn = e.turn /\ Trace(r).openStep = e.step
         /\ Trace(r).nextTurn = tr.nextTurn
         /\ Trace(r).nextStep = tr.nextStep /\ Trace(r).broken = tr.broken
    BY <1>1, <1>2, <1>6, <1>8 DEF CallTraces, Rules!Traces
  <1>12. Matched(Cursor(r), Trace(r), Transcript(r))
    BY <1>2, <1>3, <1>5, <1>6, <1>7, <1>9, <1>10, <1>11 DEF Matched
  <1>13. Counted(Trace(r), LastTurn(r))
    BY <1>3, <1>4, <1>5, <1>6, <1>11 DEF Counted
  <1>14. Recorded(r, Cursor(r), n)
    BY <1>2, <1>3, <1>5, <1>7, RecordedKept
  <1> QED BY <1>2, <1>5, <1>6, <1>7, <1>11, <1>12, <1>13, <1>14 DEF Sound, at, tr

LEMMA AppendStepEnd ==
  ASSUME NEW l \in Seq(Events), NEW n \in Nat, Sound(l, n),
         Cursor(l).openStep # 0, Cursor(l).pending = <<>>, NEW e \in Events,
         e.type = "step/end", e.turn = Cursor(l).openTurn, e.step = Cursor(l).openStep
  PROVE  /\ Sound(Append(l, e), n)
         /\ Cursor(Append(l, e)) = [openTurn |-> e.turn, openStep |-> 0, pending |-> <<>>]
         /\ Trace(Append(l, e)).nextTurn = Trace(l).nextTurn
         /\ Trace(Append(l, e)).nextStep = e.step + 1
  <1> DEFINE at == Cursor(l)   tr == Trace(l)   said == Transcript(l)
             r == Append(l, e)
  <1>1. at \in Cursors /\ tr \in CallTraces /\ said \in Transcripts
    BY Readings
  <1>2. Cursor(r) = MoveCursor(at, e) /\ Trace(r) = Traced(tr, e) /\ Transcript(r) = Answered(said, e)
    BY Readings
  <1>3. /\ Matched(at, tr, said) /\ Counted(tr, LastTurn(l)) /\ Recorded(l, at, n)
        /\ at.openStep # 0 /\ at.pending = <<>>
    BY DEF Sound
  <1>4. LastTurn(r) = LastTurn(l) /\ LastTurn(l) \in Nat
    BY LastTurnStep
  <1>5. /\ e.type = "step/end" /\ e.turn = at.openTurn /\ e.step = at.openStep
        /\ e.turn \in Nat /\ e.step \in Nat
    BY DEF Events
  <1> HIDE DEF at, tr, said
  <1>6. /\ tr.openTurn = e.turn /\ tr.openStep = e.step /\ tr.nextTurn = e.turn
        /\ tr.nextStep = e.step /\ e.turn # 0 /\ e.step # 0
    BY <1>1, <1>3, <1>5 DEF Matched, Cursors
  <1>7. MoveCursor(at, e) = [openTurn |-> e.turn, openStep |-> 0, pending |-> <<>>]
    BY <1>1, <1>5, <1>6 DEF MoveCursor, Cursors
  <1>8. Traced(tr, e) = [tr EXCEPT !.openStep = 0, !.nextStep = tr.nextStep + 1, !.pendingCalls = {}]
    BY <1>5, <1>6 DEF Traced, Rules!StepEnd, Rules!InOpenStep, Rules!Accept
  <1>9. said.pending = <<>> /\ said.valid
    BY <1>1, <1>3, <1>6, EmptySeq DEF Matched, Transcripts
  <1>10. Answered(said, e) = said
    BY <1>5 DEF Answered
  <1>11. /\ Trace(r).openTurn = e.turn /\ Trace(r).openStep = 0 /\ Trace(r).nextTurn = tr.nextTurn
         /\ Trace(r).nextStep = e.step + 1 /\ Trace(r).broken = tr.broken
    BY <1>1, <1>2, <1>6, <1>8 DEF CallTraces, Rules!Traces
  <1>12. Matched(Cursor(r), Trace(r), Transcript(r))
    <2>1. e.step + 1 # 0
      BY <1>5
    <2> QED BY <1>2, <1>3, <1>5, <1>6, <1>7, <1>9, <1>10, <1>11, <2>1 DEF Matched
  <1>13. Counted(Trace(r), LastTurn(r))
    BY <1>3, <1>4, <1>5, <1>6, <1>11 DEF Counted
  <1>14. Recorded(r, Cursor(r), n)
    BY <1>2, <1>3, <1>5, <1>7, RecordedKept
  <1> QED BY <1>2, <1>7, <1>11, <1>12, <1>13, <1>14 DEF Sound, tr

LEMMA CallOfType ==
  ASSUME NEW e \in Events, e.type \in {"tool/call", "tool/result"}
  PROVE  CallOf(e) \in Calls /\ CallOf(e) \in Nat
  <1>1. e.calls \in Seq(Calls) /\ e.calls # <<>>
    BY DEF Events
  <1>2. CallOf(e) \in Calls
    <2> HIDE DEF Calls
    <2> QED BY <1>1, EmptySeq DEF CallOf
  <1> QED BY <1>2 DEF Calls

\* The calls of an assistant message are new.
LEMMA AppendMessage ==
  ASSUME NEW l \in Seq(Events), NEW n \in Nat, NEW m \in Nat, n <= m, Sound(l, n),
         Cursor(l).openStep # 0, Cursor(l).pending = <<>>, NEW e \in Events,
         e.type = "assistant/message", e.turn = Cursor(l).openTurn, e.step = Cursor(l).openStep,
         \A i \in 1..Len(e.calls) : n < e.calls[i] /\ e.calls[i] <= m,
         \A i, j \in 1..Len(e.calls) : e.calls[i] = e.calls[j] => i = j
  PROVE  /\ Sound(Append(l, e), m)
         /\ Cursor(Append(l, e)).openTurn = e.turn /\ Cursor(Append(l, e)).openStep = e.step
         /\ Trace(Append(l, e)) = Trace(l)
  <1> DEFINE at == Cursor(l)   tr == Trace(l)   said == Transcript(l)
             r == Append(l, e)   at2 == Cursor(r)
  <1>1. at \in Cursors /\ tr \in CallTraces /\ said \in Transcripts
    BY Readings
  <1>2. at2 = MoveCursor(at, e) /\ Trace(r) = Traced(tr, e) /\ Transcript(r) = Answered(said, e)
    BY Readings
  <1>3. /\ Matched(at, tr, said) /\ Counted(tr, LastTurn(l)) /\ Recorded(l, at, n)
        /\ at.openStep # 0 /\ at.pending = <<>>
    BY DEF Sound
  <1>4. LastTurn(r) = LastTurn(l)
    BY LastTurnStep
  <1>5. /\ e.type = "assistant/message" /\ e.turn = at.openTurn /\ e.step = at.openStep
        /\ e.turn \in Nat /\ e.step \in Nat /\ e.calls \in Seq(Calls)
    BY DEF Events
  <1>6. /\ Len(r) = Len(l) + 1 /\ r[Len(l) + 1] = e /\ Len(l) \in Nat
        /\ \A k \in 1..Len(l) : r[k] = l[k] /\ l[k] \in Events
    OBVIOUS
  <1> HIDE DEF at, tr, said, at2, r
  <1>7. Len(e.calls) \in Nat /\ \A i \in 1..Len(e.calls) : e.calls[i] \in Calls
    BY <1>5
  <1>8. /\ Requested(e) \in Seq(Entries) /\ Len(Requested(e)) = Len(e.calls)
        /\ \A i \in 1..Len(e.calls) :
             Requested(e)[i] = [call |-> e.calls[i], step |-> e.step, started |-> FALSE]
    <2>1. \A i \in 1..Len(e.calls) :
            [call |-> e.calls[i], step |-> e.step, started |-> FALSE] \in Entries
      BY <1>5, <1>7 DEF Entries
    <2> QED BY <1>7, <2>1, IsASeq, LenProperties DEF Requested
  <1>9. <<>> \o Requested(e) = Requested(e)
    BY <1>8, ConcatEmptySeq
  <1>10. at2 = [at EXCEPT !.pending = Requested(e)]
    BY <1>2, <1>3, <1>5, <1>9 DEF MoveCursor
  <1>11. at2.openTurn = at.openTurn /\ at2.openStep = at.openStep /\ at2.pending = Requested(e)
    BY <1>1, <1>10 DEF Cursors
  <1>12. Trace(r) = tr
    BY <1>2, <1>3, <1>5 DEF Traced, Rules!StepEvent, Rules!InOpenStep, Rules!Accept, Matched
  <1>13. said.pending = <<>> /\ said.valid
    BY <1>1, <1>3, EmptySeq DEF Matched, Transcripts
  <1>14. Transcript(r).pending = e.calls /\ Transcript(r).valid
    <2>1. CASE e.calls = <<>>
      BY <1>2, <1>5, <1>13, <2>1 DEF Answered
    <2>2. CASE e.calls # <<>>
      <3> DEFINE v == said.valid /\ said.pending = <<>>
      <3>1. Transcript(r) = [pending |-> e.calls, valid |-> v]
        BY <1>2, <1>5, <2>2 DEF Answered
      <3>2. v = TRUE
        BY <1>1, <1>13 DEF Transcripts
      <3> HIDE DEF v
      <3> QED BY <3>1, <3>2
    <2> QED BY <2>1, <2>2
  <1>15. /\ Len(at2.pending) = Len(e.calls)
         /\ \A i \in 1..Len(e.calls) :
              /\ at2.pending[i].call = e.calls[i] /\ at2.pending[i].step = e.step
              /\ ~at2.pending[i].started
    <2>1. \A i \in 1..Len(e.calls) :
            at2.pending[i] = [call |-> e.calls[i], step |-> e.step, started |-> FALSE]
      BY <1>8, <1>11
    <2>2. Len(at2.pending) = Len(e.calls)
      BY <1>8, <1>11
    <2>3. ASSUME NEW i \in 1..Len(e.calls)
          PROVE  /\ at2.pending[i].call = e.calls[i] /\ at2.pending[i].step = e.step
                 /\ ~at2.pending[i].started
      <3>1. at2.pending[i] = [call |-> e.calls[i], step |-> e.step, started |-> FALSE]
        BY <2>1
      <3> QED BY <3>1
    <2> QED BY <2>2, <2>3
  <1>16. Matched(at2, Trace(r), Transcript(r))
    <2>1. \A i, j \in 1..Len(at2.pending) : at2.pending[i].call = at2.pending[j].call => i = j
      BY <1>15
    <2>2. \A i \in 1..Len(at2.pending) : at2.pending[i].step = at2.openStep /\ ~at2.pending[i].started
      BY <1>5, <1>11, <1>15
    <2>3. /\ Len(Transcript(r).pending) = Len(at2.pending)
          /\ \A i \in 1..Len(at2.pending) : Transcript(r).pending[i] = at2.pending[i].call
      BY <1>14, <1>15
    <2> QED BY <1>3, <1>11, <1>12, <1>14, <2>1, <2>2, <2>3 DEF Matched
  <1>17. Recorded(r, at2, m)
    <2>1. \A i \in 1..Len(at2.pending) : n < at2.pending[i].call /\ at2.pending[i].call <= m
      BY <1>15
    <2>2. \A i \in 1..Len(at2.pending) : at2.pending[i].call \in Nat
      BY <1>7, <1>15 DEF Calls
    <2>3. ASSUME NEW k \in 1..Len(r), r[k].type \in {"tool/call", "tool/result"}
          PROVE  CallOf(r[k]) <= m
                 /\ \A i \in 1..Len(at2.pending) : at2.pending[i].call # CallOf(r[k])
      <3>1. k # Len(l) + 1
        BY <1>5, <1>6, <2>3
      <3>2. k \in 1..Len(l) /\ r[k] = l[k]
        BY <1>6, <3>1
      <3>3. CallOf(l[k]) <= n
        BY <1>3, <2>3, <3>2 DEF Recorded
      <3>4. CallOf(l[k]) \in Nat
        BY <1>6, <2>3, <3>2, CallOfType
      <3> QED BY <2>1, <2>2, <3>2, <3>3, <3>4
    <2> QED BY <2>1, <2>3 DEF Recorded
  <1> QED BY <1>3, <1>4, <1>5, <1>11, <1>12, <1>16, <1>17 DEF Sound, at, tr, at2, r

\* A recorded call marks its entry.
LEMMA AppendCall ==
  ASSUME NEW l \in Seq(Events), NEW n \in Nat, Sound(l, n),
         NEW x \in 1..Len(Cursor(l).pending), NEW e \in Events,
         e.type = "tool/call", e.turn = Cursor(l).openTurn, e.step = Cursor(l).openStep,
         CallOf(e) = Cursor(l).pending[x].call
  PROVE  /\ Sound(Append(l, e), n)
         /\ Cursor(Append(l, e)).openTurn = e.turn /\ Cursor(Append(l, e)).openStep = e.step
         /\ Trace(Append(l, e)).nextTurn = Trace(l).nextTurn
         /\ Trace(Append(l, e)).nextStep = Trace(l).nextStep
         /\ e.step # 0 /\ e.turn # 0
  <1> DEFINE at == Cursor(l)   tr == Trace(l)   said == Transcript(l)
             r == Append(l, e)   at2 == Cursor(r)   p == at.pending   c == CallOf(e)
  <1>1. at \in Cursors /\ tr \in CallTraces /\ said \in Transcripts
    BY Readings
  <1>2. at2 = MoveCursor(at, e) /\ Trace(r) = Traced(tr, e) /\ Transcript(r) = Answered(said, e)
    BY Readings
  <1>3. /\ Matched(at, tr, said) /\ Counted(tr, LastTurn(l)) /\ Recorded(l, at, n)
        /\ x \in 1..Len(p) /\ c = p[x].call
    BY DEF Sound
  <1>4. LastTurn(r) = LastTurn(l)
    BY LastTurnStep
  <1>5. /\ e.type = "tool/call" /\ e.turn = at.openTurn /\ e.step = at.openStep
        /\ e.turn \in Nat /\ e.step \in Nat
    BY DEF Events
  <1>6. /\ Len(r) = Len(l) + 1 /\ r[Len(l) + 1] = e /\ Len(l) \in Nat
        /\ \A k \in 1..Len(l) : r[k] = l[k]
    OBVIOUS
  <1> HIDE DEF at, tr, said, at2, r, c, p
  <1>7. p \in Seq(Entries) /\ p = at.pending /\ DOMAIN p = 1..Len(p) /\ Len(p) \in Nat
    BY <1>1 DEF Cursors, p
  <1>8. at.openStep # 0 /\ at.openTurn # 0
    <2>1. p # <<>>
      BY <1>3, <1>7
    <2> QED BY <1>3, <1>7, <2>1 DEF Matched
  <1>9. at2 = [at EXCEPT !.pending = Started(p, c)]
    BY <1>2, <1>5, <1>7 DEF MoveCursor, c
  <1>10. at2.openTurn = at.openTurn /\ at2.openStep = at.openStep /\ at2.pending = Started(p, c)
    BY <1>1, <1>9 DEF Cursors
  <1>11. /\ Len(at2.pending) = Len(p)
         /\ \A i \in 1..Len(p) :
              /\ at2.pending[i].call = p[i].call /\ at2.pending[i].step = p[i].step
              /\ at2.pending[i].started <=> (p[i].started \/ p[i].call = c)
    <2>1. Started(p, c) \in Seq(Entries) /\ DOMAIN Started(p, c) = 1..Len(p)
      BY <1>7, PendingTypes DEF Started
    <2>2. Len(Started(p, c)) = Len(p)
      BY <1>7, <2>1, LenProperties
    <2>3. ASSUME NEW i \in 1..Len(p)
          PROVE  /\ Started(p, c)[i].call = p[i].call /\ Started(p, c)[i].step = p[i].step
                 /\ Started(p, c)[i].started <=> (p[i].started \/ p[i].call = c)
      <3>1. p[i] \in Entries
        BY <1>7
      <3>2. Started(p, c)[i] = [p[i] EXCEPT !.started = p[i].started \/ p[i].call = c]
        BY <1>7 DEF Started
      <3> QED BY <3>1, <3>2 DEF Entries
    <2> QED BY <1>10, <2>2, <2>3
  <1>12. Trace(r) = [tr EXCEPT !.pendingCalls = tr.pendingCalls \cup {c}]
    BY <1>2, <1>3, <1>5 DEF Traced, Rules!ToolCall, Rules!InOpenStep, Rules!Accept, Matched, c
  <1>13. /\ Trace(r).openTurn = tr.openTurn /\ Trace(r).openStep = tr.openStep
         /\ Trace(r).nextTurn = tr.nextTurn /\ Trace(r).nextStep = tr.nextStep
         /\ Trace(r).broken = tr.broken /\ Trace(r).pendingCalls = tr.pendingCalls \cup {c}
    BY <1>1, <1>12 DEF CallTraces, Rules!Traces
  <1>14. Transcript(r) = said
    BY <1>2, <1>5 DEF Answered
  <1>15. Matched(at2, Trace(r), Transcript(r))
    BY <1>3, <1>7, <1>8, <1>10, <1>11, <1>13, <1>14 DEF Matched
  <1>16. Recorded(r, at2, n)
    <2>1. \A i \in 1..Len(at2.pending) : at2.pending[i].call <= n
      BY <1>3, <1>7, <1>11 DEF Recorded
    <2>2. ASSUME NEW k \in 1..Len(r), r[k].type \in {"tool/call", "tool/result"}
          PROVE  /\ CallOf(r[k]) <= n
                 /\ \A i \in 1..Len(at2.pending) : at2.pending[i].call = CallOf(r[k]) =>
                      r[k].type = "tool/call" /\ at2.pending[i].started
      <3>1. CASE k \in 1..Len(l)
        BY <1>3, <1>6, <1>7, <1>11, <2>2, <3>1 DEF Recorded
      <3>2. CASE k = Len(l) + 1
        <4>1. r[k] = e /\ CallOf(e) = c
          BY <1>6, <3>2 DEF c
        <4>2. p[x].call <= n
          BY <1>3, <1>7 DEF Recorded
        <4> QED BY <1>3, <1>5, <1>11, <4>1, <4>2
      <3> QED BY <1>6, <3>1, <3>2
    <2> QED BY <2>1, <2>2 DEF Recorded
  <1>17. Counted(Trace(r), LastTurn(r))
    BY <1>3, <1>4, <1>13 DEF Counted
  <1> QED BY <1>5, <1>8, <1>10, <1>13, <1>15, <1>16, <1>17 DEF Sound, at, tr, at2, r

\* A result answers the call that has waited longest.
LEMMA AppendResult ==
  ASSUME NEW l \in Seq(Events), NEW n \in Nat, Sound(l, n), Cursor(l).pending # <<>>,
         NEW e \in Events, e.type = "tool/result",
         e.turn = Cursor(l).openTurn, e.step = Cursor(l).openStep,
         CallOf(e) = Cursor(l).pending[1].call,
         Cursor(l).pending[1].started \/ e.code = "TOOL_NOT_STARTED"
  PROVE  /\ Sound(Append(l, e), n)
         /\ Cursor(Append(l, e)).openTurn = e.turn /\ Cursor(Append(l, e)).openStep = e.step
         /\ Len(Cursor(Append(l, e)).pending) = Len(Cursor(l).pending) - 1
         /\ \A i \in 1..(Len(Cursor(l).pending) - 1) :
              Cursor(Append(l, e)).pending[i] = Cursor(l).pending[i + 1]
         /\ Trace(Append(l, e)).nextTurn = Trace(l).nextTurn
         /\ Trace(Append(l, e)).nextStep = Trace(l).nextStep
         /\ e.step # 0 /\ e.turn # 0
  <1> DEFINE at == Cursor(l)   tr == Trace(l)   said == Transcript(l)
             r == Append(l, e)   at2 == Cursor(r)   p == at.pending   c == CallOf(e)
  <1>1. at \in Cursors /\ tr \in CallTraces /\ said \in Transcripts
    BY Readings
  <1>2. at2 = MoveCursor(at, e) /\ Trace(r) = Traced(tr, e) /\ Transcript(r) = Answered(said, e)
    BY Readings
  <1>3. /\ Matched(at, tr, said) /\ Counted(tr, LastTurn(l)) /\ Recorded(l, at, n)
        /\ p # <<>> /\ c = p[1].call /\ (p[1].started \/ e.code = "TOOL_NOT_STARTED")
    BY DEF Sound
  <1>4. LastTurn(r) = LastTurn(l)
    BY LastTurnStep
  <1>5. /\ e.type = "tool/result" /\ e.turn = at.openTurn /\ e.step = at.openStep
        /\ e.turn \in Nat /\ e.step \in Nat
    BY DEF Events
  <1>6. /\ Len(r) = Len(l) + 1 /\ r[Len(l) + 1] = e /\ Len(l) \in Nat
        /\ \A k \in 1..Len(l) : r[k] = l[k]
    OBVIOUS
  <1> HIDE DEF at, tr, said, at2, r, c, p
  <1>7. /\ p \in Seq(Entries) /\ p = at.pending /\ Len(p) \in Nat \ {0} /\ 1 \in 1..Len(p)
        /\ \A i, j \in 1..Len(p) : p[i].call = p[j].call => i = j
    BY <1>1, <1>3, EmptySeq DEF Cursors, p, Matched
  <1>8. at.openStep # 0 /\ at.openTurn # 0
    BY <1>3, <1>7 DEF Matched
  <1>9. at2 = [at EXCEPT !.pending = Without(p, c)]
    BY <1>2, <1>5, <1>7 DEF MoveCursor, c
  <1>10. at2.openTurn = at.openTurn /\ at2.openStep = at.openStep /\ at2.pending = Without(p, c)
    BY <1>1, <1>9 DEF Cursors
  <1>11. /\ Len(at2.pending) = Len(p) - 1
         /\ \A i \in 1..(Len(p) - 1) : at2.pending[i] = p[i + 1] /\ i + 1 \in 1..Len(p)
    <2>1. /\ Len(Without(p, p[1].call)) = Len(p) - 1
          /\ \A i \in 1..(Len(p) - 1) : Without(p, p[1].call)[i] = p[i + 1]
      BY <1>3, <1>7, WithoutFirst
    <2>2. at2.pending = Without(p, p[1].call)
      BY <1>3, <1>10
    <2>3. \A i \in 1..(Len(p) - 1) : i + 1 \in 1..Len(p)
      BY <1>7
    <2> QED BY <2>1, <2>2, <2>3
  <1>12. \A i \in 1..Len(at2.pending) : p[i + 1].call # c
    <2>1. ASSUME NEW i \in 1..Len(at2.pending)  PROVE p[i + 1].call # c
      <3>1. i + 1 \in 1..Len(p) /\ i + 1 # 1
        BY <1>7, <1>11
      <3> QED BY <1>3, <1>7, <3>1
    <2> QED BY <2>1
  <1>13. Trace(r) = [tr EXCEPT !.pendingCalls = tr.pendingCalls \ {c}]
    <2>1. c \in tr.pendingCalls \/ e.code = "TOOL_NOT_STARTED"
      BY <1>3, <1>7 DEF Matched
    <2>2. tr.openTurn = e.turn /\ tr.openStep = e.step
      BY <1>3, <1>5 DEF Matched
    <2> QED BY <1>2, <1>5, <2>1, <2>2 DEF Traced, Rules!ToolResult, Rules!InOpenStep, Rules!Accept, c
  <1>14. /\ Trace(r).openTurn = tr.openTurn /\ Trace(r).openStep = tr.openStep
         /\ Trace(r).nextTurn = tr.nextTurn /\ Trace(r).nextStep = tr.nextStep
         /\ Trace(r).broken = tr.broken /\ Trace(r).pendingCalls = tr.pendingCalls \ {c}
    BY <1>1, <1>13 DEF CallTraces, Rules!Traces
  <1>15. /\ Transcript(r).valid /\ Len(Transcript(r).pending) = Len(at2.pending)
         /\ \A i \in 1..Len(at2.pending) : Transcript(r).pending[i] = at2.pending[i].call
    <2>1. /\ said.pending \in Seq(Calls) /\ Len(said.pending) = Len(p) /\ said.valid
          /\ \A i \in 1..Len(p) : said.pending[i] = p[i].call
      BY <1>1, <1>3, <1>7 DEF Transcripts, Matched
    <2>2. said.pending # <<>> /\ Head(said.pending) = c
      BY <1>3, <1>7, <2>1
    <2>3. Transcript(r) = [said EXCEPT !.pending = Tail(said.pending)]
      BY <1>2, <1>5, <2>2 DEF Answered, c
    <2>4. Transcript(r).pending = Tail(said.pending) /\ Transcript(r).valid = said.valid
      BY <1>1, <2>3 DEF Transcripts
    <2>5. /\ Len(Tail(said.pending)) = Len(p) - 1
          /\ \A i \in 1..(Len(p) - 1) : Tail(said.pending)[i] = said.pending[i + 1]
      BY <1>7, <2>1, <2>2, HeadTailProperties
    <2> QED BY <1>11, <2>1, <2>4, <2>5
  <1>16. Matched(at2, Trace(r), Transcript(r))
    <2>1. ASSUME NEW i \in 1..Len(at2.pending)
          PROVE  /\ at2.pending[i].step = at2.openStep
                 /\ at2.pending[i].started => at2.pending[i].call \in Trace(r).pendingCalls
      <3>1. at2.pending[i] = p[i + 1] /\ i + 1 \in 1..Len(p) /\ p[i + 1].call # c
        BY <1>11, <1>12
      <3>2. p[i + 1].step = at.openStep /\ (p[i + 1].started => p[i + 1].call \in tr.pendingCalls)
        BY <1>3, <1>7, <3>1 DEF Matched
      <3> QED BY <1>10, <1>14, <3>1, <3>2
    <2>2. \A i, j \in 1..Len(at2.pending) : at2.pending[i].call = at2.pending[j].call => i = j
      <3>1. ASSUME NEW i \in 1..Len(at2.pending), NEW j \in 1..Len(at2.pending),
                   at2.pending[i].call = at2.pending[j].call
            PROVE  i = j
        <4>1. i + 1 \in 1..Len(p) /\ j + 1 \in 1..Len(p) /\ p[i + 1].call = p[j + 1].call
          BY <1>11, <3>1
        <4>2. i + 1 = j + 1
          BY <1>7, <4>1
        <4> QED BY <1>7, <1>11, <4>2
      <3> QED BY <3>1
    <2> QED BY <1>3, <1>8, <1>10, <1>14, <1>15, <2>1, <2>2 DEF Matched
  <1>17. Recorded(r, at2, n)
    <2>1. \A i \in 1..Len(p) : p[i].call <= n
      BY <1>3, <1>7 DEF Recorded
    <2>3. \A i \in 1..Len(at2.pending) : at2.pending[i].call <= n
      BY <1>11, <2>1
    <2>2. ASSUME NEW k \in 1..Len(r), r[k].type \in {"tool/call", "tool/result"}
          PROVE  /\ CallOf(r[k]) <= n
                 /\ \A i \in 1..Len(at2.pending) : at2.pending[i].call = CallOf(r[k]) =>
                      r[k].type = "tool/call" /\ at2.pending[i].started
      <3>1. CASE k \in 1..Len(l)
        <4>1. /\ CallOf(l[k]) <= n
              /\ \A i \in 1..Len(p) : p[i].call = CallOf(l[k]) => l[k].type = "tool/call" /\ p[i].started
          BY <1>3, <1>6, <1>7, <2>2, <3>1 DEF Recorded
        <4> QED BY <1>6, <1>11, <3>1, <4>1
      <3>2. CASE k = Len(l) + 1
        <4>1. r[k] = e /\ CallOf(e) = c
          BY <1>6, <3>2 DEF c
        <4>2. p[1].call <= n
          BY <1>7, <2>1
        <4>3. \A i \in 1..Len(at2.pending) : at2.pending[i].call # c
          BY <1>11, <1>12
        <4> QED BY <1>3, <4>1, <4>2, <4>3
      <3> QED BY <1>6, <3>1, <3>2
    <2> QED BY <2>3, <2>2 DEF Recorded
  <1>18. Counted(Trace(r), LastTurn(r))
    BY <1>3, <1>4, <1>14 DEF Counted
  <1> QED BY <1>5, <1>8, <1>10, <1>11, <1>14, <1>16, <1>17, <1>18 DEF Sound, at, tr, at2, r, p

\* More calls may have been issued.
LEMMA SoundMore ==
  ASSUME NEW l \in Seq(Events), NEW n \in Nat, NEW m \in Nat, n <= m, Sound(l, n)
  PROVE  Sound(l, m)
  <1>1. \A i \in 1..Len(Cursor(l).pending) : Cursor(l).pending[i].call \in Nat
    <2>1. Cursor(l).pending \in Seq(Entries)
      BY Readings DEF Cursors
    <2>2. \A x \in Entries : x.call \in Nat
      BY DEF Entries, Calls
    <2> HIDE DEF Entries
    <2> QED BY <2>1, <2>2
  <1>2. \A k \in 1..Len(l) : l[k].type \in {"tool/call", "tool/result"} => CallOf(l[k]) \in Nat
    BY CallOfType
  <1>3. Recorded(l, Cursor(l), n)
    BY DEF Sound
  <1>4. Recorded(l, Cursor(l), m)
    BY <1>1, <1>2, <1>3 DEF Recorded
  <1> QED BY <1>4 DEF Sound

LEMMA EmptySound ==
  /\ Sound(<<>>, 0) /\ Cursor(<<>>) = NoCursor /\ Trace(<<>>) = NoTrace
  /\ Transcript(<<>>) = NoTranscript
  <1>1. <<>> \in Seq(Events) /\ Len(<<>>) = 0
    OBVIOUS
  <1>2. Cursor(<<>>) = NoCursor /\ Trace(<<>>) = NoTrace /\ Transcript(<<>>) = NoTranscript
    BY <1>1, CursorStep, TraceStep, TranscriptStep
  <1>3. LastTurn(<<>>) = 0
    BY <1>1 DEF LastTurn, SelectLastInSeq
  <1>4. Matched(NoCursor, NoTrace, NoTranscript)
    BY DEF Matched, NoCursor, NoTrace, NoTranscript, Rules!EmptyTrace
  <1>5. Counted(NoTrace, 0)
    BY DEF Counted, NoTrace, Rules!EmptyTrace
  <1>6. Recorded(<<>>, NoCursor, 0)
    BY <1>1 DEF Recorded, NoCursor
  <1> QED BY <1>2, <1>3, <1>4, <1>5, <1>6 DEF Sound

-----------------------------------------------------------------------------
(* Prefixes of logs. *)

Prefix(p, l) == Len(p) <= Len(l) /\ \A i \in 1..Len(p) : p[i] = l[i]

\* Wherever a sound log is cut, it is sound.
AllSound(l, n) == \A p \in Seq(Events) : Prefix(p, l) => Sound(p, n)

LEMMA PrefixIs ==
  ASSUME NEW S, NEW p \in Seq(S), NEW l \in Seq(S)
  PROVE  IsPrefix(p, l) <=> Prefix(p, l)
  <1>1. Len(p) \in Nat /\ Len(l) \in Nat
    OBVIOUS
  <1>2. SubSeq(p, 1, Len(p)) = p
    BY SubSeqFull
  <1>3. ASSUME Len(p) <= Len(l)
        PROVE  /\ SubSeq(l, 1, Len(p)) \in Seq(S) /\ Len(SubSeq(l, 1, Len(p))) = Len(p)
               /\ \A i \in 1..Len(p) : SubSeq(l, 1, Len(p))[i] = l[i]
    BY <1>1, <1>3, SubSeqProperties
  <1>4. ASSUME IsPrefix(p, l)  PROVE Prefix(p, l)
    BY <1>2, <1>3, <1>4 DEF IsPrefix, Prefix
  <1>5. ASSUME Prefix(p, l)  PROVE IsPrefix(p, l)
    <2>1. SubSeq(l, 1, Len(p)) = p
      BY <1>3, <1>5, SeqEqual DEF Prefix
    <2> QED BY <1>2, <1>5, <2>1 DEF IsPrefix, Prefix
  <1> QED BY <1>4, <1>5

LEMMA PrefixTransitive ==
  ASSUME NEW S, NEW p \in Seq(S), NEW l \in Seq(S), NEW r \in Seq(S), Prefix(p, l), Prefix(l, r)
  PROVE  Prefix(p, r)
  BY DEF Prefix

LEMMA PrefixOfAppend ==
  ASSUME NEW S, NEW p \in Seq(S), NEW l \in Seq(S), NEW e \in S
  PROVE  /\ Prefix(l, Append(l, e))
         /\ Prefix(p, Append(l, e)) => Prefix(p, l) \/ p = Append(l, e)
  <1> DEFINE r == Append(l, e)
  <1>1. /\ r \in Seq(S) /\ Len(r) = Len(l) + 1 /\ r[Len(l) + 1] = e
        /\ \A i \in 1..Len(l) : r[i] = l[i]
    OBVIOUS
  <1>2. Len(p) \in Nat /\ Len(l) \in Nat
    OBVIOUS
  <1> HIDE DEF r
  <1>3. Prefix(l, r)
    BY <1>1, <1>2 DEF Prefix
  <1>4. ASSUME Prefix(p, r)  PROVE Prefix(p, l) \/ p = r
    <2>1. CASE Len(p) = Len(r)
      BY <1>1, <1>4, <2>1, SeqEqual DEF Prefix
    <2>2. CASE Len(p) <= Len(l)
      BY <1>1, <1>2, <1>4, <2>2 DEF Prefix
    <2> QED BY <1>1, <1>2, <1>4, <2>1, <2>2 DEF Prefix
  <1> QED BY <1>3, <1>4 DEF r

\* A sequence followed by the first k elements of another.
LEMMA PrefixOfConcat ==
  ASSUME NEW S, NEW l \in Seq(S), NEW r \in Seq(S), NEW k \in 0..Len(r)
  PROVE  /\ SubSeq(r, 1, k) \in Seq(S) /\ Len(SubSeq(r, 1, k)) = k
         /\ \A i \in 1..k : SubSeq(r, 1, k)[i] = r[i]
         /\ Prefix(l, l \o SubSeq(r, 1, k)) /\ Prefix(l \o SubSeq(r, 1, k), l \o r)
         /\ l \o SubSeq(r, 1, k) \in Seq(S) /\ l \o r \in Seq(S)
  <1>1. /\ SubSeq(r, 1, k) \in Seq(S) /\ Len(SubSeq(r, 1, k)) = k
        /\ \A i \in 1..k : SubSeq(r, 1, k)[i] = r[i]
    BY SubSeqProperties
  <1>2. /\ l \o SubSeq(r, 1, k) \in Seq(S) /\ Len(l \o SubSeq(r, 1, k)) = Len(l) + k
        /\ \A i \in 1..(Len(l) + k) :
             (l \o SubSeq(r, 1, k))[i] = IF i <= Len(l) THEN l[i] ELSE SubSeq(r, 1, k)[i - Len(l)]
    BY <1>1, ConcatProperties
  <1>3. /\ l \o r \in Seq(S) /\ Len(l \o r) = Len(l) + Len(r)
        /\ \A i \in 1..(Len(l) + Len(r)) :
             (l \o r)[i] = IF i <= Len(l) THEN l[i] ELSE r[i - Len(l)]
    BY ConcatProperties
  <1>4. Prefix(l, l \o SubSeq(r, 1, k))
    BY <1>2 DEF Prefix
  <1>5. ASSUME NEW i \in 1..(Len(l) + k)  PROVE (l \o SubSeq(r, 1, k))[i] = (l \o r)[i]
    <2>1. i \in 1..(Len(l) + Len(r))
      OBVIOUS
    <2>2. CASE i <= Len(l)
      BY <1>2, <1>3, <2>1, <2>2
    <2>3. CASE ~(i <= Len(l))
      <3>1. i - Len(l) \in 1..k
        BY <2>3
      <3> QED BY <1>1, <1>2, <1>3, <2>1, <2>3, <3>1
    <2> QED BY <2>2, <2>3
  <1>6. Prefix(l \o SubSeq(r, 1, k), l \o r)
    BY <1>2, <1>3, <1>5 DEF Prefix
  <1> QED BY <1>1, <1>2, <1>3, <1>4, <1>6

\* What is missing of a log completes it.
LEMMA PrefixRest ==
  ASSUME NEW S, NEW p \in Seq(S), NEW l \in Seq(S), Prefix(p, l)
  PROVE  /\ SubSeq(l, Len(p) + 1, Len(l)) \in Seq(S)
         /\ Len(SubSeq(l, Len(p) + 1, Len(l))) = Len(l) - Len(p)
         /\ p \o SubSeq(l, Len(p) + 1, Len(l)) = l
  <1> DEFINE u == SubSeq(l, Len(p) + 1, Len(l))
  <1>1. Len(p) \in Nat /\ Len(l) \in Nat /\ Len(p) <= Len(l) /\ \A i \in 1..Len(p) : p[i] = l[i]
    BY DEF Prefix
  <1>2. /\ u \in Seq(S)
        /\ Len(u) = IF Len(p) + 1 <= Len(l) THEN Len(l) - (Len(p) + 1) + 1 ELSE 0
        /\ \A i \in 1..(Len(l) - (Len(p) + 1) + 1) : u[i] = l[Len(p) + 1 + i - 1]
    <2>1. \A i \in (Len(p) + 1)..Len(l) : l[i] \in S
      BY <1>1
    <2> QED BY <1>1, <2>1, SubSeqProperties
  <1> HIDE DEF u
  <1>3. Len(u) = Len(l) - Len(p) /\ \A i \in 1..Len(u) : u[i] = l[Len(p) + i]
    BY <1>1, <1>2
  <1>4. /\ p \o u \in Seq(S) /\ Len(p \o u) = Len(l)
        /\ \A i \in 1..Len(l) : (p \o u)[i] = IF i <= Len(p) THEN p[i] ELSE u[i - Len(p)]
    BY <1>1, <1>2, <1>3, ConcatProperties
  <1>5. ASSUME NEW i \in 1..Len(l)  PROVE (p \o u)[i] = l[i]
    <2>1. CASE i <= Len(p)
      BY <1>1, <1>4, <2>1
    <2>2. CASE ~(i <= Len(p))
      <3>1. i - Len(p) \in 1..Len(u) /\ Len(p) + (i - Len(p)) = i
        BY <1>1, <1>3, <2>2
      <3> QED BY <1>3, <1>4, <2>2, <3>1
    <2> QED BY <2>1, <2>2
  <1>6. p \o u = l
    BY <1>4, <1>5, SeqEqual
  <1> QED BY <1>2, <1>3, <1>6 DEF u

LEMMA SoundPrefix ==
  ASSUME NEW l \in Seq(Events), NEW n \in Nat, AllSound(l, n), NEW p \in Seq(Events), Prefix(p, l)
  PROVE  AllSound(p, n) /\ Sound(p, n)
  <1>1. Prefix(p, p)
    BY DEF Prefix
  <1> QED BY <1>1, PrefixTransitive DEF AllSound

LEMMA SoundAppend ==
  ASSUME NEW l \in Seq(Events), NEW n \in Nat, NEW m \in Nat, n <= m, AllSound(l, n),
         NEW e \in Events, Sound(Append(l, e), m)
  PROVE  AllSound(Append(l, e), m)
  <1> SUFFICES ASSUME NEW p \in Seq(Events), Prefix(p, Append(l, e))  PROVE Sound(p, m)
    BY DEF AllSound
  <1>1. CASE p = Append(l, e)
    BY <1>1
  <1>2. CASE Prefix(p, l)
    BY <1>2, SoundMore DEF AllSound
  <1> QED BY <1>1, <1>2, PrefixOfAppend

LEMMA EmptyAllSound == AllSound(<<>>, 0)
  <1> SUFFICES ASSUME NEW p \in Seq(Events), Prefix(p, <<>>)  PROVE Sound(p, 0)
    BY DEF AllSound
  <1>1. p = <<>>
    BY EmptySeq DEF Prefix
  <1> QED BY <1>1, EmptySound

-----------------------------------------------------------------------------
(* The closers of an interrupted turn. *)

\* The cursor of l has the entries of p from the k-th on left, in turn t and step s.
Unresolved(l, n, t, s, p, k) ==
  /\ AllSound(l, n) /\ Cursor(l).openTurn = t /\ Cursor(l).openStep = s
  /\ Len(Cursor(l).pending) = Len(p) - k
  /\ \A i \in 1..(Len(p) - k) : Cursor(l).pending[i] = p[i + k]

LEMMA AllSoundIs ==
  ASSUME NEW l \in Seq(Events), NEW n \in Nat, AllSound(l, n)
  PROVE  Sound(l, n) /\ Matched(Cursor(l), Trace(l), Transcript(l))
  <1>1. Prefix(l, l)
    BY DEF Prefix
  <1> QED BY <1>1 DEF AllSound, Sound

LEMMA InterruptedResultType ==
  ASSUME NEW t \in Nat, NEW x \in Entries
  PROVE  LET e == InterruptedResult(t, x) IN
           /\ e \in Events /\ e.type = "tool/result" /\ e.turn = t /\ e.step = x.step
           /\ CallOf(e) = x.call /\ (e.code = "TOOL_NOT_STARTED" <=> ~x.started)
  <1>1. x.call \in Calls /\ x.step \in Nat /\ x.started \in BOOLEAN
    BY DEF Entries
  <1>2. <<x.call>> \in Seq(Calls) /\ <<x.call>> # <<>> /\ <<x.call>>[1] = x.call
    <2> HIDE DEF Calls
    <2> QED BY <1>1
  <1> QED BY <1>1, <1>2 DEF InterruptedResult, CallEvent, CallOf, Events, Types, Codes

LEMMA ResolveOne ==
  ASSUME NEW l \in Seq(Events), NEW n \in Nat, NEW t \in Nat, NEW s \in Nat,
         NEW p \in Seq(Entries), NEW k \in 0..(Len(p) - 1), Unresolved(l, n, t, s, p, k)
  PROVE  /\ InterruptedResult(t, p[k + 1]) \in Events
         /\ Unresolved(Append(l, InterruptedResult(t, p[k + 1])), n, t, s, p, k + 1)
  <1> DEFINE e == InterruptedResult(t, p[k + 1])
             at == Cursor(l)
             r == Append(l, e)
  <1>1. k + 1 \in 1..Len(p) /\ Len(p) \in Nat /\ k \in Nat /\ p[k + 1] \in Entries
    OBVIOUS
  <1>2. /\ e \in Events /\ e.type = "tool/result" /\ e.turn = t /\ e.step = p[k + 1].step
        /\ CallOf(e) = p[k + 1].call /\ (e.code = "TOOL_NOT_STARTED" <=> ~p[k + 1].started)
    BY <1>1, InterruptedResultType
  <1>3. Sound(l, n) /\ Matched(Cursor(l), Trace(l), Transcript(l)) /\ AllSound(l, n)
    BY AllSoundIs DEF Unresolved
  <1>4. /\ at.pending \in Seq(Entries) /\ Len(at.pending) = Len(p) - k
        /\ \A i \in 1..(Len(p) - k) : at.pending[i] = p[i + k]
        /\ at.openTurn = t /\ at.openStep = s
    BY Readings DEF Unresolved, Cursors
  <1>5. at.pending # <<>> /\ at.pending[1] = p[k + 1] /\ 1 \in 1..Len(at.pending)
    BY <1>1, <1>4
  <1>6. at.pending[1].step = at.openStep
    BY <1>3, <1>5 DEF Matched
  <1>11. /\ Cursor(l).pending # <<>> /\ e.turn = Cursor(l).openTurn /\ e.step = Cursor(l).openStep
         /\ CallOf(e) = Cursor(l).pending[1].call
         /\ Cursor(l).pending[1].started \/ e.code = "TOOL_NOT_STARTED"
    BY <1>2, <1>4, <1>5, <1>6
  <1>12. e \in Events /\ e.type = "tool/result" /\ Sound(l, n)
    BY <1>2, <1>3
  <1> HIDE DEF e, r, at
  <1>7. /\ Sound(r, n)
        /\ Cursor(r).openTurn = e.turn /\ Cursor(r).openStep = e.step
        /\ Len(Cursor(r).pending) = Len(Cursor(l).pending) - 1
        /\ \A i \in 1..(Len(Cursor(l).pending) - 1) : Cursor(r).pending[i] = Cursor(l).pending[i + 1]
    BY <1>11, <1>12, AppendResult DEF r
  <1>8. AllSound(r, n)
    BY <1>2, <1>3, <1>7, SoundAppend DEF r
  <1>9. ASSUME NEW i \in 1..(Len(p) - (k + 1))  PROVE Cursor(r).pending[i] = p[i + (k + 1)]
    <2>1. i \in 1..(Len(at.pending) - 1) /\ i + 1 \in 1..(Len(p) - k) /\ (i + 1) + k = i + (k + 1)
      BY <1>1, <1>4
    <2>2. Cursor(r).pending[i] = at.pending[i + 1]
      BY <1>7, <2>1 DEF at
    <2> QED BY <1>4, <2>1, <2>2
  <1>10. Len(Cursor(r).pending) = Len(p) - (k + 1)
    BY <1>1, <1>4, <1>7 DEF at
  <1> QED BY <1>2, <1>4, <1>5, <1>6, <1>7, <1>8, <1>9, <1>10 DEF Unresolved, e, r, at

LEMMA ConcatNext ==
  ASSUME NEW S, NEW l \in Seq(S), NEW r \in Seq(S), NEW k \in 1..Len(r)
  PROVE  /\ l \o SubSeq(r, 1, k) = Append(l \o SubSeq(r, 1, k - 1), r[k])
         /\ l \o SubSeq(r, 1, k - 1) \in Seq(S)
  <1> DEFINE u == SubSeq(r, 1, k - 1)
  <1>1. u \in Seq(S) /\ r[k] \in S /\ <<r[k]>> \in Seq(S)
    <2>1. k - 1 \in 0..Len(r)
      OBVIOUS
    <2>2. u \in Seq(S)
      BY <2>1, PrefixOfConcat
    <2>3. r[k] \in S
      OBVIOUS
    <2> HIDE DEF u
    <2> QED BY <2>2, <2>3
  <1>2. SubSeq(r, 1, k) = u \o <<r[k]>>
    <2>1. 1 \in 1..Len(r) /\ k \in 1..Len(r)
      OBVIOUS
    <2> QED BY <2>1, SubSeqRecursiveSecond
  <1> HIDE DEF u
  <1>3. l \o (u \o <<r[k]>>) = (l \o u) \o <<r[k]>>
    BY <1>1, ConcatAssociative
  <1>4. l \o u \in Seq(S)
    BY <1>1, ConcatProperties
  <1>5. Append(l \o u, r[k]) = (l \o u) \o <<r[k]>>
    BY <1>1, <1>4, AppendIsConcat
  <1> QED BY <1>2, <1>3, <1>4, <1>5 DEF u

\* Three lists in a row, seen from either end.
Joined(a, b, c, d) == a = b \o c \o d /\ a = b \o (c \o d)

LEMMA JoinedLists ==
  ASSUME NEW S, NEW b \in Seq(S), NEW c \in Seq(S), NEW d \in Seq(S), NEW a, a = b \o c \o d
  PROVE  Joined(a, b, c, d)
  BY ConcatAssociative DEF Joined

CallClosers(t, p) == [i \in DOMAIN p |-> InterruptedResult(t, p[i])]

LEMMA CallClosersType ==
  ASSUME NEW t \in Nat, NEW p \in Seq(Entries)
  PROVE  /\ CallClosers(t, p) \in Seq(Events) /\ Len(CallClosers(t, p)) = Len(p)
         /\ \A i \in 1..Len(p) : CallClosers(t, p)[i] = InterruptedResult(t, p[i])
  <1>1. DOMAIN p = 1..Len(p) /\ Len(p) \in Nat /\ \A i \in 1..Len(p) : p[i] \in Entries
    OBVIOUS
  <1>2. \A i \in 1..Len(p) : InterruptedResult(t, p[i]) \in Events
    BY <1>1, InterruptedResultType
  <1>3. CallClosers(t, p) \in Seq(Events) /\ DOMAIN CallClosers(t, p) = 1..Len(p)
    BY <1>1, <1>2, IsASeq DEF CallClosers
  <1> QED BY <1>1, <1>3, LenProperties DEF CallClosers

LEMMA ResolveAll ==
  ASSUME NEW l \in Seq(Events), NEW n \in Nat, NEW t \in Nat, NEW s \in Nat,
         NEW p \in Seq(Entries), Unresolved(l, n, t, s, p, 0)
  PROVE  Unresolved(l \o CallClosers(t, p), n, t, s, p, Len(p))
  <1> DEFINE R == CallClosers(t, p)
             Done(k) == Unresolved(l \o SubSeq(R, 1, k), n, t, s, p, k)
             Bad == {k \in 0..Len(p) : ~Done(k)}
  <1>1. /\ R \in Seq(Events) /\ Len(R) = Len(p) /\ Len(p) \in Nat
        /\ \A i \in 1..Len(p) : R[i] = InterruptedResult(t, p[i])
    BY CallClosersType
  <1> HIDE DEF R
  <1>2. Done(0)
    <2>1. SubSeq(R, 1, 0) = <<>>
      BY SubSeqEmpty
    <2> QED BY <2>1, ConcatEmptySeq
  <1>3. ASSUME NEW k \in 1..Len(p), Done(k - 1)  PROVE Done(k)
    <2> DEFINE u == l \o SubSeq(R, 1, k - 1)   j == k - 1
    <2>1. u \in Seq(Events) /\ l \o SubSeq(R, 1, k) = Append(u, R[k])
      BY <1>1, ConcatNext
    <2>2. j \in 0..(Len(p) - 1) /\ k = j + 1 /\ Unresolved(u, n, t, s, p, j)
      BY <1>1, <1>3
    <2> HIDE DEF u, j
    <2>3. Unresolved(Append(u, InterruptedResult(t, p[k])), n, t, s, p, k)
      BY <2>1, <2>2, ResolveOne
    <2> QED BY <1>1, <2>1, <2>3
  <1> HIDE DEF Done
  <1>4. Bad = {}
    <2> SUFFICES ASSUME Bad # {}  PROVE FALSE
      OBVIOUS
    <2>1. Bad \in SUBSET Nat
      OBVIOUS
    <2>2. PICK k \in Bad : \A m \in Bad : k <= m
      BY <2>1, LeastNumber
    <2>3. k # 0
      BY <1>2, <2>2
    <2>4. k \in 1..Len(p) /\ k - 1 \in 0..Len(p) /\ k - 1 \notin Bad
      BY <1>1, <2>2, <2>3
    <2> QED BY <1>3, <2>2, <2>4
  <1>5. Done(Len(p))
    BY <1>1, <1>4
  <1>6. SubSeq(R, 1, Len(p)) = R
    BY <1>1, SubSeqFull
  <1> QED BY <1>5, <1>6 DEF Done, R

\* The results in r say that a call did not start only of calls l does not record.
DeniesUnrecorded(r, l) ==
  \A i \in 1..Len(r) : r[i].type = "tool/result" /\ r[i].code = "TOOL_NOT_STARTED" =>
    \A k \in 1..Len(l) : ~(l[k].type = "tool/call" /\ CallOf(l[k]) = CallOf(r[i]))

\* The closers of a sound log complete it to a sound log with no open turn, and tell
\* only of calls the log does not record that they did not start.
LEMMA ClosersSound ==
  ASSUME NEW l \in Seq(Events), NEW n \in Nat, AllSound(l, n)
  PROVE  /\ InterruptedTurnClosers(l) \in Seq(Events)
         /\ AllSound(l \o InterruptedTurnClosers(l), n)
         /\ Cursor(l \o InterruptedTurnClosers(l)).openTurn = 0
         /\ DeniesUnrecorded(InterruptedTurnClosers(l), l)
  <1> DEFINE at == Cursor(l)   t == at.openTurn   s == at.openStep   p == at.pending
             R == CallClosers(t, p)   SC == StepCloser(at)
             TE == Boundary("turn/end", t, 0)   SE == Boundary("step/end", t, s)
             C == InterruptedTurnClosers(l)
  <1>1. /\ Sound(l, n) /\ Matched(at, Trace(l), Transcript(l)) /\ Recorded(l, at, n)
        /\ at \in Cursors /\ t \in Nat /\ s \in Nat /\ p \in Seq(Entries)
    BY AllSoundIs, Readings DEF Cursors, Sound
  <1>2. CASE t = 0
    <2>1. C = <<>>
      BY <1>2 DEF InterruptedTurnClosers
    <2>2. l \o <<>> = l
      BY ConcatEmptySeq
    <2>3. C \in Seq(Events) /\ Len(C) = 0
      BY <2>1
    <2> QED BY <1>2, <2>1, <2>2, <2>3 DEF DeniesUnrecorded
  <1>3. CASE t # 0
    <2>1. C = R \o SC \o <<TE>>
      BY <1>3 DEF InterruptedTurnClosers, CallClosers
    <2>2. /\ R \in Seq(Events) /\ Len(R) = Len(p) /\ Len(p) \in Nat
          /\ \A i \in 1..Len(p) : R[i] = InterruptedResult(t, p[i])
      BY <1>1, CallClosersType
    <2>3. /\ TE \in Events /\ TE.type = "turn/end" /\ TE.turn = t
          /\ SE \in Events /\ SE.type = "step/end" /\ SE.turn = t /\ SE.step = s
      <3>1. <<>> \in Seq(Calls)
        OBVIOUS
      <3> QED BY <1>1, <3>1 DEF Boundary, Events, Types, Codes
    <2>4. SC = IF s = 0 THEN <<>> ELSE <<SE>>
      BY DEF StepCloser
    <2> DEFINE u == l \o R   v == u \o SC
    <2>5. SC \in Seq(Events) /\ <<TE>> \in Seq(Events) /\ u \in Seq(Events) /\ v \in Seq(Events)
      <3>1. SC \in Seq(Events) /\ <<TE>> \in Seq(Events)
        BY <2>3, <2>4
      <3> HIDE DEF SC, R, TE
      <3> QED BY <2>2, <3>1, ConcatProperties
    <2> HIDE DEF at, R, SC, TE, SE, C
    <2>6. Unresolved(l, n, t, s, p, 0)
      <3>1. Len(p) \in Nat /\ \A i \in 1..(Len(p) - 0) : i + 0 = i
        BY <2>2
      <3> QED BY <3>1, <2>2 DEF Unresolved, at
    <2>7. Unresolved(u, n, t, s, p, Len(p))
      BY <1>1, <2>6, ResolveAll DEF R
    <2>8. /\ AllSound(u, n) /\ Sound(u, n) /\ Cursor(u).openTurn = t /\ Cursor(u).openStep = s
          /\ Cursor(u).pending = <<>>
      <3>1. AllSound(u, n) /\ Cursor(u).openTurn = t /\ Cursor(u).openStep = s /\ Len(Cursor(u).pending) = 0
        BY <2>2, <2>7 DEF Unresolved
      <3>2. Cursor(u).pending \in Seq(Entries)
        BY <2>5, Readings DEF Cursors
      <3> QED BY <2>5, <3>1, <3>2, AllSoundIs, EmptySeq
    <2> HIDE DEF u
    <2>9. AllSound(v, n) /\ Sound(v, n) /\ Cursor(v).openTurn = t /\ Cursor(v).openStep = 0
      <3>1. CASE s = 0
        <4>1. v = u
          BY <2>4, <2>5, <3>1, ConcatEmptySeq
        <4> QED BY <2>8, <3>1, <4>1
      <3>2. CASE s # 0
        <4>1. v = Append(u, SE)
          BY <2>3, <2>4, <2>5, <3>2, AppendIsConcat
        <4>2. SE.turn = Cursor(u).openTurn /\ SE.step = Cursor(u).openStep /\ Cursor(u).openStep # 0
          BY <2>3, <2>8, <3>2
        <4>3. /\ Sound(Append(u, SE), n)
              /\ Cursor(Append(u, SE)) = [openTurn |-> SE.turn, openStep |-> 0, pending |-> <<>>]
          BY <2>3, <2>5, <2>8, <4>2, AppendStepEnd
        <4>4. AllSound(Append(u, SE), n)
          BY <2>3, <2>5, <2>8, <4>3, SoundAppend
        <4> QED BY <2>3, <4>1, <4>3, <4>4
      <3> QED BY <3>1, <3>2
    <2>10. l \o C = Append(v, TE)
      <3>1. R \o SC \in Seq(Events)
        BY <2>2, <2>5, ConcatProperties
      <3>2. l \o ((R \o SC) \o <<TE>>) = (l \o (R \o SC)) \o <<TE>>
        BY <2>5, <3>1, ConcatAssociative
      <3>3. l \o (R \o SC) = v
        <4>1. SC \in Seq(Events) /\ R \in Seq(Events)
          BY <2>2, <2>5
        <4>2. (l \o R) \o SC = l \o (R \o SC)
          BY <4>1, ConcatAssociative
        <4> QED BY <4>2 DEF u
      <3>4. v \o <<TE>> = Append(v, TE)
        BY <2>3, <2>5, AppendIsConcat
      <3> QED BY <2>1, <3>2, <3>3, <3>4
    <2>11. AllSound(l \o C, n) /\ Cursor(l \o C).openTurn = 0
      <3> HIDE DEF v
      <3>1. TE.turn = Cursor(v).openTurn /\ Cursor(v).openTurn # 0
        BY <1>3, <2>3, <2>9
      <3>2. Sound(Append(v, TE), n) /\ Cursor(Append(v, TE)) = NoCursor
        BY <2>3, <2>5, <2>9, <3>1, AppendTurnEnd
      <3>3. AllSound(Append(v, TE), n)
        BY <2>3, <2>5, <2>9, <3>2, SoundAppend
      <3> QED BY <2>10, <3>2, <3>3 DEF NoCursor
    <2>12. C \in Seq(Events)
      <3>1. R \o SC \in Seq(Events)
        BY <2>2, <2>5, ConcatProperties
      <3> QED BY <2>1, <2>5, <3>1, ConcatProperties
    <2>13. ASSUME NEW i \in 1..Len(C), C[i].type = "tool/result", C[i].code = "TOOL_NOT_STARTED",
                  NEW k \in 1..Len(l), l[k].type = "tool/call", CallOf(l[k]) = CallOf(C[i])
           PROVE  FALSE
      <3> DEFINE W == SC \o <<TE>>
      <3>1. /\ W \in Seq(Events) /\ Len(W) \in Nat
            /\ \A j \in 1..Len(W) : W[j].type # "tool/result"
        BY <2>3, <2>4, <2>5
      <3>2. C = R \o W
        <4>1. SC \in Seq(Events) /\ R \in Seq(Events) /\ <<TE>> \in Seq(Events)
          BY <2>2, <2>5
        <4>2. Joined(C, R, SC, <<TE>>)
          BY <2>1, <4>1, JoinedLists
        <4> QED BY <4>2 DEF Joined
      <3> HIDE DEF W
      <3>3. /\ Len(C) = Len(R) + Len(W)
            /\ \A j \in 1..(Len(R) + Len(W)) : C[j] = IF j <= Len(R) THEN R[j] ELSE W[j - Len(R)]
        BY <2>2, <3>1, <3>2, ConcatProperties
      <3>4. i \in 1..Len(p) /\ C[i] = R[i]
        <4>1. CASE ~(i <= Len(R))
          <5>1. C[i] = W[i - Len(R)] /\ i - Len(R) \in 1..Len(W)
            BY <2>2, <3>1, <3>3, <4>1
          <5> QED BY <2>13, <3>1, <5>1
        <4>2. CASE i <= Len(R)
          BY <2>2, <3>1, <3>3, <4>2
        <4> QED BY <4>1, <4>2
      <3>5. C[i] = InterruptedResult(t, p[i]) /\ p[i] \in Entries
        BY <1>1, <2>2, <3>4
      <3>6. CallOf(C[i]) = p[i].call /\ ~p[i].started
        BY <1>1, <2>13, <3>5, InterruptedResultType
      <3> QED BY <1>1, <2>13, <3>4, <3>6 DEF Recorded
    <2> QED BY <2>11, <2>12, <2>13 DEF C, DeniesUnrecorded
  <1> QED BY <1>2, <1>3

-----------------------------------------------------------------------------
(* The inductive invariant. *)

\* What is open in the log is what the loop's phase says.
LoopMatches ==
  LET at == Cursor(log)
      tr == Trace(log)
  IN /\ loop = "idle" => at.openTurn = 0 /\ tr.nextTurn = turn + 1
     /\ loop = "turn" =>
          at.openTurn = turn /\ turn # 0 /\ at.openStep = 0 /\ tr.nextStep = step + 1
     /\ loop \in {"step", "requested", "tools"} =>
          /\ at.openTurn = turn /\ turn # 0 /\ at.openStep = step /\ step # 0
          /\ loop # "tools" => at.pending = <<>>

\* What each phase of the process leaves empty.
PhaseInv ==
  /\ ~torn => tail = <<>>
  /\ process = "truncated" => ~torn
  /\ process \in {"live", "down"} => unsaved = <<>>
  /\ process # "live" => log = <<>> /\ loop = "idle" /\ \A c \in Calls : dispatch[c] = "none"

\* The live log is sound and the loop is where it says; what the next process would
\* read is sound; so is what a prepared repair would leave, with no turn open.
LiveLog == process = "live" => AllSound(log, issued) /\ LoopMatches
FileLog == AllSound(stored \o tail, issued)
RepairLog ==
  process \in {"prepared", "truncated"} =>
    AllSound(stored \o unsaved, issued) /\ Cursor(stored \o unsaved).openTurn = 0

\* What the model was shown had no call without a result, and is durable.
ShownLog == Transcript(shown) = NoTranscript /\ Prefix(shown, stored)

HasCall(l, c, n) == \E k \in 1..Len(l) : k <= n /\ l[k].type = "tool/call" /\ CallOf(l[k]) = c
NoResult(l, c) == \A k \in 1..Len(l) : ~(l[k].type = "tool/result" /\ CallOf(l[k]) = c)
NotDenied(l, c) ==
  \A k \in 1..Len(l) : ~(l[k].type = "tool/result" /\ CallOf(l[k]) = c
                         /\ l[k].code = "TOOL_NOT_STARTED")

\* A call that is being dispatched is recorded and has no result; its checkpoint waits
\* for a log that records it; it runs once.
CallLog ==
  \A c \in Calls :
    /\ dispatch[c] # "none" => HasCall(log, c, Len(log)) /\ NoResult(log, c)
    /\ dispatch[c] = "waiting" => HasCall(log, c, awaited[c])
    /\ c \in ran => dispatch[c] \in {"none", "running"}

\* RunsAreRecorded, in the terms of this module.
RanLog ==
  \A c \in ran : /\ HasCall(stored, c, Len(stored))
                 /\ NotDenied(log, c) /\ NotDenied(stored, c)
                 /\ NotDenied(tail, c) /\ NotDenied(unsaved, c)

IInv ==
  /\ TypeOK /\ PhaseInv
  /\ LiveLog /\ FileLog /\ RepairLog /\ ShownLog
  /\ CallLog /\ RanLog

-----------------------------------------------------------------------------
(* Types. *)

LEMMA BoundaryType ==
  ASSUME NEW k \in {"turn/start", "turn/end", "step/start", "step/end"}, NEW t \in Nat, NEW s \in Nat
  PROVE  /\ Boundary(k, t, s) \in Events /\ Boundary(k, t, s).type = k
         /\ Boundary(k, t, s).turn = t /\ Boundary(k, t, s).step = s
  <1>1. <<>> \in Seq(Calls)
    OBVIOUS
  <1> QED BY <1>1 DEF Boundary, Events, Types, Codes

LEMMA CallEventType ==
  ASSUME NEW k \in {"tool/call", "tool/result"}, NEW t \in Nat, NEW s \in Nat, NEW c \in Calls,
         NEW code \in Codes
  PROVE  /\ CallEvent(k, t, s, c, code) \in Events /\ CallEvent(k, t, s, c, code).type = k
         /\ CallEvent(k, t, s, c, code).turn = t /\ CallEvent(k, t, s, c, code).step = s
         /\ CallOf(CallEvent(k, t, s, c, code)) = c /\ CallEvent(k, t, s, c, code).code = code
  <1>1. <<c>> \in Seq(Calls) /\ <<c>> # <<>> /\ <<c>>[1] = c
    <2> HIDE DEF Calls
    <2> QED OBVIOUS
  <1> QED BY <1>1 DEF CallEvent, CallOf, Events, Types, Codes

\* The message that makes the model's next n calls.
Message(t, s, n) ==
  [Boundary("assistant/message", t, s) EXCEPT !.calls = [i \in 1..n |-> issued + i]]

LEMMA MessageType ==
  ASSUME NEW t \in Nat, NEW s \in Nat, NEW n \in Nat, issued \in Nat, issued + n <= MaxCalls
  PROVE  /\ Message(t, s, n) \in Events /\ Message(t, s, n).type = "assistant/message"
         /\ Message(t, s, n).turn = t /\ Message(t, s, n).step = s
         /\ Len(Message(t, s, n).calls) = n
         /\ \A i \in 1..n : Message(t, s, n).calls[i] = issued + i
  <1> DEFINE cs == [i \in 1..n |-> issued + i]
  <1>0. MaxCalls \in Nat
    BY CrashRecoveryAssumption
  <1>1. \A i \in 1..n : issued + i \in Calls
    BY <1>0 DEF Calls
  <1>2. cs \in Seq(Calls) /\ DOMAIN cs = 1..n /\ \A i \in 1..n : cs[i] = issued + i
    BY <1>1, IsASeq
  <1>3. Len(cs) = n
    BY <1>2, LenProperties
  <1> HIDE DEF cs
  <1> DEFINE m == Message(t, s, n)
  <1>4. m = [Boundary("assistant/message", t, s) EXCEPT !.calls = cs]
    BY DEF Message, cs
  <1>5. m = [type |-> "assistant/message", turn |-> t, step |-> s, calls |-> cs, code |-> ""]
    BY <1>4 DEF Boundary
  <1> HIDE DEF m
  <1>6. m \in Events
    BY <1>2, <1>5 DEF Events, Types, Codes
  <1>7. m.type = "assistant/message" /\ m.turn = t /\ m.step = s /\ m.calls = cs
    BY <1>5
  <1> QED BY <1>2, <1>3, <1>6, <1>7 DEF m

\* An appended log, with the file as it was.
LEMMA AppendTypes ==
  ASSUME TypeOK, PhaseInv, NEW e \in Events, AppendEvent(e)
  PROVE  /\ process = "live" /\ process' = process /\ log' = Append(log, e)
         /\ log' \in Seq(Events)
         /\ stored' = stored /\ tail' = tail /\ torn' = torn /\ encoding' = encoding
         /\ unsaved' = unsaved /\ seen' = seen /\ faults' = faults
         /\ Prefix(log, log') /\ IsPrefix(stored', log')
  <1>1. /\ process = "live" /\ process' = process /\ log' = Append(log, e)
        /\ stored' = stored /\ tail' = tail /\ torn' = torn /\ encoding' = encoding
        /\ unsaved' = unsaved /\ seen' = seen /\ faults' = faults
    BY DEF AppendEvent, fileVars, recoveryVars
  <1>2. log \in Seq(Events) /\ stored \in Seq(Events) /\ IsPrefix(stored, log)
    BY <1>1 DEF TypeOK
  <1>3. log' \in Seq(Events)
    BY <1>1, <1>2
  <1>4. Prefix(log, log') /\ Prefix(stored, log)
    BY <1>1, <1>2, PrefixOfAppend, PrefixIs
  <1>5. Prefix(stored, log')
    BY <1>2, <1>3, <1>4, PrefixTransitive
  <1>6. IsPrefix(stored, log')
    BY <1>2, <1>3, <1>5, PrefixIs
  <1> QED BY <1>1, <1>3, <1>4, <1>6

\* A step of the loop that appends an event.
LEMMA LoopAppendTypes ==
  ASSUME TypeOK, PhaseInv, NEW e \in Events, AppendEvent(e),
         loop' \in {"idle", "turn", "step", "requested", "tools"}, turn' \in Nat, step' \in Nat,
         issued' \in 0..MaxCalls, shown' = shown, awaited' = awaited, ran' = ran,
         dispatch' \in [Calls -> {"none", "called", "waiting", "running"}]
  PROVE  TypeOK' /\ PhaseInv'
  <1>1. /\ process = "live" /\ process' = process /\ log' \in Seq(Events)
        /\ stored' = stored /\ tail' = tail /\ torn' = torn /\ encoding' = encoding
        /\ unsaved' = unsaved /\ seen' = seen /\ faults' = faults /\ IsPrefix(stored', log')
    BY AppendTypes
  <1>2. TypeOK'
    BY <1>1 DEF TypeOK
  <1>3. PhaseInv'
    BY <1>1 DEF PhaseInv
  <1> QED BY <1>2, <1>3

-----------------------------------------------------------------------------
(* What an appended event keeps. *)

LEMMA AllSoundMore ==
  ASSUME NEW l \in Seq(Events), NEW n \in Nat, NEW m \in Nat, n <= m, AllSound(l, n)
  PROVE  AllSound(l, m)
  BY SoundMore DEF AllSound

\* While the process is live the file is a prefix of the log.
LEMMA LiveFile ==
  ASSUME TypeOK, process = "live"
  PROVE  /\ log \in Seq(Events) /\ stored \in Seq(Events) /\ Prefix(stored, log)
         /\ ~torn /\ tail = <<>> /\ stored \o tail = stored
  <1>1. log \in Seq(Events) /\ stored \in Seq(Events) /\ IsPrefix(stored, log) /\ ~torn /\ tail = <<>>
    BY DEF TypeOK
  <1>2. Prefix(stored, log)
    BY <1>1, PrefixIs
  <1>3. stored \o <<>> = stored
    BY <1>1, ConcatEmptySeq
  <1> QED BY <1>1, <1>2, <1>3

LEMMA LoopAppendLogs ==
  ASSUME IInv, NEW e \in Events, AppendEvent(e), issued' \in Nat, issued <= issued',
         Sound(Append(log, e), issued'), LoopMatches', shown' = shown
  PROVE  LiveLog' /\ FileLog' /\ RepairLog' /\ ShownLog'
  <1>1. /\ process = "live" /\ process' = process /\ log' = Append(log, e) /\ log \in Seq(Events)
        /\ stored' = stored /\ tail' = tail /\ issued \in Nat /\ stored \in Seq(Events)
        /\ stored \o tail \in Seq(Events)
    BY AppendTypes, LiveFile DEF IInv, TypeOK
  <1>2. AllSound(log, issued) /\ AllSound(stored \o tail, issued) /\ ShownLog
    BY <1>1 DEF IInv, LiveLog, FileLog
  <1>3. AllSound(Append(log, e), issued')
    BY <1>1, <1>2, SoundAppend
  <1>4. AllSound(stored \o tail, issued')
    BY <1>1, <1>2, AllSoundMore
  <1>5. LiveLog'
    BY <1>1, <1>3 DEF LiveLog
  <1>6. FileLog'
    BY <1>1, <1>4 DEF FileLog
  <1>7. RepairLog'
    BY <1>1 DEF RepairLog
  <1>8. ShownLog'
    BY <1>1, <1>2 DEF ShownLog
  <1> QED BY <1>5, <1>6, <1>7, <1>8

\* What logs record stays recorded, and what they do not deny.
LEMMA HasCallKept ==
  ASSUME NEW l \in Seq(Events), NEW r \in Seq(Events), Prefix(l, r), NEW c, NEW n, HasCall(l, c, n)
  PROVE  HasCall(r, c, n) /\ HasCall(r, c, Len(r))
  BY DEF Prefix, HasCall

LEMMA NoResultAppend ==
  ASSUME NEW l \in Seq(Events), NEW e \in Events, NEW c, NoResult(l, c),
         ~(e.type = "tool/result" /\ CallOf(e) = c)
  PROVE  NoResult(Append(l, e), c)
  <1>1. /\ Len(Append(l, e)) = Len(l) + 1 /\ Append(l, e)[Len(l) + 1] = e /\ Len(l) \in Nat
        /\ \A k \in 1..Len(l) : Append(l, e)[k] = l[k]
    OBVIOUS
  <1>2. ASSUME NEW k \in 1..Len(Append(l, e)), k # Len(l) + 1  PROVE k \in 1..Len(l)
    BY <1>1, <1>2
  <1> QED BY <1>1, <1>2 DEF NoResult

Denies(e, c) == e.type = "tool/result" /\ CallOf(e) = c /\ e.code = "TOOL_NOT_STARTED"

LEMMA NotDeniedAppend ==
  ASSUME NEW l \in Seq(Events), NEW e \in Events, NEW c, NotDenied(l, c), ~Denies(e, c)
  PROVE  NotDenied(Append(l, e), c)
  <1>1. /\ Len(Append(l, e)) = Len(l) + 1 /\ Append(l, e)[Len(l) + 1] = e /\ Len(l) \in Nat
        /\ \A k \in 1..Len(l) : Append(l, e)[k] = l[k]
    OBVIOUS
  <1>2. ASSUME NEW k \in 1..Len(Append(l, e)), k # Len(l) + 1  PROVE k \in 1..Len(l)
    BY <1>1, <1>2
  <1> QED BY <1>1, <1>2 DEF NotDenied, Denies

LEMMA NotDeniedPrefix ==
  ASSUME NEW l \in Seq(Events), NEW r \in Seq(Events), Prefix(l, r), NEW c, NotDenied(r, c)
  PROVE  NotDenied(l, c)
  BY DEF Prefix, NotDenied

LEMMA NotDeniedConcat ==
  ASSUME NEW l \in Seq(Events), NEW r \in Seq(Events), NEW c
  PROVE  /\ NotDenied(l \o r, c) <=> NotDenied(l, c) /\ NotDenied(r, c)
         /\ NotDenied(<<>>, c)
  <1>1. /\ Len(l \o r) = Len(l) + Len(r) /\ Len(l) \in Nat /\ Len(r) \in Nat
        /\ \A i \in 1..(Len(l) + Len(r)) : (l \o r)[i] = IF i <= Len(l) THEN l[i] ELSE r[i - Len(l)]
    BY ConcatProperties
  <1>2. ASSUME NotDenied(l, c), NotDenied(r, c), NEW k \in 1..Len(l \o r)
        PROVE  ~Denies((l \o r)[k], c)
    <2>1. CASE k <= Len(l)
      BY <1>1, <1>2, <2>1 DEF NotDenied, Denies
    <2>2. CASE ~(k <= Len(l))
      <3>1. k - Len(l) \in 1..Len(r) /\ (l \o r)[k] = r[k - Len(l)]
        BY <1>1, <2>2
      <3> QED BY <1>2, <3>1 DEF NotDenied, Denies
    <2> QED BY <2>1, <2>2
  <1>3. ASSUME NotDenied(l \o r, c), NEW k \in 1..Len(r)  PROVE ~Denies(r[k], c)
    <2>1. Len(l) + k \in 1..Len(l \o r) /\ (l \o r)[Len(l) + k] = r[k]
      BY <1>1
    <2> QED BY <1>3, <2>1 DEF NotDenied, Denies
  <1>4. ASSUME NotDenied(l \o r, c), NEW k \in 1..Len(l)  PROVE ~Denies(l[k], c)
    <2>1. k \in 1..Len(l \o r) /\ (l \o r)[k] = l[k]
      BY <1>1
    <2> QED BY <1>4, <2>1 DEF NotDenied, Denies
  <1>5. NotDenied(<<>>, c)
    BY DEF NotDenied
  <1> QED BY <1>2, <1>3, <1>4, <1>5 DEF NotDenied, Denies

LEMMA NoResultNotDenied ==
  ASSUME NEW l, NEW c, NoResult(l, c)
  PROVE  NotDenied(l, c)
  BY DEF NoResult, NotDenied

\* An event that concerns no call.
LEMMA LoopAppendCalls ==
  ASSUME IInv, NEW e \in Events, AppendEvent(e), e.type \notin {"tool/call", "tool/result"},
         UNCHANGED callVars
  PROVE  CallLog' /\ RanLog'
  <1>1. /\ log' = Append(log, e) /\ log \in Seq(Events) /\ log' \in Seq(Events) /\ Prefix(log, log')
        /\ stored' = stored /\ tail' = tail /\ unsaved' = unsaved
        /\ dispatch' = dispatch /\ awaited' = awaited /\ ran' = ran
    BY AppendTypes DEF IInv, TypeOK, callVars
  <1>2. CallLog'
    <2> SUFFICES ASSUME NEW c \in Calls
                 PROVE  /\ dispatch'[c] # "none" => HasCall(log', c, Len(log')) /\ NoResult(log', c)
                        /\ dispatch'[c] = "waiting" => HasCall(log', c, awaited'[c])
                        /\ c \in ran' => dispatch'[c] \in {"none", "running"}
      BY DEF CallLog
    <2>1. /\ dispatch[c] # "none" => HasCall(log, c, Len(log)) /\ NoResult(log, c)
          /\ dispatch[c] = "waiting" => HasCall(log, c, awaited[c])
          /\ c \in ran => dispatch[c] \in {"none", "running"}
      BY DEF IInv, CallLog
    <2>2. NoResult(log, c) => NoResult(log', c)
      BY <1>1, NoResultAppend
    <2> QED BY <1>1, <2>1, <2>2, HasCallKept
  <1>3. RanLog'
    <2> SUFFICES ASSUME NEW c \in ran'
                 PROVE  /\ HasCall(stored', c, Len(stored'))
                        /\ NotDenied(log', c) /\ NotDenied(stored', c)
                        /\ NotDenied(tail', c) /\ NotDenied(unsaved', c)
      BY DEF RanLog
    <2>1. NotDenied(log, c) /\ ~Denies(e, c)
      BY <1>1 DEF IInv, RanLog, Denies
    <2>2. NotDenied(log', c)
      BY <1>1, <2>1, NotDeniedAppend
    <2> QED BY <1>1, <2>2 DEF IInv, RanLog
  <1> QED BY <1>2, <1>3

-----------------------------------------------------------------------------
(* The steps of the loop. *)

LEMMA LiveFacts ==
  ASSUME IInv, process = "live"
  PROVE  /\ log \in Seq(Events) /\ AllSound(log, issued) /\ Sound(log, issued)
         /\ Matched(Cursor(log), Trace(log), Transcript(log))
         /\ issued \in Nat /\ turn \in Nat /\ step \in Nat
         /\ LoopMatches /\ Prefix(stored, log)
         /\ Cursor(log) \in Cursors /\ Trace(log) \in CallTraces
  <1>1. /\ log \in Seq(Events) /\ issued \in Nat /\ turn \in Nat /\ step \in Nat
        /\ AllSound(log, issued) /\ LoopMatches
    BY DEF IInv, TypeOK, LiveLog
  <1>2. Prefix(stored, log)
    BY LiveFile DEF IInv
  <1> QED BY <1>1, <1>2, AllSoundIs, Readings

LEMMA TurnStartKeeps ==
  ASSUME IInv, TurnStart
  PROVE  IInv'
  <1> DEFINE e == Boundary("turn/start", turn + 1, 0)
  <1>1. /\ loop = "idle" /\ loop' = "turn" /\ turn' = turn + 1 /\ step' = 0 /\ AppendEvent(e)
        /\ issued' = issued /\ shown' = shown /\ UNCHANGED callVars
    BY DEF TurnStart
  <1>2. process = "live" /\ log' = Append(log, e)
    BY <1>1 DEF AppendEvent
  <1>3. e \in Events /\ e.type = "turn/start" /\ e.turn = turn + 1
    BY BoundaryType, <1>2, LiveFacts
  <1> HIDE DEF e
  <1>4. Cursor(log).openTurn = 0 /\ Trace(log).nextTurn = turn + 1
    BY <1>1, <1>2, LiveFacts DEF LoopMatches
  <1>5. /\ Sound(Append(log, e), issued)
        /\ Cursor(Append(log, e)) = [openTurn |-> e.turn, openStep |-> 0, pending |-> <<>>]
        /\ Trace(Append(log, e)).nextStep = 1 /\ e.turn # 0
    BY <1>2, <1>3, <1>4, LiveFacts, AppendTurnStart
  <1>6. LoopMatches'
    BY <1>1, <1>2, <1>3, <1>5 DEF LoopMatches
  <1>7. LiveLog' /\ FileLog' /\ RepairLog' /\ ShownLog'
    <2>1. issued' \in Nat /\ issued <= issued' /\ Sound(Append(log, e), issued')
      BY <1>1, <1>2, <1>5, LiveFacts
    <2> QED BY <1>1, <1>3, <1>6, <2>1, LoopAppendLogs
  <1>8. CallLog' /\ RanLog'
    BY <1>1, <1>3, LoopAppendCalls
  <1>9. TypeOK' /\ PhaseInv'
    BY <1>1, <1>3, LoopAppendTypes DEF IInv, TypeOK, callVars
  <1> QED BY <1>7, <1>8, <1>9 DEF IInv

LEMMA TurnEndKeeps ==
  ASSUME IInv, TurnEnd
  PROVE  IInv'
  <1> DEFINE e == Boundary("turn/end", turn, 0)
  <1>1. /\ loop = "turn" /\ loop' = "idle" /\ turn' = turn /\ step' = step /\ AppendEvent(e)
        /\ issued' = issued /\ shown' = shown /\ UNCHANGED callVars
    BY DEF TurnEnd
  <1>2. process = "live" /\ log' = Append(log, e)
    BY <1>1 DEF AppendEvent
  <1>3. e \in Events /\ e.type = "turn/end" /\ e.turn = turn
    BY BoundaryType, <1>2, LiveFacts
  <1> HIDE DEF e
  <1>4. Cursor(log).openTurn = turn /\ turn # 0 /\ Cursor(log).openStep = 0
    BY <1>1, <1>2, LiveFacts DEF LoopMatches
  <1>5. /\ Sound(Append(log, e), issued) /\ Cursor(Append(log, e)) = NoCursor
        /\ Trace(Append(log, e)).nextTurn = e.turn + 1
    BY <1>2, <1>3, <1>4, LiveFacts, AppendTurnEnd
  <1>6. LoopMatches'
    BY <1>1, <1>2, <1>3, <1>5 DEF LoopMatches, NoCursor
  <1>7. LiveLog' /\ FileLog' /\ RepairLog' /\ ShownLog'
    <2>1. issued' \in Nat /\ issued <= issued' /\ Sound(Append(log, e), issued')
      BY <1>1, <1>2, <1>5, LiveFacts
    <2> QED BY <1>1, <1>3, <1>6, <2>1, LoopAppendLogs
  <1>8. CallLog' /\ RanLog'
    BY <1>1, <1>3, LoopAppendCalls
  <1>9. TypeOK' /\ PhaseInv'
    BY <1>1, <1>3, LoopAppendTypes DEF IInv, TypeOK, callVars
  <1> QED BY <1>7, <1>8, <1>9 DEF IInv

LEMMA StepStartKeeps ==
  ASSUME IInv, StepStart
  PROVE  IInv'
  <1> DEFINE e == Boundary("step/start", turn, step + 1)
  <1>1. /\ loop = "turn" /\ loop' = "step" /\ turn' = turn /\ step' = step + 1 /\ AppendEvent(e)
        /\ issued' = issued /\ shown' = shown /\ UNCHANGED callVars
    BY DEF StepStart
  <1>2. process = "live" /\ log' = Append(log, e)
    BY <1>1 DEF AppendEvent
  <1>3. e \in Events /\ e.type = "step/start" /\ e.turn = turn /\ e.step = step + 1
    BY BoundaryType, <1>2, LiveFacts
  <1> HIDE DEF e
  <1>4. /\ Cursor(log).openTurn = turn /\ turn # 0 /\ Cursor(log).openStep = 0
        /\ Trace(log).nextStep = step + 1
    BY <1>1, <1>2, LiveFacts DEF LoopMatches
  <1>5. /\ Sound(Append(log, e), issued) /\ e.step # 0
        /\ Cursor(Append(log, e)) = [openTurn |-> e.turn, openStep |-> e.step, pending |-> <<>>]
    BY <1>2, <1>3, <1>4, LiveFacts, AppendStepStart
  <1>6. LoopMatches'
    BY <1>1, <1>2, <1>3, <1>4, <1>5 DEF LoopMatches
  <1>7. LiveLog' /\ FileLog' /\ RepairLog' /\ ShownLog'
    <2>1. issued' \in Nat /\ issued <= issued' /\ Sound(Append(log, e), issued')
      BY <1>1, <1>2, <1>5, LiveFacts
    <2> QED BY <1>1, <1>3, <1>6, <2>1, LoopAppendLogs
  <1>8. CallLog' /\ RanLog'
    BY <1>1, <1>3, LoopAppendCalls
  <1>9. TypeOK' /\ PhaseInv'
    BY <1>1, <1>3, LoopAppendTypes DEF IInv, TypeOK, callVars
  <1> QED BY <1>7, <1>8, <1>9 DEF IInv

LEMMA StepEndKeeps ==
  ASSUME IInv, StepEnd
  PROVE  IInv'
  <1> DEFINE e == Boundary("step/end", turn, step)
  <1>1. /\ loop \in {"step", "requested", "tools"} /\ Cursor(log).pending = <<>>
        /\ loop' = "turn" /\ turn' = turn /\ step' = step /\ AppendEvent(e)
        /\ issued' = issued /\ shown' = shown /\ UNCHANGED callVars
    BY DEF StepEnd, Unanswered
  <1>2. process = "live" /\ log' = Append(log, e)
    BY <1>1 DEF AppendEvent
  <1>3. e \in Events /\ e.type = "step/end" /\ e.turn = turn /\ e.step = step
    BY BoundaryType, <1>2, LiveFacts
  <1> HIDE DEF e
  <1>4. Cursor(log).openTurn = turn /\ turn # 0 /\ Cursor(log).openStep = step /\ step # 0
    BY <1>1, <1>2, LiveFacts DEF LoopMatches
  <1>5. /\ Sound(Append(log, e), issued)
        /\ Cursor(Append(log, e)) = [openTurn |-> e.turn, openStep |-> 0, pending |-> <<>>]
        /\ Trace(Append(log, e)).nextStep = e.step + 1
    BY <1>1, <1>2, <1>3, <1>4, LiveFacts, AppendStepEnd
  <1>6. LoopMatches'
    BY <1>1, <1>2, <1>3, <1>4, <1>5 DEF LoopMatches
  <1>7. LiveLog' /\ FileLog' /\ RepairLog' /\ ShownLog'
    <2>1. issued' \in Nat /\ issued <= issued' /\ Sound(Append(log, e), issued')
      BY <1>1, <1>2, <1>5, LiveFacts
    <2> QED BY <1>1, <1>3, <1>6, <2>1, LoopAppendLogs
  <1>8. CallLog' /\ RanLog'
    BY <1>1, <1>3, LoopAppendCalls
  <1>9. TypeOK' /\ PhaseInv'
    BY <1>1, <1>3, LoopAppendTypes DEF IInv, TypeOK, callVars
  <1> QED BY <1>7, <1>8, <1>9 DEF IInv

\* The message's calls are numbered from the last one issued.
LEMMA RespondKeeps ==
  ASSUME IInv, NEW n \in 0..MaxCalls, Respond(n)
  PROVE  IInv'
  <1> DEFINE e == Message(turn, step, n)
  <1>1. /\ loop = "requested" /\ loop' = "tools" /\ turn' = turn /\ step' = step /\ AppendEvent(e)
        /\ issued + n <= MaxCalls /\ issued' = issued + n /\ shown' = shown /\ UNCHANGED callVars
    BY DEF Respond, Message
  <1>2. process = "live" /\ log' = Append(log, e)
    BY <1>1 DEF AppendEvent
  <1>0. n \in Nat /\ MaxCalls \in Nat
    BY CrashRecoveryAssumption
  <1>3. /\ e \in Events /\ e.type = "assistant/message" /\ e.turn = turn /\ e.step = step
        /\ Len(e.calls) = n /\ \A i \in 1..n : e.calls[i] = issued + i
    <2>1. turn \in Nat /\ step \in Nat /\ issued \in Nat /\ issued + n <= MaxCalls /\ n \in Nat
      BY <1>0, <1>1, <1>2, LiveFacts
    <2> QED BY <2>1, MessageType
  <1> HIDE DEF e
  <1>4. /\ Cursor(log).openTurn = turn /\ turn # 0 /\ Cursor(log).openStep = step /\ step # 0
        /\ Cursor(log).pending = <<>>
    BY <1>1, <1>2, LiveFacts DEF LoopMatches
  <1>10. issued \in Nat /\ issued' \in Nat /\ issued <= issued' /\ issued' \in 0..MaxCalls
    BY <1>0, <1>1, <1>2, LiveFacts
  <1>11. /\ \A i \in 1..Len(e.calls) : issued < e.calls[i] /\ e.calls[i] <= issued'
         /\ \A i, j \in 1..Len(e.calls) : e.calls[i] = e.calls[j] => i = j
    <2> DEFINE cs == e.calls
    <2>1. Len(cs) = n /\ \A i \in 1..n : cs[i] = issued + i
      BY <1>3
    <2> HIDE DEF cs
    <2>2. \A i \in 1..Len(cs) : issued < cs[i] /\ cs[i] <= issued'
      BY <1>0, <1>1, <1>10, <2>1
    <2>3. \A i, j \in 1..Len(cs) : cs[i] = cs[j] => i = j
      BY <1>0, <1>10, <2>1
    <2> QED BY <2>2, <2>3 DEF cs
  <1>5. /\ Sound(Append(log, e), issued')
        /\ Cursor(Append(log, e)).openTurn = e.turn /\ Cursor(Append(log, e)).openStep = e.step
    <2> DEFINE m == issued'
    <2>1. m \in Nat /\ issued <= m /\ \A i \in 1..Len(e.calls) : issued < e.calls[i] /\ e.calls[i] <= m
      BY <1>10, <1>11
    <2>2. /\ e.turn = Cursor(log).openTurn /\ e.step = Cursor(log).openStep
          /\ Cursor(log).openStep # 0
      BY <1>3, <1>4
    <2> HIDE DEF m
    <2>3. /\ Sound(Append(log, e), m)
          /\ Cursor(Append(log, e)).openTurn = e.turn /\ Cursor(Append(log, e)).openStep = e.step
      BY <1>2, <1>3, <1>4, <1>11, <2>1, <2>2, LiveFacts, AppendMessage
    <2> QED BY <2>3 DEF m
  <1>6. LoopMatches'
    BY <1>1, <1>2, <1>3, <1>4, <1>5 DEF LoopMatches
  <1>7. LiveLog' /\ FileLog' /\ RepairLog' /\ ShownLog'
    BY <1>1, <1>3, <1>5, <1>6, <1>10, LoopAppendLogs
  <1>8. CallLog' /\ RanLog'
    BY <1>1, <1>3, LoopAppendCalls
  <1>9. TypeOK' /\ PhaseInv'
    BY <1>1, <1>3, <1>10, LoopAppendTypes DEF IInv, TypeOK, callVars
  <1> QED BY <1>7, <1>8, <1>9 DEF IInv

\* A request shows a log without an unanswered call, and that log is durable.
LEMMA RequestKeeps ==
  ASSUME IInv, Request
  PROVE  IInv'
  <1>1. /\ process = "live" /\ loop = "step" /\ stored = log /\ loop' = "requested" /\ shown' = log
        /\ log' = log /\ stored' = stored /\ tail' = tail /\ torn' = torn /\ encoding' = encoding
        /\ process' = process /\ unsaved' = unsaved /\ seen' = seen /\ faults' = faults
        /\ turn' = turn /\ step' = step /\ issued' = issued
        /\ dispatch' = dispatch /\ awaited' = awaited /\ ran' = ran
    BY DEF Request, Checkpointed, fileVars, recoveryVars, callVars
  <1>2. TypeOK' /\ PhaseInv'
    BY <1>1 DEF IInv, TypeOK, PhaseInv
  <1>3. LoopMatches'
    BY <1>1, LiveFacts DEF LoopMatches
  <1>4. LiveLog' /\ FileLog' /\ RepairLog'
    BY <1>1, <1>3 DEF IInv, LiveLog, FileLog, RepairLog
  <1>5. ShownLog'
    <2>1. Cursor(log).pending = <<>>
      BY <1>1, LiveFacts DEF LoopMatches
    <2>2. Transcript(log) = NoTranscript
      <3> DEFINE said == Transcript(log)
      <3>1. said \in Transcripts /\ said.valid /\ Len(said.pending) = 0
        BY <1>1, <2>1, LiveFacts, Readings DEF Matched
      <3> HIDE DEF said
      <3>2. said.pending = <<>> /\ said.valid = TRUE /\ said = [pending |-> said.pending, valid |-> said.valid]
        BY <3>1, EmptySeq DEF Transcripts
      <3> QED BY <3>2 DEF said, NoTranscript
    <2>3. Prefix(log, log)
      BY <1>1, LiveFacts DEF Prefix
    <2> QED BY <1>1, <2>2, <2>3 DEF ShownLog
  <1>6. CallLog' /\ RanLog'
    BY <1>1 DEF IInv, CallLog, RanLog
  <1> QED BY <1>2, <1>4, <1>5, <1>6 DEF IInv

-----------------------------------------------------------------------------
(* The tool calls. *)

LEMMA PendingFacts ==
  ASSUME IInv, process = "live"
  PROVE  /\ Unanswered = Cursor(log).pending /\ Unanswered \in Seq(Entries)
         /\ DOMAIN Unanswered = 1..Len(Unanswered) /\ Len(Unanswered) \in Nat
         /\ \A i \in 1..Len(Unanswered) :
              /\ Unanswered[i].call \in Calls /\ Unanswered[i].step = Cursor(log).openStep
              /\ NoResult(log, Unanswered[i].call)
              /\ ~Unanswered[i].started =>
                   \A n : ~HasCall(log, Unanswered[i].call, n)
  <1> DEFINE p == Cursor(log).pending
  <1>1. Matched(Cursor(log), Trace(log), Transcript(log)) /\ Recorded(log, Cursor(log), issued)
    BY LiveFacts DEF Sound
  <1>2. p \in Seq(Entries)
    BY LiveFacts DEF Cursors
  <1>3. p = Unanswered
    BY DEF Unanswered
  <1>4. ASSUME NEW i \in 1..Len(p)
        PROVE  /\ p[i].call \in Calls /\ p[i].step = Cursor(log).openStep
               /\ NoResult(log, p[i].call)
               /\ ~p[i].started => \A n : ~HasCall(log, p[i].call, n)
    <2>1. p[i] \in Entries
      BY <1>2
    <2>2. p[i].call \in Calls
      BY <2>1 DEF Entries
    <2>3. p[i].step = Cursor(log).openStep
      BY <1>1 DEF Matched
    <2>4. \A k \in 1..Len(log) : log[k].type \in {"tool/call", "tool/result"} =>
            (p[i].call = CallOf(log[k]) => log[k].type = "tool/call" /\ p[i].started)
      BY <1>1 DEF Recorded
    <2>5. NoResult(log, p[i].call)
      BY <2>4 DEF NoResult
    <2>6. ASSUME ~p[i].started, NEW n  PROVE ~HasCall(log, p[i].call, n)
      BY <2>4, <2>6 DEF HasCall
    <2> QED BY <2>2, <2>3, <2>5, <2>6
  <1> HIDE DEF p
  <1>5. p = Cursor(log).pending
    BY DEF p
  <1>6. DOMAIN p = 1..Len(p) /\ Len(p) \in Nat
    BY <1>2
  <1> QED BY <1>2, <1>3, <1>4, <1>5, <1>6

\* A call starts when it is recorded, once: no body of it has run.
LEMMA StartCallKeeps ==
  ASSUME IInv, NEW i \in Calls, StartCall(i)
  PROVE  IInv'
  <1> DEFINE c == Unanswered[i].call
             e == CallEvent("tool/call", turn, step, c, "")
  <1>1. /\ loop = "tools" /\ i \in DOMAIN Unanswered /\ ~Unanswered[i].started /\ AppendEvent(e)
        /\ dispatch' = [dispatch EXCEPT ![c] = "called"]
        /\ loop' = loop /\ turn' = turn /\ step' = step /\ issued' = issued /\ shown' = shown
        /\ awaited' = awaited /\ ran' = ran
    BY DEF StartCall, loopVars
  <1>2. process = "live" /\ log' = Append(log, e)
    BY <1>1 DEF AppendEvent
  <1>3. /\ i \in 1..Len(Unanswered) /\ c \in Calls /\ Unanswered = Cursor(log).pending
        /\ NoResult(log, c) /\ \A n : ~HasCall(log, c, n)
    BY <1>1, <1>2, PendingFacts
  <1> HIDE DEF c
  <1>4. e \in Events /\ e.type = "tool/call" /\ e.turn = turn /\ e.step = step /\ CallOf(e) = c
    <2> DEFINE k == "tool/call"   none == ""
    <2>1. turn \in Nat /\ step \in Nat /\ none \in Codes /\ k \in {"tool/call", "tool/result"}
      BY <1>2, LiveFacts DEF Codes
    <2>2. e = CallEvent(k, turn, step, c, none)
      OBVIOUS
    <2> HIDE DEF k, none, e
    <2>3. /\ CallEvent(k, turn, step, c, none) \in Events /\ CallEvent(k, turn, step, c, none).type = k
          /\ CallEvent(k, turn, step, c, none).turn = turn /\ CallEvent(k, turn, step, c, none).step = step
          /\ CallOf(CallEvent(k, turn, step, c, none)) = c /\ CallEvent(k, turn, step, c, none).code = none
      BY <1>3, <2>1, CallEventType
    <2> QED BY <2>2, <2>3 DEF k
  <1> HIDE DEF e
  <1>5. /\ Cursor(log).openTurn = turn /\ turn # 0 /\ Cursor(log).openStep = step /\ step # 0
    BY <1>1, <1>2, LiveFacts DEF LoopMatches
  <1>6. /\ Sound(Append(log, e), issued)
        /\ Cursor(Append(log, e)).openTurn = e.turn /\ Cursor(Append(log, e)).openStep = e.step
    <2>1. CallOf(e) = Cursor(log).pending[i].call /\ i \in 1..Len(Cursor(log).pending)
      BY <1>3, <1>4 DEF c
    <2>2. e.turn = Cursor(log).openTurn /\ e.step = Cursor(log).openStep
      BY <1>4, <1>5
    <2> QED BY <1>2, <1>4, <2>1, <2>2, LiveFacts, AppendCall
  <1>7. LoopMatches'
    BY <1>1, <1>2, <1>4, <1>5, <1>6 DEF LoopMatches
  <1>8. LiveLog' /\ FileLog' /\ RepairLog' /\ ShownLog'
    <2>1. issued' \in Nat /\ issued <= issued' /\ Sound(Append(log, e), issued')
      BY <1>1, <1>2, <1>6, LiveFacts
    <2> QED BY <1>1, <1>4, <1>7, <2>1, LoopAppendLogs
  <1>9. TypeOK' /\ PhaseInv'
    <2>1. dispatch' \in [Calls -> {"none", "called", "waiting", "running"}]
      BY <1>1, <1>3 DEF IInv, TypeOK
    <2> QED BY <1>1, <1>4, <2>1, LoopAppendTypes DEF IInv, TypeOK
  <1>10. /\ log \in Seq(Events) /\ log' \in Seq(Events) /\ Prefix(log, log') /\ stored' = stored
         /\ tail' = tail /\ unsaved' = unsaved
    BY <1>1, <1>4, AppendTypes DEF IInv, TypeOK
  <1>11. c \notin ran
    <2>1. Prefix(stored, log) /\ stored \in Seq(Events)
      BY <1>2, LiveFacts DEF IInv, TypeOK
    <2>2. c \in ran => HasCall(stored, c, Len(stored))
      BY DEF IInv, RanLog
    <2> QED BY <1>3, <1>10, <2>1, <2>2, HasCallKept
  <1>12. CallLog'
    <2> SUFFICES ASSUME NEW d \in Calls
                 PROVE  /\ dispatch'[d] # "none" => HasCall(log', d, Len(log')) /\ NoResult(log', d)
                        /\ dispatch'[d] = "waiting" => HasCall(log', d, awaited'[d])
                        /\ d \in ran' => dispatch'[d] \in {"none", "running"}
      BY DEF CallLog
    <2>1. /\ dispatch[d] # "none" => HasCall(log, d, Len(log)) /\ NoResult(log, d)
          /\ dispatch[d] = "waiting" => HasCall(log, d, awaited[d])
          /\ d \in ran => dispatch[d] \in {"none", "running"}
      BY DEF IInv, CallLog
    <2>2. NoResult(log, d) => NoResult(log', d)
      BY <1>2, <1>4, <1>10, NoResultAppend
    <2>3. dispatch'[d] = IF d = c THEN "called" ELSE dispatch[d]
      BY <1>1, <1>3 DEF IInv, TypeOK
    <2>4. CASE d # c
      BY <1>1, <1>10, <2>1, <2>2, <2>3, <2>4, HasCallKept
    <2>5. CASE d = c
      <3>1. HasCall(log', c, Len(log'))
        <4>1. Len(log') = Len(log) + 1 /\ log'[Len(log) + 1] = e /\ Len(log) \in Nat
          BY <1>2, <1>4, <1>10
        <4> QED BY <1>4, <4>1 DEF HasCall
      <3> QED BY <1>1, <1>3, <1>11, <2>2, <2>3, <2>5, <3>1
    <2> QED BY <2>4, <2>5
  <1>13. RanLog'
    <2> SUFFICES ASSUME NEW d \in ran'
                 PROVE  /\ HasCall(stored', d, Len(stored'))
                        /\ NotDenied(log', d) /\ NotDenied(stored', d)
                        /\ NotDenied(tail', d) /\ NotDenied(unsaved', d)
      BY DEF RanLog
    <2>1. NotDenied(log, d) /\ ~Denies(e, d)
      BY <1>1, <1>4 DEF IInv, RanLog, Denies
    <2>2. NotDenied(log', d)
      BY <1>2, <1>4, <1>10, <2>1, NotDeniedAppend
    <2> QED BY <1>1, <1>10, <2>2 DEF IInv, RanLog
  <1> QED BY <1>8, <1>9, <1>12, <1>13 DEF IInv

\* A step that leaves log and file alone keeps what is said of them.
LEMMA LogsUnchanged ==
  ASSUME IInv, UNCHANGED <<log, fileVars, recoveryVars, loopVars>>
  PROVE  LiveLog' /\ FileLog' /\ RepairLog' /\ ShownLog'
  <1>1. /\ log' = log /\ stored' = stored /\ tail' = tail /\ process' = process
        /\ unsaved' = unsaved /\ loop' = loop /\ turn' = turn /\ step' = step
        /\ issued' = issued /\ shown' = shown
    BY DEF fileVars, recoveryVars, loopVars
  <1>2. LoopMatches => LoopMatches'
    BY <1>1 DEF LoopMatches
  <1> QED BY <1>1, <1>2 DEF IInv, LiveLog, FileLog, RepairLog, ShownLog

LEMMA CheckpointKeeps ==
  ASSUME IInv, NEW c \in Calls, Checkpoint(c)
  PROVE  IInv'
  <1>1. /\ process = "live" /\ dispatch[c] = "called"
        /\ dispatch' = [dispatch EXCEPT ![c] = "waiting"]
        /\ awaited' = [awaited EXCEPT ![c] = Len(log)] /\ ran' = ran
        /\ UNCHANGED <<log, fileVars, recoveryVars, loopVars>>
    BY DEF Checkpoint
  <1>2. LiveLog' /\ FileLog' /\ RepairLog' /\ ShownLog'
    BY <1>1, LogsUnchanged
  <1>3. TypeOK' /\ PhaseInv'
    <2>1. Len(log) \in Nat
      BY <1>1, LiveFacts
    <2>2. TypeOK'
      BY <1>1, <2>1 DEF IInv, TypeOK, fileVars, recoveryVars, loopVars
    <2>3. PhaseInv'
      BY <1>1 DEF IInv, PhaseInv, fileVars, recoveryVars, loopVars
    <2> QED BY <2>2, <2>3
  <1>4. CallLog'
    <2> SUFFICES ASSUME NEW d \in Calls
                 PROVE  /\ dispatch'[d] # "none" => HasCall(log', d, Len(log')) /\ NoResult(log', d)
                        /\ dispatch'[d] = "waiting" => HasCall(log', d, awaited'[d])
                        /\ d \in ran' => dispatch'[d] \in {"none", "running"}
      BY DEF CallLog
    <2>1. /\ dispatch'[d] = IF d = c THEN "waiting" ELSE dispatch[d]
          /\ awaited'[d] = IF d = c THEN Len(log) ELSE awaited[d]
      BY <1>1 DEF IInv, TypeOK
    <2> QED BY <1>1, <2>1 DEF IInv, CallLog
  <1>5. RanLog'
    BY <1>1 DEF IInv, RanLog, fileVars, recoveryVars
  <1> QED BY <1>2, <1>3, <1>4, <1>5 DEF IInv

\* The body runs once what its checkpoint waited for, its call among it, is durable.
LEMMA RunBodyKeeps ==
  ASSUME IInv, NEW c \in Calls, RunBody(c)
  PROVE  IInv'
  <1>1. /\ process = "live" /\ dispatch[c] = "waiting" /\ Len(stored) >= awaited[c]
        /\ dispatch' = [dispatch EXCEPT ![c] = "running"] /\ ran' = ran \cup {c}
        /\ awaited' = awaited
        /\ UNCHANGED <<log, fileVars, recoveryVars, loopVars>>
    BY DEF RunBody
  <1>2. LiveLog' /\ FileLog' /\ RepairLog' /\ ShownLog'
    BY <1>1, LogsUnchanged
  <1>3. TypeOK' /\ PhaseInv'
    <2>1. TypeOK'
      BY <1>1 DEF IInv, TypeOK, fileVars, recoveryVars, loopVars
    <2>2. PhaseInv'
      BY <1>1 DEF IInv, PhaseInv, fileVars, recoveryVars, loopVars
    <2> QED BY <2>1, <2>2
  <1>4. CallLog'
    <2> SUFFICES ASSUME NEW d \in Calls
                 PROVE  /\ dispatch'[d] # "none" => HasCall(log', d, Len(log')) /\ NoResult(log', d)
                        /\ dispatch'[d] = "waiting" => HasCall(log', d, awaited'[d])
                        /\ d \in ran' => dispatch'[d] \in {"none", "running"}
      BY DEF CallLog
    <2>1. dispatch'[d] = IF d = c THEN "running" ELSE dispatch[d]
      BY <1>1 DEF IInv, TypeOK
    <2> QED BY <1>1, <2>1 DEF IInv, CallLog
  <1>5. RanLog'
    <2>1. /\ HasCall(stored, c, Len(stored))
          /\ NotDenied(log, c) /\ NotDenied(stored, c) /\ NotDenied(tail, c) /\ NotDenied(unsaved, c)
      <3>1. HasCall(log, c, awaited[c]) /\ NoResult(log, c) /\ awaited[c] \in Nat
        BY <1>1 DEF IInv, CallLog, TypeOK
      <3>2. /\ log \in Seq(Events) /\ stored \in Seq(Events) /\ Prefix(stored, log)
            /\ tail = <<>> /\ unsaved = <<>>
        BY <1>1, LiveFile DEF IInv, PhaseInv
      <3>3. HasCall(stored, c, Len(stored))
        BY <1>1, <3>1, <3>2 DEF HasCall, Prefix
      <3>4. NotDenied(log, c) /\ NotDenied(stored, c)
        BY <3>1, <3>2, NoResultNotDenied, NotDeniedPrefix
      <3>5. NotDenied(<<>>, c)
        BY <3>2, NotDeniedConcat
      <3> QED BY <3>2, <3>3, <3>4, <3>5
    <2> QED BY <1>1, <2>1 DEF IInv, RanLog, fileVars, recoveryVars
  <1> QED BY <1>2, <1>3, <1>4, <1>5 DEF IInv

\* A result says that the tool did not start only of a call that was not dispatched.
LEMMA CommitResultKeeps ==
  ASSUME IInv, NEW code \in Codes, CommitResult(code)
  PROVE  IInv'
  <1> DEFINE c == Head(Unanswered).call
             e == CallEvent("tool/result", turn, step, c, code)
  <1>1. /\ loop = "tools" /\ Unanswered # <<>> /\ Head(Unanswered).started /\ AppendEvent(e)
        /\ code = "TOOL_NOT_STARTED" => dispatch[c] = "called"
        /\ dispatch' = [dispatch EXCEPT ![c] = "none"]
        /\ loop' = loop /\ turn' = turn /\ step' = step /\ issued' = issued /\ shown' = shown
        /\ awaited' = awaited /\ ran' = ran
    BY DEF CommitResult, loopVars
  <1>2. process = "live" /\ log' = Append(log, e)
    BY <1>1 DEF AppendEvent
  <1>3. /\ Unanswered = Cursor(log).pending /\ 1 \in 1..Len(Unanswered)
        /\ Head(Unanswered) = Unanswered[1] /\ c \in Calls /\ c = Unanswered[1].call
    <2>1. /\ Unanswered = Cursor(log).pending /\ Unanswered \in Seq(Entries)
          /\ Len(Unanswered) \in Nat
          /\ \A i \in 1..Len(Unanswered) : Unanswered[i].call \in Calls
      BY <1>2, PendingFacts
    <2>2. 1 \in 1..Len(Unanswered) /\ Head(Unanswered) = Unanswered[1]
      BY <1>1, <2>1
    <2> QED BY <2>1, <2>2
  <1> HIDE DEF c
  <1>4. /\ e \in Events /\ e.type = "tool/result" /\ e.turn = turn /\ e.step = step /\ CallOf(e) = c
        /\ e.code = code
    <2> DEFINE k == "tool/result"
    <2>1. turn \in Nat /\ step \in Nat /\ k \in {"tool/call", "tool/result"}
      BY <1>2, LiveFacts
    <2>2. e = CallEvent(k, turn, step, c, code)
      OBVIOUS
    <2> HIDE DEF k, e
    <2>3. /\ CallEvent(k, turn, step, c, code) \in Events /\ CallEvent(k, turn, step, c, code).type = k
          /\ CallEvent(k, turn, step, c, code).turn = turn /\ CallEvent(k, turn, step, c, code).step = step
          /\ CallOf(CallEvent(k, turn, step, c, code)) = c /\ CallEvent(k, turn, step, c, code).code = code
      BY <1>3, <2>1, CallEventType
    <2> QED BY <2>2, <2>3 DEF k
  <1> HIDE DEF e
  <1>5. /\ Cursor(log).openTurn = turn /\ turn # 0 /\ Cursor(log).openStep = step /\ step # 0
    BY <1>1, <1>2, LiveFacts DEF LoopMatches
  <1>6. /\ Sound(Append(log, e), issued)
        /\ Cursor(Append(log, e)).openTurn = e.turn /\ Cursor(Append(log, e)).openStep = e.step
    <2>1. /\ CallOf(e) = Cursor(log).pending[1].call /\ Cursor(log).pending # <<>>
          /\ Cursor(log).pending[1].started
      BY <1>1, <1>3, <1>4
    <2>2. e.turn = Cursor(log).openTurn /\ e.step = Cursor(log).openStep
      BY <1>4, <1>5
    <2> QED BY <1>2, <1>4, <2>1, <2>2, LiveFacts, AppendResult
  <1>7. LoopMatches'
    BY <1>1, <1>2, <1>4, <1>5, <1>6 DEF LoopMatches
  <1>8. LiveLog' /\ FileLog' /\ RepairLog' /\ ShownLog'
    <2>1. issued' \in Nat /\ issued <= issued' /\ Sound(Append(log, e), issued')
      BY <1>1, <1>2, <1>6, LiveFacts
    <2> QED BY <1>1, <1>4, <1>7, <2>1, LoopAppendLogs
  <1>9. TypeOK' /\ PhaseInv'
    <2>1. dispatch' \in [Calls -> {"none", "called", "waiting", "running"}]
      BY <1>1, <1>3 DEF IInv, TypeOK
    <2> QED BY <1>1, <1>4, <2>1, LoopAppendTypes DEF IInv, TypeOK
  <1>10. /\ log \in Seq(Events) /\ log' \in Seq(Events) /\ Prefix(log, log') /\ stored' = stored
         /\ tail' = tail /\ unsaved' = unsaved
    BY <1>1, <1>4, AppendTypes DEF IInv, TypeOK
  <1>11. CallLog'
    <2> SUFFICES ASSUME NEW d \in Calls
                 PROVE  /\ dispatch'[d] # "none" => HasCall(log', d, Len(log')) /\ NoResult(log', d)
                        /\ dispatch'[d] = "waiting" => HasCall(log', d, awaited'[d])
                        /\ d \in ran' => dispatch'[d] \in {"none", "running"}
      BY DEF CallLog
    <2>1. /\ dispatch[d] # "none" => HasCall(log, d, Len(log)) /\ NoResult(log, d)
          /\ dispatch[d] = "waiting" => HasCall(log, d, awaited[d])
          /\ d \in ran => dispatch[d] \in {"none", "running"}
      BY DEF IInv, CallLog
    <2>2. d # c /\ NoResult(log, d) => NoResult(log', d)
      BY <1>2, <1>4, <1>10, NoResultAppend
    <2>3. dispatch'[d] = IF d = c THEN "none" ELSE dispatch[d]
      BY <1>1, <1>3 DEF IInv, TypeOK
    <2> QED BY <1>1, <1>10, <2>1, <2>2, <2>3, HasCallKept
  <1>12. RanLog'
    <2> SUFFICES ASSUME NEW d \in ran'
                 PROVE  /\ HasCall(stored', d, Len(stored'))
                        /\ NotDenied(log', d) /\ NotDenied(stored', d)
                        /\ NotDenied(tail', d) /\ NotDenied(unsaved', d)
      BY DEF RanLog
    <2>1. NotDenied(log, d)
      BY <1>1 DEF IInv, RanLog
    <2>2. ~Denies(e, d)
      <3>1. dispatch[d] # "called" /\ d \in Calls
        BY <1>1 DEF IInv, CallLog, TypeOK
      <3> QED BY <1>1, <1>4, <3>1 DEF Denies
    <2>3. NotDenied(log', d)
      BY <1>2, <1>4, <1>10, <2>1, <2>2, NotDeniedAppend
    <2> QED BY <1>1, <1>10, <2>3 DEF IInv, RanLog
  <1> QED BY <1>8, <1>9, <1>11, <1>12 DEF IInv

-----------------------------------------------------------------------------
(* The file and the recovery. *)

LEMMA PersistKeeps ==
  ASSUME IInv, Persist
  PROVE  IInv'
  <1>1. PICK n \in 1..Len(Unstored) : stored' = stored \o SubSeq(Unstored, 1, n)
    BY DEF Persist
  <1>2. /\ process = "live" /\ log' = log /\ tail' = tail /\ torn' = torn /\ encoding' = encoding
        /\ process' = process /\ unsaved' = unsaved /\ seen' = seen /\ faults' = faults
        /\ loop' = loop /\ turn' = turn /\ step' = step /\ issued' = issued /\ shown' = shown
        /\ dispatch' = dispatch /\ awaited' = awaited /\ ran' = ran
    BY DEF Persist, recoveryVars, loopVars, callVars
  <1>3. /\ log \in Seq(Events) /\ stored \in Seq(Events) /\ Prefix(stored, log) /\ tail = <<>>
        /\ issued \in Nat /\ AllSound(log, issued)
    BY <1>2, LiveFile, LiveFacts DEF IInv
  <1>4. stored' \in Seq(Events) /\ Prefix(stored, stored') /\ Prefix(stored', log)
    <2>1. Unstored \in Seq(Events) /\ stored \o Unstored = log
      BY <1>3, PrefixRest DEF Unstored
    <2>2. n \in 0..Len(Unstored)
      BY <1>1
    <2> QED BY <1>1, <1>3, <2>1, <2>2, PrefixOfConcat
  <1>5. TypeOK' /\ PhaseInv'
    <2>1. IsPrefix(stored', log)
      BY <1>3, <1>4, PrefixIs
    <2>2. TypeOK'
      BY <1>2, <1>4, <2>1 DEF IInv, TypeOK
    <2>3. PhaseInv'
      BY <1>2 DEF IInv, PhaseInv
    <2> QED BY <2>2, <2>3
  <1>6. LiveLog' /\ RepairLog'
    <2>1. LoopMatches => LoopMatches'
      BY <1>2 DEF LoopMatches
    <2> QED BY <1>2, <2>1 DEF IInv, LiveLog, RepairLog
  <1>7. FileLog'
    <2>1. AllSound(stored', issued)
      BY <1>3, <1>4, SoundPrefix
    <2>2. stored' \o <<>> = stored'
      BY <1>4, ConcatEmptySeq
    <2> QED BY <1>2, <1>3, <2>1, <2>2 DEF FileLog
  <1>8. ShownLog'
    <2>1. shown \in Seq(Events) /\ Prefix(shown, stored) /\ Transcript(shown) = NoTranscript
      BY DEF IInv, TypeOK, ShownLog
    <2>2. Prefix(shown, stored')
      BY <1>3, <1>4, <2>1, PrefixTransitive
    <2> QED BY <1>2, <2>1, <2>2 DEF ShownLog
  <1>9. CallLog'
    BY <1>2 DEF IInv, CallLog
  <1>10. RanLog'
    <2> SUFFICES ASSUME NEW c \in ran'
                 PROVE  /\ HasCall(stored', c, Len(stored'))
                        /\ NotDenied(log', c) /\ NotDenied(stored', c)
                        /\ NotDenied(tail', c) /\ NotDenied(unsaved', c)
      BY DEF RanLog
    <2>1. /\ HasCall(stored, c, Len(stored)) /\ NotDenied(log, c) /\ NotDenied(tail, c)
          /\ NotDenied(unsaved, c)
      BY <1>2 DEF IInv, RanLog
    <2>2. HasCall(stored', c, Len(stored'))
      BY <1>3, <1>4, <2>1, HasCallKept
    <2>3. NotDenied(stored', c)
      BY <1>3, <1>4, <2>1, NotDeniedPrefix
    <2> QED BY <1>2, <2>1, <2>2, <2>3
  <1> QED BY <1>5, <1>6, <1>7, <1>8, <1>9, <1>10 DEF IInv

\* A step after which no process is live.
OffStep ==
  /\ process' \in {"down", "prepared", "truncated"}
  /\ log' = <<>> /\ loop' = "idle" /\ \A c \in Calls : dispatch'[c] = "none"
  /\ dispatch' \in [Calls -> {"none", "called", "waiting", "running"}]
  /\ awaited' \in [Calls -> Nat] /\ turn' \in Nat /\ step' \in Nat
  /\ issued' = issued /\ ran' = ran /\ shown' = shown /\ encoding' = encoding
  /\ stored' \in Seq(Events) /\ tail' \in Seq(Events) /\ unsaved' \in Seq(Events)
  /\ seen' \in Seq(Events) /\ torn' \in BOOLEAN /\ faults' \in 0..MaxFaults
  /\ ~torn' => tail' = <<>>
  /\ process' = "truncated" => ~torn'
  /\ process' = "down" => unsaved' = <<>>
  /\ Prefix(stored, stored')

LEMMA OffKeeps ==
  ASSUME IInv, OffStep, FileLog', RepairLog',
         \A c \in ran : NotDenied(stored', c) /\ NotDenied(tail', c) /\ NotDenied(unsaved', c)
  PROVE  IInv'
  <1>1. TypeOK'
    <2>1. <<>> \in Seq(Events)
      OBVIOUS
    <2> QED BY <2>1 DEF OffStep, IInv, TypeOK
  <1>2. PhaseInv'
    BY DEF OffStep, PhaseInv
  <1>3. LiveLog'
    BY DEF OffStep, LiveLog
  <1>4. /\ stored \in Seq(Events) /\ stored' \in Seq(Events) /\ Prefix(stored, stored')
        /\ shown \in Seq(Events)
    BY DEF OffStep, IInv, TypeOK
  <1>5. ShownLog'
    <2>1. Prefix(shown, stored) /\ Transcript(shown) = NoTranscript
      BY DEF IInv, ShownLog
    <2>2. Prefix(shown, stored')
      BY <1>4, <2>1, PrefixTransitive
    <2> QED BY <2>1, <2>2 DEF OffStep, ShownLog
  <1>6. CallLog'
    BY DEF OffStep, CallLog
  <1>7. RanLog'
    <2> SUFFICES ASSUME NEW c \in ran'
                 PROVE  /\ HasCall(stored', c, Len(stored'))
                        /\ NotDenied(log', c) /\ NotDenied(stored', c)
                        /\ NotDenied(tail', c) /\ NotDenied(unsaved', c)
      BY DEF RanLog
    <2>1. c \in ran /\ log' = <<>>
      BY DEF OffStep
    <2>2. HasCall(stored, c, Len(stored))
      BY <2>1 DEF IInv, RanLog
    <2>3. HasCall(stored', c, Len(stored'))
      BY <1>4, <2>2, HasCallKept
    <2>4. NotDenied(<<>>, c)
      BY <1>4, NotDeniedConcat
    <2> QED BY <2>1, <2>3, <2>4
  <1> QED BY <1>1, <1>2, <1>3, <1>5, <1>6, <1>7 DEF IInv

\* What a dying process leaves.
LEMMA DieFacts ==
  ASSUME IInv, Die, stored' \in Seq(Events), tail' \in Seq(Events), torn' \in BOOLEAN,
         ~torn' => tail' = <<>>, Prefix(stored, stored')
  PROVE  OffStep /\ unsaved' = <<>> /\ process' = "down" /\ issued' = issued /\ RepairLog'
  <1>1. /\ process' = "down" /\ log' = <<>> /\ unsaved' = <<>>
        /\ faults < MaxFaults /\ faults' = faults + 1
        /\ loop' = "idle" /\ turn' = 0 /\ step' = 0
        /\ dispatch' = [c \in Calls |-> "none"] /\ awaited' = [c \in Calls |-> 0]
        /\ encoding' = encoding /\ issued' = issued /\ ran' = ran /\ shown' = shown /\ seen' = seen
    BY DEF Die
  <1>2. faults' \in 0..MaxFaults
    BY <1>1, CrashRecoveryAssumption DEF IInv, TypeOK
  <1>3. <<>> \in Seq(Events) /\ seen' \in Seq(Events)
    BY <1>1 DEF IInv, TypeOK
  <1>4. OffStep
    BY <1>1, <1>2, <1>3 DEF OffStep
  <1>5. RepairLog'
    BY <1>1 DEF RepairLog
  <1> QED BY <1>1, <1>4, <1>5

LEMMA CrashKeeps ==
  ASSUME IInv, Crash
  PROVE  IInv'
  <1>1. Die /\ stored' = stored /\ tail' = tail /\ torn' = torn
    BY DEF Crash
  <1>2. /\ stored' \in Seq(Events) /\ tail' \in Seq(Events) /\ torn' \in BOOLEAN
        /\ ~torn' => tail' = <<>>
    BY <1>1 DEF IInv, TypeOK, PhaseInv
  <1>3. Prefix(stored, stored')
    BY <1>1, <1>2 DEF Prefix
  <1>4. OffStep /\ unsaved' = <<>> /\ issued' = issued /\ RepairLog'
    BY <1>1, <1>2, <1>3, DieFacts
  <1>5. FileLog'
    BY <1>1, <1>4 DEF IInv, FileLog
  <1>6. ASSUME NEW c \in ran
        PROVE  NotDenied(stored', c) /\ NotDenied(tail', c) /\ NotDenied(unsaved', c)
    <2>1. NotDenied(<<>>, c)
      BY <1>2, NotDeniedConcat
    <2> QED BY <1>1, <1>4, <2>1 DEF IInv, RanLog
  <1> QED BY <1>4, <1>5, <1>6, OffKeeps

\* A batch cut in the middle: part of it is in the file or in the torn frame.
LEMMA CutKeeps ==
  ASSUME IInv, NEW batch \in Seq(Events), AllSound(stored \o batch, issued),
         \A c \in ran : NotDenied(stored \o batch, c), CrashInAppend(batch)
  PROVE  IInv'
  <1>1. Die /\ ~torn /\ torn' = TRUE /\ tail = <<>> /\ stored \in Seq(Events) /\ issued \in Nat
    BY DEF CrashInAppend, IInv, TypeOK, PhaseInv
  <1>2. PICK n \in 0..Len(batch) :
          \/ tail' = SubSeq(batch, 1, n) /\ stored' = stored
          \/ stored' = stored \o SubSeq(batch, 1, n) /\ tail' = tail
    BY DEF CrashInAppend
  <1> DEFINE part == SubSeq(batch, 1, n)
  <1>3. /\ part \in Seq(Events) /\ Prefix(stored, stored \o part)
        /\ Prefix(stored \o part, stored \o batch)
        /\ stored \o part \in Seq(Events) /\ stored \o batch \in Seq(Events)
    BY <1>1, PrefixOfConcat
  <1> HIDE DEF part
  <1>4. \/ tail' = part /\ stored' = stored
        \/ stored' = stored \o part /\ tail' = <<>>
    BY <1>1, <1>2 DEF part
  <1>5. stored' \in Seq(Events) /\ tail' \in Seq(Events) /\ stored' \o tail' = stored \o part
    <2>1. (stored \o part) \o <<>> = stored \o part /\ <<>> \in Seq(Events)
      BY <1>3, ConcatEmptySeq
    <2> QED BY <1>1, <1>3, <1>4, <2>1
  <1>6. Prefix(stored, stored')
    <2>1. Prefix(stored, stored)
      BY <1>1 DEF Prefix
    <2> QED BY <1>3, <1>4, <2>1
  <1>7. OffStep /\ unsaved' = <<>> /\ issued' = issued /\ RepairLog'
    BY <1>1, <1>5, <1>6, DieFacts
  <1>8. FileLog'
    <2>1. AllSound(stored \o part, issued)
      BY <1>1, <1>3, SoundPrefix
    <2> QED BY <1>5, <1>7, <2>1 DEF FileLog
  <1>9. ASSUME NEW c \in ran
        PROVE  NotDenied(stored', c) /\ NotDenied(tail', c) /\ NotDenied(unsaved', c)
    <2>1. NotDenied(stored \o part, c)
      BY <1>3, NotDeniedPrefix
    <2>2. NotDenied(stored' \o tail', c)
      BY <1>5, <2>1
    <2>3. NotDenied(stored', c) /\ NotDenied(tail', c) /\ NotDenied(<<>>, c)
      BY <1>5, <2>2, NotDeniedConcat
    <2> QED BY <1>7, <2>3
  <1> QED BY <1>7, <1>8, <1>9, OffKeeps

LEMMA CrashInPersistKeeps ==
  ASSUME IInv, CrashInPersist
  PROVE  IInv'
  <1>1. process = "live"
    BY DEF CrashInPersist
  <1>2. PICK n \in 1..Len(Unstored) : CrashInAppend(SubSeq(Unstored, 1, n))
    BY DEF CrashInPersist
  <1>3. /\ log \in Seq(Events) /\ stored \in Seq(Events) /\ Prefix(stored, log)
        /\ issued \in Nat /\ AllSound(log, issued)
    BY <1>1, LiveFile, LiveFacts DEF IInv
  <1>4. Unstored \in Seq(Events) /\ stored \o Unstored = log /\ n \in 0..Len(Unstored)
    BY <1>2, <1>3, PrefixRest DEF Unstored
  <1> DEFINE batch == SubSeq(Unstored, 1, n)
  <1>5. batch \in Seq(Events) /\ stored \o batch \in Seq(Events) /\ Prefix(stored \o batch, log)
    BY <1>3, <1>4, PrefixOfConcat
  <1>6. CrashInAppend(batch)
    BY <1>2
  <1> HIDE DEF batch
  <1>7. AllSound(stored \o batch, issued)
    BY <1>3, <1>5, SoundPrefix
  <1>8. \A c \in ran : NotDenied(stored \o batch, c)
    BY <1>3, <1>5, NotDeniedPrefix DEF IInv, RanLog
  <1> QED BY <1>5, <1>6, <1>7, <1>8, CutKeeps

LEMMA CrashInRepairKeeps ==
  ASSUME IInv, CrashInRepair
  PROVE  IInv'
  <1>1. process \in {"prepared", "truncated"} /\ CrashInAppend(unsaved)
    BY DEF CrashInRepair, Repairing
  <1>2. unsaved \in Seq(Events) /\ stored \in Seq(Events) /\ AllSound(stored \o unsaved, issued)
    BY <1>1 DEF IInv, TypeOK, RepairLog
  <1>3. \A c \in ran : NotDenied(stored \o unsaved, c)
    BY <1>2, NotDeniedConcat DEF IInv, RanLog
  <1> QED BY <1>1, <1>2, <1>3, CutKeeps

\* A step of the coordinator changes the file and what is prepared, nothing else.
LEMMA CoordinatorStep ==
  ASSUME IInv, process # "live", log' = log, encoding' = encoding,
         UNCHANGED <<loopVars, callVars>>, process' \in {"down", "prepared", "truncated"},
         stored' \in Seq(Events), tail' \in Seq(Events), unsaved' \in Seq(Events),
         seen' \in Seq(Events), torn' \in BOOLEAN, faults' \in 0..MaxFaults,
         ~torn' => tail' = <<>>, process' = "truncated" => ~torn',
         process' = "down" => unsaved' = <<>>, Prefix(stored, stored')
  PROVE  OffStep /\ issued' = issued
  BY DEF OffStep, IInv, TypeOK, PhaseInv, loopVars, callVars

LEMMA PrepareKeeps ==
  ASSUME IInv, Prepare
  PROVE  IInv'
  <1> DEFINE read == stored \o tail
             closers == InterruptedTurnClosers(read)
  <1>1. /\ process = "down" /\ process' = "prepared" /\ unsaved' = tail \o closers
        /\ seen' = read \/ seen' = seen
        /\ log' = log /\ stored' = stored /\ tail' = tail /\ torn' = torn /\ encoding' = encoding
        /\ faults' = faults /\ UNCHANGED <<loopVars, callVars>>
    BY DEF Prepare, fileVars
  <1>2. /\ stored \in Seq(Events) /\ tail \in Seq(Events) /\ seen \in Seq(Events) /\ torn \in BOOLEAN
        /\ faults \in 0..MaxFaults /\ issued \in Nat
        /\ ~torn => tail = <<>>
    BY DEF IInv, TypeOK, PhaseInv
  <1>3. read \in Seq(Events) /\ AllSound(read, issued) /\ Prefix(stored, read)
    <2>1. read \in Seq(Events)
      BY <1>2, ConcatProperties
    <2>2. SubSeq(tail, 1, 0) = <<>>
      BY SubSeqEmpty
    <2>3. Prefix(stored, read)
      <3>1. /\ Len(read) = Len(stored) + Len(tail) /\ Len(tail) \in Nat /\ Len(stored) \in Nat
            /\ \A i \in 1..(Len(stored) + Len(tail)) :
                 read[i] = IF i <= Len(stored) THEN stored[i] ELSE tail[i - Len(stored)]
        BY <1>2, ConcatProperties
      <3> HIDE DEF read
      <3> QED BY <3>1 DEF Prefix
    <2> QED BY <2>1, <2>3 DEF IInv, FileLog
  <1> HIDE DEF read
  <1>4. /\ closers \in Seq(Events) /\ AllSound(read \o closers, issued)
        /\ Cursor(read \o closers).openTurn = 0
        /\ DeniesUnrecorded(closers, read)
    <2>1. read \in Seq(Events) /\ issued \in Nat /\ AllSound(read, issued)
      BY <1>2, <1>3
    <2> QED BY <2>1, ClosersSound
  <1> HIDE DEF closers
  <1>5. unsaved' \in Seq(Events) /\ stored \o unsaved' = read \o closers
    <2>1. tail \o closers \in Seq(Events)
      BY <1>2, <1>4, ConcatProperties
    <2>2. Joined(read \o closers, stored, tail, closers)
      BY <1>2, <1>4, JoinedLists DEF read
    <2> QED BY <1>1, <2>1, <2>2 DEF Joined
  <1>6. OffStep /\ issued' = issued
    <2>1. Prefix(stored, stored')
      BY <1>1, <1>2 DEF Prefix
    <2>2. seen' \in Seq(Events)
      BY <1>1, <1>2, <1>3
    <2>3. /\ process # "live" /\ stored' \in Seq(Events) /\ tail' \in Seq(Events)
          /\ torn' \in BOOLEAN /\ faults' \in 0..MaxFaults
          /\ process' \in {"down", "prepared", "truncated"}
          /\ ~torn' => tail' = <<>>
          /\ process' = "truncated" => ~torn'
          /\ process' = "down" => unsaved' = <<>>
          /\ log' = log /\ encoding' = encoding /\ UNCHANGED <<loopVars, callVars>>
      BY <1>1, <1>2
    <2> QED BY <1>5, <2>1, <2>2, <2>3, CoordinatorStep
  <1>7. FileLog' /\ RepairLog'
    BY <1>1, <1>4, <1>5, <1>6 DEF IInv, FileLog, RepairLog
  <1>8. ASSUME NEW c \in ran
        PROVE  NotDenied(stored', c) /\ NotDenied(tail', c) /\ NotDenied(unsaved', c)
    <2>1. HasCall(stored, c, Len(stored)) /\ NotDenied(stored, c) /\ NotDenied(tail, c)
      BY DEF IInv, RanLog
    <2>2. HasCall(read, c, Len(read))
      BY <1>2, <1>3, <2>1, HasCallKept
    <2>3. NotDenied(closers, c)
      BY <1>4, <2>2 DEF NotDenied, HasCall, DeniesUnrecorded
    <2>4. NotDenied(tail \o closers, c)
      BY <1>2, <1>4, <2>1, <2>3, NotDeniedConcat
    <2> QED BY <1>1, <2>1, <2>4
  <1> QED BY <1>6, <1>7, <1>8, OffKeeps

LEMMA TruncateKeeps ==
  ASSUME IInv, Truncate
  PROVE  IInv'
  <1>1. /\ process = "prepared" /\ process' = "truncated" /\ torn' = FALSE /\ tail' = <<>>
        /\ log' = log /\ stored' = stored /\ encoding' = encoding /\ unsaved' = unsaved
        /\ seen' = seen /\ faults' = faults /\ UNCHANGED <<loopVars, callVars>>
    BY DEF Truncate
  <1>2. /\ stored \in Seq(Events) /\ tail \in Seq(Events) /\ unsaved \in Seq(Events)
        /\ seen \in Seq(Events) /\ <<>> \in Seq(Events)
        /\ faults \in 0..MaxFaults /\ issued \in Nat
    BY DEF IInv, TypeOK
  <1>3. OffStep /\ issued' = issued
    <2>1. Prefix(stored, stored')
      BY <1>1, <1>2 DEF Prefix
    <2> QED BY <1>1, <1>2, <2>1, CoordinatorStep
  <1>4. FileLog'
    <2>1. stored \o <<>> = stored /\ stored \o tail \in Seq(Events)
      BY <1>2, ConcatEmptySeq, ConcatProperties
    <2>2. Prefix(stored, stored \o tail)
      <3>1. Len(tail) \in 0..Len(tail) /\ SubSeq(tail, 1, Len(tail)) = tail
        BY <1>2, SubSeqFull
      <3>2. Prefix(stored, stored \o SubSeq(tail, 1, Len(tail)))
        BY <1>2, <3>1, PrefixOfConcat
      <3> QED BY <3>1, <3>2
    <2>3. AllSound(stored, issued)
      BY <1>2, <2>1, <2>2, SoundPrefix DEF IInv, FileLog
    <2> QED BY <1>1, <1>3, <2>1, <2>3 DEF FileLog
  <1>5. RepairLog'
    BY <1>1, <1>3 DEF IInv, RepairLog
  <1>6. ASSUME NEW c \in ran
        PROVE  NotDenied(stored', c) /\ NotDenied(tail', c) /\ NotDenied(unsaved', c)
    <2>1. NotDenied(<<>>, c)
      BY <1>2, NotDeniedConcat
    <2> QED BY <1>1, <2>1 DEF IInv, RanLog
  <1> QED BY <1>3, <1>4, <1>5, <1>6, OffKeeps

LEMMA RepairingFacts ==
  ASSUME IInv, Repairing
  PROVE  /\ process \in {"prepared", "truncated"} /\ ~torn /\ tail = <<>>
         /\ stored \in Seq(Events) /\ unsaved \in Seq(Events) /\ seen \in Seq(Events)
         /\ stored \o unsaved \in Seq(Events) /\ <<>> \in Seq(Events) /\ torn \in BOOLEAN
         /\ faults \in 0..MaxFaults /\ issued \in Nat
         /\ AllSound(stored \o unsaved, issued)
  <1>1. /\ process \in {"prepared", "truncated"} /\ ~torn
    BY DEF Repairing, IInv, PhaseInv
  <1>2. stored \in Seq(Events) /\ unsaved \in Seq(Events)
    BY DEF IInv, TypeOK
  <1>3. stored \o unsaved \in Seq(Events)
    BY <1>2, ConcatProperties
  <1> QED BY <1>1, <1>2, <1>3 DEF IInv, TypeOK, PhaseInv, RepairLog

LEMMA CommitRepairKeeps ==
  ASSUME IInv, CommitRepair
  PROVE  IInv'
  <1>1. /\ Repairing /\ process' = "down" /\ stored' = stored \o unsaved /\ unsaved' = <<>>
        /\ log' = log /\ tail' = tail /\ torn' = torn /\ encoding' = encoding
        /\ seen' = seen /\ faults' = faults /\ UNCHANGED <<loopVars, callVars>>
    BY DEF CommitRepair
  <1>2. OffStep /\ issued' = issued
    <2>1. Prefix(stored, stored \o unsaved)
      <3>1. unsaved \in Seq(Events) /\ stored \in Seq(Events)
        BY <1>1, RepairingFacts
      <3>2. Len(unsaved) \in 0..Len(unsaved) /\ SubSeq(unsaved, 1, Len(unsaved)) = unsaved
        BY <3>1, SubSeqFull
      <3>3. Prefix(stored, stored \o SubSeq(unsaved, 1, Len(unsaved)))
        BY <3>1, <3>2, PrefixOfConcat
      <3> QED BY <3>2, <3>3
    <2> QED BY <1>1, <2>1, RepairingFacts, CoordinatorStep
  <1>3. FileLog' /\ RepairLog'
    <2>1. (stored \o unsaved) \o <<>> = stored \o unsaved
      BY <1>1, RepairingFacts, ConcatEmptySeq
    <2>2. FileLog'
      BY <1>1, <1>2, <2>1, RepairingFacts DEF FileLog
    <2>3. RepairLog'
      BY <1>1 DEF RepairLog
    <2> QED BY <2>2, <2>3
  <1>4. ASSUME NEW c \in ran
        PROVE  NotDenied(stored', c) /\ NotDenied(tail', c) /\ NotDenied(unsaved', c)
    <2>1. NotDenied(stored, c) /\ NotDenied(unsaved, c) /\ NotDenied(tail, c)
      BY DEF IInv, RanLog
    <2>2. NotDenied(stored \o unsaved, c) /\ NotDenied(<<>>, c)
      BY <1>1, <2>1, RepairingFacts, NotDeniedConcat
    <2> QED BY <1>1, <2>1, <2>2
  <1> QED BY <1>2, <1>3, <1>4, OffKeeps

LEMMA RepairFailsKeeps ==
  ASSUME IInv, RepairFails
  PROVE  IInv'
  <1>1. /\ Repairing /\ process' = "down" /\ unsaved' = <<>> /\ faults < MaxFaults
        /\ faults' = faults + 1 /\ stored' = stored /\ tail' = tail /\ torn' = torn
        /\ log' = log /\ encoding' = encoding /\ seen' = seen /\ UNCHANGED <<loopVars, callVars>>
    BY DEF RepairFails, fileVars
  <1>2. OffStep /\ issued' = issued
    <2>1. Prefix(stored, stored')
      BY <1>1, RepairingFacts DEF Prefix
    <2>2. faults' \in 0..MaxFaults
      BY <1>1, RepairingFacts, CrashRecoveryAssumption
    <2> QED BY <1>1, <2>1, <2>2, RepairingFacts, CoordinatorStep
  <1>3. FileLog' /\ RepairLog'
    BY <1>1, <1>2 DEF IInv, FileLog, RepairLog
  <1>4. ASSUME NEW c \in ran
        PROVE  NotDenied(stored', c) /\ NotDenied(tail', c) /\ NotDenied(unsaved', c)
    <2>1. NotDenied(<<>>, c)
      BY <1>1, RepairingFacts, NotDeniedConcat
    <2> QED BY <1>1, <2>1 DEF IInv, RanLog
  <1> QED BY <1>2, <1>3, <1>4, OffKeeps

\* The turns go on from the last one in the repaired file.
LEMMA PublishKeeps ==
  ASSUME IInv, Publish
  PROVE  IInv'
  <1>1. /\ process = "prepared" /\ ~torn /\ unsaved = <<>> /\ process' = "live" /\ log' = stored
        /\ turn' = LastTurn(stored) /\ stored' = stored /\ tail' = tail /\ torn' = torn
        /\ encoding' = encoding /\ unsaved' = unsaved /\ seen' = seen /\ faults' = faults
        /\ loop' = loop /\ step' = step /\ issued' = issued /\ shown' = shown
        /\ dispatch' = dispatch /\ awaited' = awaited /\ ran' = ran
    BY DEF Publish, fileVars, callVars
  <1>2. /\ stored \in Seq(Events) /\ tail = <<>> /\ loop = "idle" /\ issued \in Nat
        /\ \A c \in Calls : dispatch[c] = "none"
    BY <1>1 DEF IInv, TypeOK, PhaseInv
  <1>3. AllSound(stored, issued) /\ Cursor(stored).openTurn = 0
    <2>1. stored \o <<>> = stored
      BY <1>2, ConcatEmptySeq
    <2> QED BY <1>1, <2>1 DEF IInv, RepairLog
  <1>4. Trace(stored).nextTurn = LastTurn(stored) + 1
    <2>1. Matched(Cursor(stored), Trace(stored), Transcript(stored)) /\ Counted(Trace(stored), LastTurn(stored))
      BY <1>2, <1>3, AllSoundIs DEF Sound
    <2> QED BY <1>3, <2>1 DEF Matched, Counted
  <1>5. LastTurn(stored) \in Nat
    <2>1. Boundary("turn/end", 0, 0) \in Events
      BY BoundaryType
    <2> QED BY <1>2, <2>1, LastTurnStep
  <1>6. TypeOK'
    <2>1. Prefix(stored, stored)
      BY <1>2 DEF Prefix
    <2>2. IsPrefix(stored, stored)
      BY <1>2, <2>1, PrefixIs
    <2> QED BY <1>1, <1>2, <1>5, <2>2 DEF IInv, TypeOK
  <1>7. PhaseInv'
    BY <1>1, <1>2 DEF PhaseInv
  <1>8. LiveLog'
    <2>1. LoopMatches'
      BY <1>1, <1>2, <1>3, <1>4 DEF LoopMatches
    <2> QED BY <1>1, <1>3, <2>1 DEF LiveLog
  <1>9. FileLog' /\ RepairLog' /\ ShownLog'
    BY <1>1 DEF IInv, FileLog, RepairLog, ShownLog
  <1>10. CallLog'
    BY <1>1, <1>2 DEF CallLog
  <1>11. RanLog'
    BY <1>1 DEF IInv, RanLog
  <1> QED BY <1>6, <1>7, <1>8, <1>9, <1>10, <1>11 DEF IInv

-----------------------------------------------------------------------------
(* The theorems. *)

LEMMA InitHolds == Init => IInv
  <1> SUFFICES ASSUME Init  PROVE IInv
    OBVIOUS
  <1>1. /\ log = <<>> /\ stored = <<>> /\ tail = <<>> /\ torn = FALSE /\ encoding \in {"zstd", "none"}
        /\ process = "live" /\ unsaved = <<>> /\ faults = 0 /\ loop = "idle" /\ turn = 0 /\ step = 0
        /\ issued = 0 /\ dispatch = [c \in Calls |-> "none"] /\ awaited = [c \in Calls |-> 0]
        /\ ran = {} /\ shown = <<>> /\ seen = <<>>
    BY DEF Init
  <1>2. <<>> \in Seq(Events) /\ <<>> \o <<>> = <<>> /\ Prefix(<<>>, <<>>)
    <2>1. <<>> \in Seq(Events)
      OBVIOUS
    <2> QED BY <2>1, ConcatEmptySeq DEF Prefix
  <1>3. TypeOK
    <2>1. IsPrefix(<<>>, <<>>)
      BY <1>2, PrefixIs
    <2>2. issued \in 0..MaxCalls /\ faults \in 0..MaxFaults
      BY <1>1, CrashRecoveryAssumption
    <2>3. /\ dispatch \in [Calls -> {"none", "called", "waiting", "running"}]
          /\ awaited \in [Calls -> Nat] /\ ran \subseteq Calls
      <3> HIDE DEF Calls
      <3> QED BY <1>1
    <2> QED BY <1>1, <1>2, <2>1, <2>2, <2>3 DEF TypeOK
  <1>4. PhaseInv
    BY <1>1 DEF PhaseInv
  <1>5. LiveLog /\ FileLog /\ RepairLog /\ ShownLog
    <2>1. LoopMatches
      BY <1>1, EmptySound DEF LoopMatches, NoCursor, NoTrace, Rules!EmptyTrace
    <2> QED BY <1>1, <1>2, <2>1, EmptySound, EmptyAllSound DEF LiveLog, FileLog, RepairLog, ShownLog
  <1>6. CallLog /\ RanLog
    BY <1>1 DEF CallLog, RanLog
  <1> QED BY <1>3, <1>4, <1>5, <1>6 DEF IInv

LEMMA NextKeeps == IInv /\ [Next]_vars => IInv'
  <1> SUFFICES ASSUME IInv, [Next]_vars  PROVE IInv'
    OBVIOUS
  <1>1. CASE Loop
    <2>1. CASE TurnStart \/ TurnEnd \/ StepStart \/ Request \/ StepEnd
      BY <2>1, TurnStartKeeps, TurnEndKeeps, StepStartKeeps, RequestKeeps, StepEndKeeps
    <2>2. CASE \E n \in 0..MaxCalls : Respond(n)
      BY <2>2, RespondKeeps
    <2>3. CASE \E i \in Calls : StartCall(i)
      BY <2>3, StartCallKeeps
    <2>4. CASE \E c \in Calls : Checkpoint(c) \/ RunBody(c)
      BY <2>4, CheckpointKeeps, RunBodyKeeps
    <2>5. CASE \E code \in Codes : CommitResult(code)
      BY <2>5, CommitResultKeeps
    <2> QED BY <1>1, <2>1, <2>2, <2>3, <2>4, <2>5 DEF Loop
  <1>2. CASE Persist \/ Crash \/ CrashInPersist \/ CrashInRepair \/ RepairFails
    BY <1>2, PersistKeeps, CrashKeeps, CrashInPersistKeeps, CrashInRepairKeeps, RepairFailsKeeps
  <1>3. CASE Recover
    BY <1>3, PrepareKeeps, TruncateKeeps, CommitRepairKeeps, PublishKeeps DEF Recover
  <1>4. CASE UNCHANGED vars
    <2>1. /\ log' = log /\ stored' = stored /\ tail' = tail /\ torn' = torn /\ encoding' = encoding
          /\ process' = process /\ unsaved' = unsaved /\ loop' = loop /\ turn' = turn
          /\ step' = step /\ issued' = issued /\ dispatch' = dispatch /\ awaited' = awaited
          /\ faults' = faults /\ ran' = ran /\ shown' = shown /\ seen' = seen
      BY <1>4 DEF vars, fileVars, recoveryVars, loopVars, callVars
    <2>2. TypeOK' /\ PhaseInv'
      BY <2>1 DEF IInv, TypeOK, PhaseInv
    <2>3. LiveLog' /\ FileLog' /\ RepairLog' /\ ShownLog'
      BY <1>4, LogsUnchanged DEF vars
    <2>4. CallLog' /\ RanLog'
      BY <2>1 DEF IInv, CallLog, RanLog
    <2> QED BY <2>2, <2>3, <2>4 DEF IInv
  <1> QED BY <1>1, <1>2, <1>3, <1>4 DEF Next

\* A log in use is sound: the live one, and what the next process would read.
LEMMA LogsSound ==
  ASSUME IInv
  PROVE  /\ log \in Seq(Events) /\ stored \o tail \in Seq(Events)
         /\ Matched(Cursor(log), Trace(log), Transcript(log))
         /\ ~Trace(stored \o tail).broken
         /\ loop \in {"idle", "turn"} => Cursor(log).openStep = 0
  <1>1. log \in Seq(Events) /\ stored \o tail \in Seq(Events) /\ issued \in Nat
    BY ConcatProperties DEF IInv, TypeOK
  <1>2. ~Trace(stored \o tail).broken
    <2>1. AllSound(stored \o tail, issued)
      BY DEF IInv, FileLog
    <2> QED BY <1>1, <2>1, AllSoundIs DEF Matched
  <1>3. CASE process = "live"
    <2>1. Matched(Cursor(log), Trace(log), Transcript(log)) /\ LoopMatches
      BY <1>3, LiveFacts
    <2>2. loop \in {"idle", "turn"} => Cursor(log).openStep = 0
      BY <2>1 DEF Matched, LoopMatches
    <2> QED BY <1>1, <1>2, <2>1, <2>2
  <1>4. CASE process # "live"
    <2>1. log = <<>>
      BY <1>4 DEF IInv, PhaseInv
    <2> QED BY <1>1, <1>2, <2>1, EmptySound DEF Sound, NoCursor
  <1> QED BY <1>3, <1>4

LEMMA LogsRepairedHolds == IInv => LogsRepaired
  <1> SUFFICES ASSUME IInv  PROVE LogsRepaired
    OBVIOUS
  <1>1. LogsKeepRules
    <2>1. ~Trace(log).broken /\ ~Trace(stored \o tail).broken
      BY LogsSound DEF Matched
    <2> QED BY <2>1 DEF LogsKeepRules, Trace, NoTrace
  <1>2. ASSUME loop \in {"idle", "turn"}  PROVE Transcript(log) = NoTranscript
    <2> DEFINE said == Transcript(log)
    <2>1. Matched(Cursor(log), Trace(log), said) /\ Cursor(log).openStep = 0 /\ said \in Transcripts
      BY <1>2, LogsSound, Readings
    <2>2. said.valid /\ Len(said.pending) = 0
      BY <2>1 DEF Matched
    <2> HIDE DEF said
    <2>3. said.pending = <<>> /\ said.valid = TRUE /\ said = [pending |-> said.pending, valid |-> said.valid]
      BY <2>1, <2>2, EmptySeq DEF Transcripts
    <2> QED BY <2>3 DEF said, NoTranscript
  <1>3. TranscriptValid
    <2>1. Transcript(shown) = NoTranscript
      BY DEF IInv, ShownLog
    <2> QED BY <1>2, <2>1 DEF TranscriptValid, NoTranscript
  <1> QED BY <1>1, <1>3 DEF LogsRepaired

LEMMA RunsAreRecordedHolds == IInv => RunsAreRecorded
  <1> SUFFICES ASSUME IInv, NEW c \in ran
               PROVE  /\ \E i \in DOMAIN stored : stored[i].type = "tool/call" /\ CallOf(stored[i]) = c
                      /\ \A events \in {log, stored, tail, unsaved} : \A i \in DOMAIN events :
                           ~(events[i].type = "tool/result" /\ CallOf(events[i]) = c
                             /\ events[i].code = "TOOL_NOT_STARTED")
    BY DEF RunsAreRecorded
  <1>1. /\ HasCall(stored, c, Len(stored)) /\ NotDenied(log, c) /\ NotDenied(stored, c)
        /\ NotDenied(tail, c) /\ NotDenied(unsaved, c)
    BY DEF IInv, RanLog
  <1>2. /\ DOMAIN log = 1..Len(log) /\ DOMAIN stored = 1..Len(stored)
        /\ DOMAIN tail = 1..Len(tail) /\ DOMAIN unsaved = 1..Len(unsaved)
    BY DEF IInv, TypeOK
  <1> QED BY <1>1, <1>2 DEF HasCall, NotDenied

LEMMA ShownIsKeptHolds == IInv => ShownIsKept
  <1> SUFFICES ASSUME IInv, process = "live"  PROVE IsPrefix(shown, log)
    BY DEF ShownIsKept
  <1>1. shown \in Seq(Events) /\ stored \in Seq(Events) /\ log \in Seq(Events)
    BY DEF IInv, TypeOK
  <1>2. Prefix(shown, stored) /\ Prefix(stored, log)
    BY LiveFacts DEF IInv, ShownLog
  <1> QED BY <1>1, <1>2, PrefixTransitive, PrefixIs

\* Every variable keeps its shape, and while a process is live its file is whole and a
\* prefix of its log (TypeOK).
THEOREM TypesHold == Spec => []TypeOK
  <1>1. IInv => TypeOK
    BY DEF IInv
  <1> QED BY InitHolds, NextKeeps, <1>1, PTL DEF Spec

\* interruptedTurnClosers repairs what it must: however often and wherever the process,
\* an append or a repair is cut, the log that is worked on and the one that would be read
\* keep the rules of a session log, and all that the model is shown is a transcript a
\* provider accepts (LogsRepaired).
THEOREM RepairsHold == Spec => []LogsRepaired
  BY InitHolds, NextKeeps, LogsRepairedHolds, PTL DEF Spec

\* The checkpoint before a tool body does its work: a body that began is on record
\* through every crash and repair, and no result says that it did not start
\* (RunsAreRecorded).
THEOREM RunsStayRecorded == Spec => []RunsAreRecorded
  BY InitHolds, NextKeeps, RunsAreRecordedHolds, PTL DEF Spec

\* The checkpoint before a request does its work: a session resumed after a crash
\* continues every log a request was made from (ShownIsKept).
THEOREM ShownStays == Spec => []ShownIsKept
  BY InitHolds, NextKeeps, ShownIsKeptHolds, PTL DEF Spec
=============================================================================
