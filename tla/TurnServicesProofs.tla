-------------------------- MODULE TurnServicesProofs --------------------------
(***************************************************************************)
(* Proofs about TurnServices, for any jobs, limits, calls and questions: no *)
(* end of a job is lost, started work stays within its limit and its owner's *)
(* life, a teardown reaches every job, and a call that asked runs under its  *)
(* own question only.                                                      *)
(***************************************************************************)
EXTENDS TurnServices, FiniteSetTheorems, TLAPS

-----------------------------------------------------------------------------
(* The inductive invariant. *)

Live(j) == status[j] \in {"running", "stopping"}

JobShapes ==
  /\ status \in [Jobs -> {"none", "running", "stopping", "terminal", "removed"}]
  /\ reported \in [Jobs -> BOOLEAN]
  /\ producer \in [Jobs -> {"none", "working", "released", "orphaned"}]
  /\ wait \in [Calls -> {"none", "pending", "expired", "settled", "done"}] /\ target \in [Calls -> Jobs]
  /\ owner \in [Owners -> {"live", "disposing", "gone"}] /\ registry \in {"up", "closing", "down"}

Working(o) == {j \in Jobs : Owner(j) = o /\ producer[j] = "working"}

\* Nothing runs on in a teardown.
NoneRunning == \A j \in Jobs : status[j] = "running" => registry = "up" /\ owner[Owner(j)] = "live"

\* Work is that of a live record, and a live record outlives no teardown.
WorkStands ==
  /\ \A j \in Jobs : producer[j] = "working" => Live(j)
  /\ \A j \in Jobs : producer[j] = "orphaned" => Ended(j)
  /\ \A j \in Jobs : registry = "down" \/ owner[Owner(j)] = "gone" => ~Live(j)
  /\ NoneRunning
  /\ \A o \in Owners : Cardinality(Working(o)) <= MaxActive

Awaited(j) == \E c \in Calls : target[c] = j /\ wait[c] \in {"expired", "settled"}

\* A record is reported when someone has its end, waits for it, or cancelled it; a
\* teardown reports what is live beforehand.
RecordsStand ==
  /\ \A j \in Jobs : reported[j] /\ ~TornDown(j) => j \in known \/ (Ended(j) /\ Awaited(j))
  /\ \A j \in Jobs : status[j] = "removed" => reported[j] \/ TornDown(j)
  /\ \A j \in Jobs : Live(j) /\ TornDown(j) => reported[j]
  /\ mourned = {}

JobInv == JobShapes /\ WorkStands /\ RecordsStand

TurnShapes ==
  /\ call \in [ToolCalls -> {"idle", "asking", "running", "over"}] /\ granted \in [ToolCalls -> Nat]
  /\ asked \in Nat /\ question \in [Askers -> Nat] /\ outcome \in [Askers -> Answers \cup {"none"}]

\* A call is alive in the tools phase only, and waits only while it runs.
CallsStand ==
  /\ \A c \in ToolCalls : call[c] # "idle" => phase = "tools"
  /\ \A c \in Calls : wait[c] \in {"pending", "expired", "settled"} => call[c] = "running"

\* A question is that of the one call that asks it, and its number was never used
\* before; what it was allowed is on record, and so is what a call runs under.
QuestionsStand ==
  /\ \A c \in Askers : question[c] <= asked /\ granted[c] <= asked
  /\ \A c \in Askers : question[c] # 0 <=> call[c] = "asking"
  /\ \A c, d \in Askers : c # d /\ question[c] # 0 => question[c] # question[d]
  /\ \A c \in Askers : outcome[c] = "allowed-once" => question[c] \in consents
  /\ \A c \in Askers : call[c] = "running" => granted[c] \in consents
  /\ \A c, d \in Askers : call[c] = "running" /\ question[d] # 0 => granted[c] # question[d]
  /\ \A c, d \in Askers : call[c] = "running" /\ call[d] = "running" /\ c # d => granted[c] # granted[d]

CallInv == TurnShapes /\ CallsStand /\ QuestionsStand
TurnInv == JobInv /\ CallInv

-----------------------------------------------------------------------------
(* The registry's operations. *)

LEMMA OwnersOfJobs ==
  \A j \in Jobs : Owner(j) \in Owners
  BY DEF Owners

LEMMA WorkShrinks ==
  ASSUME \A o \in Owners : Cardinality(Working(o)) <= MaxActive,
         \A j \in Jobs : producer'[j] = "working" => producer[j] = "working"
  PROVE  \A o \in Owners : Cardinality(Working(o)') <= MaxActive
  <1> TAKE o \in Owners
  <1>1. IsFiniteSet(Working(o))
    BY JobAssumption, FS_Subset, Working(o) \subseteq Jobs DEF Working
  <1>2. Working(o)' \subseteq Working(o)
    BY DEF Working
  <1>3. Cardinality(Working(o)') <= Cardinality(Working(o)) /\ Cardinality(Working(o)') \in Nat
        /\ Cardinality(Working(o)) \in Nat
    BY <1>1, <1>2, FS_Subset, FS_CardinalityType
  <1>4. MaxActive \in Nat
    BY JobAssumption
  <1> QED BY <1>3, <1>4

\* What a sweep removes has ended and needs no notice.
LEMMA SweptRecords ==
  ASSUME JobShapes, NEW n \in Nat, NEW j \in Jobs, j \in Swept(n)
  PROVE  status[j] = "terminal" /\ reported[j]
  BY DEF Swept, Dropped, Expired, OverCap, Terminal, Silent

LEMMA ListStep ==
  ASSUME JobInv, List  PROVE JobInv'
  <1> JobShapes /\ WorkStands /\ RecordsStand
    BY DEF JobInv
  <1>1. PICK n \in 0..Len(ended) : status' = Removing(Swept(n))
    BY DEF List
  <1>2. UNCHANGED <<reported, producer, wait, target, owner, registry, known, mourned>>
    BY DEF List
  <1>3. n \in Nat
    OBVIOUS
  <1>4. \A j \in Jobs : status'[j] = status[j]
                        \/ (status'[j] = "removed" /\ status[j] = "terminal" /\ reported[j])
    BY <1>1, <1>3, SweptRecords DEF Removing
  <1>5. JobShapes'
    BY <1>1, <1>2 DEF JobShapes, Removing
  <1>6. WorkStands'
    <2>1. \A j \in Jobs : Live(j)' <=> Live(j)
      BY <1>4 DEF Live
    <2>2. NoneRunning'
      BY <1>2, <1>4 DEF WorkStands, NoneRunning
    <2>3. \A o \in Owners : Cardinality(Working(o)') <= MaxActive
      BY <1>2, WorkShrinks DEF WorkStands
    <2>4. \A j \in Jobs : Ended(j) => Ended(j)'
      BY <1>4 DEF Ended
    <2> QED BY <1>2, <2>1, <2>2, <2>3, <2>4 DEF WorkStands
  <1>7. RecordsStand'
    BY <1>2, <1>4 DEF RecordsStand, TornDown, Ended, Live, Awaited
  <1> QED BY <1>5, <1>6, <1>7 DEF JobInv

\* start() admits a job below the limit of its live owner.
LEMMA StartStep ==
  ASSUME JobInv, NEW j \in Jobs, Start(j)  PROVE JobInv'
  <1> JobShapes /\ WorkStands /\ RecordsStand /\ Owner(j) \in Owners
    BY OwnersOfJobs DEF JobInv
  <1>1. PICK n \in 0..Len(ended) : status' = [Removing(Swept(n)) EXCEPT ![j] = "running"]
    BY DEF Start
  <1>2. /\ registry = "up" /\ status[j] = "none" /\ owner[Owner(j)] = "live"
        /\ Cardinality(Active(Owner(j))) < MaxActive /\ producer' = [producer EXCEPT ![j] = "working"]
        /\ UNCHANGED <<reported, wait, target, owner, registry, known, mourned>>
    BY DEF Start
  <1>3. n \in Nat
    OBVIOUS
  <1>4. /\ status'[j] = "running"
        /\ \A i \in Jobs \ {j} : status'[i] = status[i]
                                 \/ (status'[i] = "removed" /\ status[i] = "terminal" /\ reported[i])
    BY <1>1, <1>3, SweptRecords DEF Removing
  <1>5. JobShapes'
    BY <1>1, <1>2 DEF JobShapes, Removing
  <1>6. \A o \in Owners : Cardinality(Working(o)') <= MaxActive
    <2> TAKE o \in Owners
    <2>1. IsFiniteSet(Working(o)) /\ IsFiniteSet(Active(o))
      BY JobAssumption, FS_Subset, Working(o) \subseteq Jobs, Active(o) \subseteq Jobs DEF Working, Active
    <2>2. Cardinality(Working(o)) \in Nat /\ Cardinality(Active(o)) \in Nat /\ MaxActive \in Nat
      BY <2>1, FS_CardinalityType, JobAssumption
    <2>3. CASE o = Owner(j)
      <3>1. Working(o) \subseteq Active(o)
        BY DEF Working, Active, WorkStands, Live
      <3>2. Cardinality(Working(o)) <= Cardinality(Active(o))
        BY <2>1, <3>1, FS_Subset
      <3>3. Working(o)' = Working(o) \cup {j}
        BY <1>2, <2>3 DEF Working, JobShapes
      <3>4. Cardinality(Working(o)') \in {Cardinality(Working(o)), Cardinality(Working(o)) + 1}
        BY <2>1, <3>3, FS_AddElement
      <3>5. Cardinality(Active(o)) < MaxActive
        BY <1>2, <2>3
      <3> QED BY <2>2, <3>2, <3>4, <3>5
    <2>4. CASE o # Owner(j)
      <3>1. Working(o)' = Working(o)
        BY <1>2, <2>4 DEF Working, JobShapes
      <3> QED BY <3>1 DEF WorkStands
    <2> QED BY <2>3, <2>4
  <1>7. WorkStands'
    <2>1. \A i \in Jobs \ {j} : (Live(i)' <=> Live(i)) /\ producer'[i] = producer[i]
      BY <1>2, <1>4 DEF Live, JobShapes
    <2>2. NoneRunning'
      BY <1>2, <1>4 DEF WorkStands, NoneRunning
    <2>3. producer'[j] = "working" /\ \A i \in Jobs \ {j} : Ended(i) => Ended(i)'
      BY <1>2, <1>4 DEF Ended, JobShapes
    <2> QED BY <1>2, <1>4, <1>6, <2>1, <2>2, <2>3 DEF WorkStands, Live
  <1>8. RecordsStand'
    <2>1. status'[j] # "removed" /\ owner'[Owner(j)] = "live"
      BY <1>2, <1>4
    <2>2. reported[j] => j \in known
      BY <1>2 DEF RecordsStand, TornDown, Ended
    <2> QED BY <1>2, <1>4, <2>1, <2>2 DEF RecordsStand, TornDown, Ended, Live, Awaited
  <1> QED BY <1>5, <1>7, <1>8 DEF JobInv

\* The first settlement of a job.
LEMMA ProducerStep ==
  ASSUME JobInv, NEW j \in Jobs, ProducerEnds(j)  PROVE JobInv'
  <1> JobShapes /\ WorkStands /\ RecordsStand /\ Owner(j) \in Owners
    BY OwnersOfJobs DEF JobInv
  <1>1. /\ producer' = [producer EXCEPT ![j] = "released"] /\ producer[j] \in {"working", "orphaned"}
        /\ UNCHANGED <<target, owner, registry>>
    BY DEF ProducerEnds
  <1>2. \A o \in Owners : Cardinality(Working(o)') <= MaxActive
    BY <1>1, WorkShrinks DEF WorkStands, JobShapes
  <1>3. CASE Ended(j) /\ UNCHANGED <<status, reported, ended, wait, known, mourned>>
    <2>1. JobShapes'
      BY <1>1, <1>3 DEF JobShapes
    <2>2. WorkStands'
      BY <1>1, <1>2, <1>3 DEF WorkStands, NoneRunning, Live, Ended, JobShapes
    <2>3. RecordsStand'
      BY <1>1, <1>3 DEF RecordsStand, TornDown, Ended, Live, Awaited
    <2> QED BY <2>1, <2>2, <2>3 DEF JobInv
  <1>4. CASE ~Ended(j) /\ status' = [status EXCEPT ![j] = "terminal"] /\ Settle({j}, {})
    <2> DEFINE waits == Waiters(j) # {}
    <2>1. /\ reported' = [i \in Jobs |-> reported[i] \/ (i = j /\ waits)]
          /\ wait' = [c \in Calls |-> IF target[c] = j /\ wait[c] = "pending" THEN "settled" ELSE wait[c]]
          /\ known \subseteq known'
      BY <1>4 DEF Settle
    <2>2. mourned' = {}
      <3>1. mourned' \subseteq mourned \cup {i \in {j} : ~reported[i] /\ owner'[Owner(i)] # "live"}
        BY <1>4 DEF Settle
      <3>2. owner[Owner(j)] # "live" => reported[j]
        <4> Live(j)
          BY <1>1, <1>4 DEF WorkStands
        <4> QED BY DEF RecordsStand, TornDown
      <3> QED BY <1>1, <3>1, <3>2 DEF RecordsStand
    <2>3. JobShapes'
      BY <1>1, <1>4, <2>1 DEF JobShapes
    <2>4. WorkStands'
      BY <1>1, <1>2, <1>4 DEF WorkStands, NoneRunning, Live, Ended, JobShapes
    <2>5. RecordsStand'
      <3>1. \A i \in Jobs \ {j} : status'[i] = status[i] /\ reported'[i] = reported[i]
        BY <1>4, <2>1 DEF JobShapes
      <3>2. \A i \in Jobs : Awaited(i) => Awaited(i)'
        BY <1>1, <2>1 DEF Awaited, JobShapes
      <3>3. waits => Awaited(j)'
        BY <1>1, <2>1 DEF Waiters, Awaited, JobShapes
      <3>4. status'[j] = "terminal" /\ (reported'[j] <=> reported[j] \/ waits)
        BY <1>4, <2>1 DEF JobShapes
      <3>5. reported[j] /\ ~TornDown(j) => j \in known
        BY <1>4 DEF RecordsStand
      <3> HIDE DEF waits
      <3>6. \A i \in Jobs : TornDown(i)' <=> TornDown(i)
        BY <1>1 DEF TornDown
      <3>7. \A i \in Jobs : reported'[i] /\ ~TornDown(i)' => i \in known' \/ (Ended(i)' /\ Awaited(i)')
        BY <2>1, <3>1, <3>2, <3>3, <3>4, <3>5, <3>6 DEF RecordsStand, Ended
      <3> QED BY <1>1, <2>2, <3>1, <3>4, <3>6, <3>7 DEF RecordsStand, Live
    <2> QED BY <2>3, <2>4, <2>5 DEF JobInv
  <1> QED BY <1>3, <1>4 DEF ProducerEnds

\* A cancellation for teardown: it reaches every live record that is torn down now,
\* reports it, and leaves its work stopping or settled.
LEMMA CancelStep ==
  ASSUME JobInv, NEW js, js \subseteq {j \in Jobs : Stored(j)}, CancelForTeardown(js),
         target' = target, registry' \in {"up", "closing", "down"},
         owner' \in [Owners -> {"live", "disposing", "gone"}],
         registry' = "down" => registry = "down",
         \A o \in Owners : owner'[o] = "gone" => owner[o] = "gone",
         \A j \in Jobs : TornDown(j) => TornDown(j)',
         \A j \in js : TornDown(j)',
         \A j \in Jobs : Live(j) /\ TornDown(j)' /\ ~TornDown(j) => j \in js
  PROVE  JobInv'
  <1> JobShapes /\ WorkStands /\ RecordsStand
    BY DEF JobInv
  <1> DEFINE live == {j \in js : ~Ended(j)}
  <1>1. PICK thrown \in SUBSET live :
          /\ status' = [j \in Jobs |-> IF j \in thrown THEN "terminal"
                                       ELSE IF j \in live THEN "stopping" ELSE status[j]]
          /\ producer' = [j \in Jobs |-> IF j \in thrown /\ producer[j] = "working" THEN "orphaned" ELSE producer[j]]
          /\ Settle(thrown, live)
    BY DEF CancelForTeardown
  <1>2. /\ reported' = [j \in Jobs |-> reported[j] \/ j \in live \/ (j \in thrown /\ Waiters(j) # {})]
        /\ wait' = [c \in Calls |-> IF target[c] \in thrown /\ wait[c] = "pending" THEN "settled" ELSE wait[c]]
        /\ known \subseteq known' /\ mourned' = {}
    BY <1>1 DEF Settle, RecordsStand
  <1>3. JobShapes'
    BY <1>1, <1>2 DEF JobShapes
  <1>4. \A j \in Jobs : j \in live => Live(j) /\ reported'[j] /\ status'[j] \in {"stopping", "terminal"}
    BY <1>1, <1>2 DEF JobShapes, Live, Ended, Stored
  <1>5. \A j \in Jobs : j \notin live => status'[j] = status[j] /\ reported'[j] = reported[j] /\ producer'[j] = producer[j]
    BY <1>1, <1>2 DEF JobShapes
  <1>6. \A j \in Jobs : j \in js /\ j \notin live => ~Live(j)
    BY DEF Live, Ended
  <1>7. \A j \in Jobs : /\ producer'[j] = "working" => producer[j] = "working" /\ j \notin thrown
                        /\ producer'[j] = "orphaned" => producer[j] = "orphaned" \/ j \in thrown
                        /\ j \in thrown => status'[j] = "terminal"
                        /\ j \in live \ thrown => status'[j] = "stopping"
    BY <1>1 DEF JobShapes
  <1> HIDE DEF live
  <1>8. WorkStands'
    <2>1. \A j \in Jobs : producer'[j] = "working" => Live(j)'
      BY <1>5, <1>7 DEF WorkStands, Live
    <2>2. \A j \in Jobs : producer'[j] = "orphaned" => Ended(j)'
      <3>1. \A j \in Jobs : Live(j) => ~Ended(j)
        BY DEF Live, Ended
      <3> QED BY <1>4, <1>5, <1>7, <3>1 DEF WorkStands, Ended
    <2>3. \A j \in Jobs : registry' = "down" \/ owner'[Owner(j)] = "gone" => ~Live(j)'
      <3>1. \A j \in Jobs : Live(j)' => Live(j)
        BY <1>4, <1>5 DEF Live
      <3> QED BY <3>1, OwnersOfJobs DEF WorkStands
    <2>4. NoneRunning'
      <3>1. \A j \in Jobs : status'[j] = "running" => j \notin live /\ status[j] = "running"
        BY <1>4, <1>5
      <3>2. \A j \in Jobs : status[j] = "running" => Live(j) /\ ~TornDown(j)
        BY DEF WorkStands, NoneRunning, TornDown, Live
      <3>3. \A j \in Jobs : status'[j] = "running" => ~TornDown(j)'
        BY <1>6, <3>1, <3>2
      <3> QED BY <3>3 DEF NoneRunning, TornDown
    <2>5. \A o \in Owners : Cardinality(Working(o)') <= MaxActive
      BY <1>7, WorkShrinks DEF WorkStands
    <2> QED BY <2>1, <2>2, <2>3, <2>4, <2>5 DEF WorkStands
  <1>9. RecordsStand'
    <2>1. \A j \in Jobs : reported'[j] /\ ~TornDown(j)' => j \in known' \/ (Ended(j)' /\ Awaited(j)')
      <3> SUFFICES ASSUME NEW j \in Jobs, reported'[j], ~TornDown(j)'
                   PROVE  j \in known' \/ (Ended(j)' /\ Awaited(j)')
        OBVIOUS
      <3>1. Awaited(j) => Awaited(j)'
        BY <1>2 DEF Awaited, JobShapes
      <3>2. j \notin live
        BY DEF live
      <3> QED BY <1>2, <1>5, <3>1, <3>2 DEF RecordsStand, Ended
    <2>2. \A j \in Jobs : status'[j] = "removed" => reported'[j] \/ TornDown(j)'
      BY <1>4, <1>5 DEF RecordsStand
    <2>3. \A j \in Jobs : Live(j)' /\ TornDown(j)' => reported'[j]
      <3> SUFFICES ASSUME NEW j \in Jobs, Live(j)', TornDown(j)'
                   PROVE  reported'[j]
        OBVIOUS
      <3>1. CASE j \in live
        BY <1>4, <3>1
      <3>2. CASE j \notin live
        <4>1. Live(j) /\ reported'[j] = reported[j]
          BY <1>5, <3>2 DEF Live
        <4>2. TornDown(j)
          BY <1>6, <3>2, <4>1
        <4> QED BY <4>1, <4>2 DEF RecordsStand
      <3> QED BY <3>1, <3>2
    <2> QED BY <1>2, <2>1, <2>2, <2>3 DEF RecordsStand
  <1> QED BY <1>3, <1>8, <1>9 DEF JobInv

\* What is left of the work was stopped when the teardown began.
LEMMA DropStep ==
  ASSUME JobInv, NEW js, js \subseteq {j \in Jobs : status[j] = "terminal"}, Drop(js),
         registry' \in {"up", "closing", "down"}, registry' = "up" <=> registry = "up",
         owner' \in [Owners -> {"live", "disposing", "gone"}],
         \A o \in Owners : owner'[o] = "live" <=> owner[o] = "live",
         \A j \in js : TornDown(j),
         \A j \in Jobs : registry' = "down" \/ owner'[Owner(j)] = "gone" => ~Live(j)
  PROVE  JobInv'
  <1> JobShapes /\ WorkStands /\ RecordsStand
    BY DEF JobInv
  <1>1. /\ status' = [j \in Jobs |-> IF j \in js THEN "removed" ELSE status[j]]
        /\ UNCHANGED <<reported, producer, wait, target, known, mourned>>
    BY DEF Drop, Removing
  <1>2. JobShapes'
    BY <1>1 DEF JobShapes
  <1>3. \A j \in Jobs : /\ Live(j)' <=> Live(j)
                        /\ Ended(j)' <=> Ended(j)
                        /\ status'[j] = "running" <=> status[j] = "running"
                        /\ TornDown(j)' <=> TornDown(j)
    BY <1>1, OwnersOfJobs DEF Live, Ended, TornDown
  <1>4. WorkStands'
    <2>1. NoneRunning'
      BY <1>3, OwnersOfJobs DEF WorkStands, NoneRunning
    <2>2. \A o \in Owners : Cardinality(Working(o)') <= MaxActive
      BY <1>1, WorkShrinks DEF WorkStands
    <2> QED BY <1>1, <1>3, <2>1, <2>2 DEF WorkStands
  <1>5. RecordsStand'
    <2>1. \A j \in Jobs : status'[j] = "removed" => status[j] = "removed" \/ j \in js
      BY <1>1
    <2>2. \A j \in Jobs : Awaited(j)' <=> Awaited(j)
      BY <1>1 DEF Awaited
    <2> QED BY <1>1, <1>3, <2>1, <2>2, OwnersOfJobs DEF RecordsStand
  <1> QED BY <1>2, <1>4, <1>5 DEF JobInv

LEMMA TeardownSteps ==
  ASSUME JobInv, DisposeAll \/ AllDisposed \/ \E o : DisposeOwner(o) \/ OwnerDisposed(o)
  PROVE  JobInv'
  <1> JobShapes /\ WorkStands /\ RecordsStand
    BY DEF JobInv
  <1>1. CASE DisposeAll
    <2>1. /\ registry = "up" /\ registry' = "closing" /\ target' = target /\ owner' = owner
          /\ CancelForTeardown({j \in Jobs : Stored(j)})
      BY <1>1 DEF DisposeAll
    <2>2. \A j \in Jobs : Live(j) => Stored(j)
      BY DEF Live, Stored
    <2>3. \A j \in Jobs : TornDown(j)'
      BY <2>1 DEF TornDown
    <2> DEFINE js == {j \in Jobs : Stored(j)}
    <2>4. js \subseteq {j \in Jobs : Stored(j)} /\ CancelForTeardown(js)
      BY <2>1
    <2>5. \A j \in Jobs : Live(j) => j \in js
      BY <2>2
    <2> HIDE DEF js
    <2>6. owner' \in [Owners -> {"live", "disposing", "gone"}]
      BY <2>1 DEF JobShapes
    <2> QED BY <2>1, <2>3, <2>4, <2>5, <2>6, CancelStep
  <1>2. CASE \E o : DisposeOwner(o)
    <2>1. PICK o : DisposeOwner(o)
      BY <1>2
    <2>2. /\ owner[o] = "live" /\ owner' = [owner EXCEPT ![o] = "disposing"]
          /\ target' = target /\ registry' = registry
          /\ CancelForTeardown({j \in Jobs : Owner(j) = o /\ Stored(j)})
      BY <2>1 DEF DisposeOwner
    <2>3. \A j \in Jobs : Live(j) => Stored(j)
      BY DEF Live, Stored
    <2> DEFINE js == {j \in Jobs : Owner(j) = o /\ Stored(j)}
    <2>4. js \subseteq {j \in Jobs : Stored(j)} /\ CancelForTeardown(js)
      BY <2>2
    <2>5. owner' \in [Owners -> {"live", "disposing", "gone"}] /\ registry' \in {"up", "closing", "down"}
      BY <2>2 DEF JobShapes
    <2>6. \A p \in Owners : p # o => owner'[p] = owner[p]
      BY <2>2 DEF JobShapes
    <2>7. \A p \in Owners : p = o => owner'[p] = "disposing"
      BY <2>2 DEF JobShapes
    <2>8. /\ \A j \in js : TornDown(j)'
          /\ \A j \in Jobs : TornDown(j) => TornDown(j)'
      BY <2>2, <2>6, <2>7, OwnersOfJobs DEF TornDown
    <2>9. \A j \in Jobs : Live(j) /\ owner'[Owner(j)] # "live" => owner[Owner(j)] # "live" \/ j \in js
      BY <2>3, <2>6, OwnersOfJobs
    <2>10. \A j \in Jobs : Live(j) /\ TornDown(j)' /\ ~TornDown(j) => j \in js
      BY <2>2, <2>9 DEF TornDown
    <2>11. \A p \in Owners : owner'[p] = "gone" => owner[p] = "gone"
      BY <2>6, <2>7
    <2> HIDE DEF js
    <2> QED BY <2>2, <2>4, <2>5, <2>8, <2>10, <2>11, CancelStep
  <1>3. CASE AllDisposed
    <2>1. /\ registry = "closing" /\ registry' = "down" /\ owner' = owner
          /\ \A o \in Owners : Active(o) = {}
          /\ Drop({j \in Jobs : status[j] = "terminal"})
      BY <1>3 DEF AllDisposed
    <2>2. \A j \in Jobs : ~Live(j)
      BY <2>1, OwnersOfJobs DEF Active, Live
    <2>3. \A j \in Jobs : TornDown(j)
      BY <2>1 DEF TornDown
    <2>4. owner' \in [Owners -> {"live", "disposing", "gone"}]
      BY <2>1 DEF JobShapes
    <2> QED BY <2>1, <2>2, <2>3, <2>4, DropStep
  <1>4. CASE \E o : OwnerDisposed(o)
    <2>1. PICK o : OwnerDisposed(o)
      BY <1>4
    <2>2. /\ owner[o] = "disposing" /\ Active(o) = {} /\ owner' = [owner EXCEPT ![o] = "gone"]
          /\ registry' = registry
          /\ Drop({j \in Jobs : Owner(j) = o /\ status[j] = "terminal"})
      BY <2>1 DEF OwnerDisposed
    <2> DEFINE js == {j \in Jobs : Owner(j) = o /\ status[j] = "terminal"}
    <2>3. js \subseteq {j \in Jobs : status[j] = "terminal"} /\ Drop(js)
      BY <2>2
    <2>4. \A j \in js : TornDown(j)
      BY <2>2 DEF TornDown
    <2>5. owner' \in [Owners -> {"live", "disposing", "gone"}] /\ registry' \in {"up", "closing", "down"}
      BY <2>2 DEF JobShapes
    <2>6. \A p \in Owners : owner'[p] = "live" <=> owner[p] = "live"
      BY <2>2 DEF JobShapes
    <2>7. \A p \in Owners : owner'[p] = "gone" => p = o \/ owner[p] = "gone"
      BY <2>2 DEF JobShapes
    <2>8. \A j \in Jobs : Owner(j) = o => ~Live(j)
      BY <2>2 DEF Active, Live
    <2>9. \A j \in Jobs : registry' = "down" \/ owner'[Owner(j)] = "gone" => ~Live(j)
      BY <2>2, <2>7, <2>8, OwnersOfJobs DEF WorkStands
    <2> HIDE DEF js
    <2> QED BY <2>2, <2>3, <2>4, <2>5, <2>6, <2>9, DropStep
  <1> QED BY <1>1, <1>2, <1>3, <1>4

\* Giving a job's end to a caller, and all the waits do.
LEMMA GivingStep ==
  ASSUME JobInv, JobShapes', UNCHANGED <<producer, owner, registry, mourned>>, known \subseteq known',
         \A j \in Jobs : status'[j] = status[j] \/ (status'[j] = "stopping" /\ Live(j)),
         \A j \in Jobs : reported[j] => reported'[j],
         \A j \in Jobs : reported'[j] => reported[j] \/ j \in known',
         \A j \in Jobs : Ended(j) /\ reported[j] /\ Awaited(j) => Awaited(j)' \/ j \in known'
  PROVE  JobInv'
  <1> JobShapes /\ WorkStands /\ RecordsStand
    BY DEF JobInv
  <1>1. \A j \in Jobs : /\ Live(j)' <=> Live(j)
                        /\ Ended(j) <=> Ended(j)'
                        /\ status'[j] = "running" => status[j] = "running"
                        /\ status'[j] = "removed" => status[j] = "removed"
                        /\ TornDown(j)' <=> TornDown(j)
    BY DEF Live, Ended, TornDown
  <1>2. WorkStands'
    <2>1. NoneRunning'
      BY <1>1 DEF WorkStands, NoneRunning
    <2>2. \A o \in Owners : Cardinality(Working(o)') <= MaxActive
      BY WorkShrinks DEF WorkStands
    <2> QED BY <1>1, <2>1, <2>2 DEF WorkStands
  <1>3. RecordsStand'
    BY <1>1 DEF RecordsStand
  <1> QED BY <1>2, <1>3 DEF JobInv

LEMMA GivenJob ==
  ASSUME JobShapes, NEW j \in Jobs, Given(j)
  PROVE  /\ reported' \in [Jobs -> BOOLEAN] /\ known \subseteq known'
         /\ \A i \in Jobs : (reported[i] => reported'[i]) /\ (reported'[i] => reported[i] \/ i \in known')
         /\ j \in known'
  BY DEF Given, JobShapes

LEMMA CallerSteps ==
  ASSUME JobInv,
         \/ \E j \in Jobs : Read(j) \/ Kill(j)
         \/ \E c \in Calls : WaitExpires(c) \/ WaitReturns(c)
         \/ \E cs : AbortWaits(cs)
         \/ \E c \in Calls : wait[c] = "none" /\ \E j \in Jobs : \E signalled : WaitFor(c, j, signalled)
  PROVE  JobInv'
  <1> JobShapes
    BY DEF JobInv
  <1>1. ASSUME NEW j \in Jobs, Read(j)  PROVE JobInv'
    <2>1. Given(j) /\ UNCHANGED <<status, producer, wait, target, owner, registry, mourned>>
      BY <1>1 DEF Read
    <2>2. JobShapes'
      BY <2>1, GivenJob DEF JobShapes
    <2>3. \A i \in Jobs : Awaited(i) => Awaited(i)'
      BY <2>1 DEF Awaited
    <2> QED BY <2>1, <2>2, <2>3, GivenJob, GivingStep
  <1>2. ASSUME NEW j \in Jobs, Kill(j)  PROVE JobInv'
    <2>1. /\ Given(j) /\ UNCHANGED <<producer, wait, target, owner, registry, mourned>>
          /\ status' = [status EXCEPT ![j] = IF Ended(j) THEN @ ELSE "stopping"] /\ Stored(j)
      BY <1>2 DEF Kill
    <2>2. \A i \in Jobs : status'[i] = status[i] \/ (status'[i] = "stopping" /\ Live(i))
      BY <2>1 DEF Stored, Ended, Live, JobShapes
    <2>3. JobShapes'
      BY <2>1, GivenJob DEF JobShapes
    <2>4. \A i \in Jobs : Awaited(i) => Awaited(i)'
      BY <2>1 DEF Awaited
    <2> QED BY <2>1, <2>2, <2>3, <2>4, GivenJob, GivingStep
  <1>3. ASSUME NEW c \in Calls, WaitExpires(c)  PROVE JobInv'
    <2>1. /\ wait' = [wait EXCEPT ![c] = "expired"]
          /\ UNCHANGED <<status, reported, producer, target, owner, registry, known, mourned>>
      BY <1>3 DEF WaitExpires
    <2>2. JobShapes' /\ \A i \in Jobs : Awaited(i) => Awaited(i)'
      BY <2>1 DEF JobShapes, Awaited
    <2> QED BY <2>1, <2>2, GivingStep
  <1>4. ASSUME NEW cs, AbortWaits(cs)  PROVE JobInv'
    <2>1. /\ wait' = [c \in Calls |-> IF c \in cs /\ wait[c] = "pending" THEN "done" ELSE wait[c]]
          /\ UNCHANGED <<status, reported, producer, target, owner, registry, known, mourned>>
      BY <1>4 DEF AbortWaits
    <2>2. JobShapes' /\ \A i \in Jobs : Awaited(i) => Awaited(i)'
      BY <2>1 DEF JobShapes, Awaited
    <2> QED BY <2>1, <2>2, GivingStep
  <1>5. ASSUME NEW c \in Calls, WaitReturns(c)  PROVE JobInv'
    <2>1. /\ wait' = [wait EXCEPT ![c] = "done"]
          /\ UNCHANGED <<status, producer, target, owner, registry, mourned>> /\ target[c] \in Jobs
      BY <1>5 DEF WaitReturns, JobShapes
    <2>2. CASE Ended(target[c]) /\ Given(target[c])
      <3>1. JobShapes'
        BY <2>1, <2>2, GivenJob DEF JobShapes
      <3>2. \A i \in Jobs : Awaited(i) => Awaited(i)' \/ i = target[c]
        BY <2>1 DEF Awaited, JobShapes
      <3> QED BY <2>1, <2>2, <3>1, <3>2, GivenJob, GivingStep
    <2>3. CASE ~Ended(target[c]) /\ UNCHANGED <<reported, known>>
      <3>1. JobShapes'
        BY <2>1, <2>3 DEF JobShapes
      <3>2. \A i \in Jobs : Awaited(i) => Awaited(i)' \/ i = target[c]
        BY <2>1 DEF Awaited, JobShapes
      <3> QED BY <2>1, <2>3, <3>1, <3>2, GivingStep
    <2> QED BY <1>5, <2>2, <2>3 DEF WaitReturns
  <1>6. ASSUME NEW c \in Calls, wait[c] = "none", NEW j \in Jobs, NEW signalled,
               WaitFor(c, j, signalled)
        PROVE  JobInv'
    <2>1. /\ target' = [target EXCEPT ![c] = j]
          /\ \E w \in {"done", "pending"} : wait' = [wait EXCEPT ![c] = w]
          /\ UNCHANGED <<status, producer, owner, registry, mourned>>
          /\ Given(j) \/ UNCHANGED <<reported, known>>
      BY <1>6 DEF WaitFor
    <2>2. JobShapes'
      BY <2>1, GivenJob DEF JobShapes
    <2>3. \A i \in Jobs : Awaited(i) => Awaited(i)'
      BY <1>6, <2>1 DEF Awaited, JobShapes
    <2> QED BY <2>1, <2>2, <2>3, GivenJob, GivingStep
  <1> QED BY <1>1, <1>2, <1>3, <1>4, <1>5, <1>6

-----------------------------------------------------------------------------
(* The steps of a turn. *)

LEMMA CallKinds ==
  Calls \subseteq ToolCalls /\ Askers \subseteq ToolCalls
  BY DEF ToolCalls

LEMMA InitInvariant ==
  ASSUME Init  PROVE TurnInv
  <1> JobsInit /\ RetryInit /\ ApprovalInit
    BY DEF Init
  <1>1. AnyJob \in Jobs
    BY JobAssumption DEF AnyJob
  <1>2. JobShapes
    BY <1>1 DEF JobsInit, JobShapes
  <1>3. WorkStands
    <2>1. \A o \in Owners : Working(o) = {}
      BY DEF JobsInit, Working
    <2>2. \A o \in Owners : Cardinality(Working(o)) = 0
      BY <2>1, FS_EmptySet
    <2>3. \A o \in Owners : Cardinality(Working(o)) <= MaxActive
      BY <2>2, JobAssumption
    <2> QED BY <2>3, OwnersOfJobs DEF JobsInit, WorkStands, NoneRunning, Live
  <1>4. RecordsStand
    BY OwnersOfJobs DEF JobsInit, RecordsStand, Live
  <1>5. CallInv
    BY CallKinds DEF Init, JobsInit, ApprovalInit, CallInv, TurnShapes, CallsStand, QuestionsStand
  <1> QED BY <1>2, <1>3, <1>4, <1>5 DEF TurnInv, JobInv

LEMMA JobsUntouched ==
  ASSUME JobInv, UNCHANGED jobVars  PROVE JobInv'
  <1> UNCHANGED <<status, reported, ended, producer, wait, target, owner, registry, known, mourned>>
    BY DEF jobVars
  <1>1. JobShapes'
    BY DEF JobInv, JobShapes
  <1>2. \A j \in Jobs : Awaited(j) => Awaited(j)'
    BY DEF Awaited
  <1> QED BY <1>1, <1>2, GivingStep

LEMMA QuestionsUntouched ==
  ASSUME CallInv, UNCHANGED <<call, granted, asked, question, outcome, consents>>
  PROVE  TurnShapes' /\ QuestionsStand'
  BY DEF CallInv, TurnShapes, QuestionsStand

\* Only an ask and a call that goes on change which calls are alive.
LEMMA CallsUntouched ==
  ASSUME CallInv, UNCHANGED call, phase = "tools" => phase' = "tools",
         \A c \in Calls : wait'[c] \in {"pending", "expired", "settled"}
                            => wait[c] \in {"pending", "expired", "settled"} \/ call[c] = "running"
  PROVE  CallsStand'
  BY DEF CallInv, CallsStand

\* The waits that a registry operation leaves.
LEMMA WaitsOfOperations ==
  ASSUME JobShapes,
         \/ List \/ DisposeAll \/ AllDisposed \/ \E o : DisposeOwner(o) \/ OwnerDisposed(o)
         \/ \E j \in Jobs : Start(j) \/ ProducerEnds(j) \/ Read(j) \/ Kill(j)
         \/ \E c \in Calls : WaitExpires(c) \/ WaitReturns(c)
         \/ \E cs : AbortWaits(cs)
  PROVE  \A c \in Calls : wait'[c] \in {"pending", "expired", "settled"}
                           => wait[c] \in {"pending", "expired", "settled"}
  <1>1. CASE List \/ AllDisposed \/ (\E o : OwnerDisposed(o)) \/ \E j \in Jobs : Start(j) \/ Read(j) \/ Kill(j)
    BY <1>1 DEF List, AllDisposed, OwnerDisposed, Drop, Start, Read, Kill
  <1>2. CASE DisposeAll \/ (\E o : DisposeOwner(o)) \/ \E j \in Jobs : ProducerEnds(j)
    <2>1. wait' = wait \/ \E js : wait' = [c \in Calls |-> IF target[c] \in js /\ wait[c] = "pending" THEN "settled" ELSE wait[c]]
      BY <1>2 DEF DisposeAll, DisposeOwner, ProducerEnds, CancelForTeardown, Settle
    <2> QED BY <2>1
  <1>3. CASE (\E c \in Calls : WaitExpires(c) \/ WaitReturns(c)) \/ \E cs : AbortWaits(cs)
    BY <1>3 DEF WaitExpires, WaitReturns, AbortWaits, JobShapes
  <1> QED BY <1>1, <1>2, <1>3

\* Withdrawing questions allows nothing.
LEMMA WithdrawnQuestions ==
  ASSUME CallInv, NEW cs, outcome' = Withdrawn(cs),
         UNCHANGED <<call, granted, asked, question, consents>>
  PROVE  TurnShapes' /\ QuestionsStand'
  <1>1. \A c \in Askers : outcome'[c] = "allowed-once" => outcome[c] = "allowed-once"
    BY DEF Withdrawn
  <1>2. TurnShapes'
    BY DEF CallInv, TurnShapes, Withdrawn, Answers
  <1>3. QuestionsStand'
    BY <1>1 DEF CallInv, QuestionsStand
  <1> QED BY <1>2, <1>3

LEMMA AbortStep ==
  ASSUME TurnInv, Abort  PROVE TurnInv'
  <1> JobInv /\ CallInv /\ JobShapes
    BY DEF TurnInv, JobInv
  <1>1. /\ AbortWaits(Calls) /\ outcome' = Withdrawn(Askers) /\ phase' = Interrupted
        /\ UNCHANGED <<call, granted, asked, question, consents>>
    BY DEF Abort
  <1>2. JobInv'
    BY <1>1, CallerSteps
  <1>3. TurnShapes' /\ QuestionsStand'
    BY <1>1, WithdrawnQuestions
  <1>4. CallsStand'
    BY <1>1, CallsUntouched, WaitsOfOperations DEF Interrupted
  <1> QED BY <1>2, <1>3, <1>4 DEF TurnInv, CallInv

LEMMA CallsOverStep ==
  ASSUME TurnInv, CallsOver  PROVE TurnInv'
  <1> JobInv /\ CallInv /\ JobShapes
    BY DEF TurnInv, JobInv
  <1>1. /\ \A c \in ToolCalls : call[c] \in {"idle", "over"}
        /\ call' = [c \in ToolCalls |-> "idle"] /\ wait' = [c \in Calls |-> "none"] /\ target' = [c \in Calls |-> AnyJob]
        /\ UNCHANGED <<status, reported, producer, owner, registry, known, mourned>>
        /\ UNCHANGED <<granted, asked, question, outcome, consents>>
    BY DEF CallsOver, approvalVars
  <1>2. AnyJob \in Jobs
    BY JobAssumption DEF AnyJob
  <1>3. JobShapes'
    BY <1>1, <1>2 DEF JobShapes
  <1>4. \A j \in Jobs : ~Awaited(j)
    BY <1>1, CallKinds DEF Awaited, CallInv, CallsStand
  <1>5. JobInv'
    BY <1>1, <1>3, <1>4, GivingStep
  <1>6. TurnShapes'
    BY <1>1 DEF CallInv, TurnShapes
  <1>7. CallsStand'
    BY <1>1, CallKinds DEF CallsStand
  <1>8. QuestionsStand'
    BY <1>1, CallKinds DEF CallInv, QuestionsStand
  <1> QED BY <1>5, <1>6, <1>7, <1>8 DEF TurnInv, CallInv

\* The turn, its requests and the teardowns leave the calls alone.
LEMMA TurnSteps ==
  ASSUME TurnInv,
         \/ OpenTurn \/ RequestAnswered \/ TurnFails \/ Cancel \/ Dispose \/ DisposeScope
         \/ Recovery \/ UnloadPlugin \/ UnloadRegistry \/ RegistryActs
  PROVE  TurnInv'
  <1> JobInv /\ CallInv /\ JobShapes
    BY DEF TurnInv, JobInv
  <1>1. CASE Cancel \/ Dispose
    BY <1>1, AbortStep DEF Cancel, Dispose
  <1>2. CASE OpenTurn \/ RequestAnswered \/ TurnFails \/ Recovery \/ UnloadPlugin
    <2>1. UNCHANGED <<call, granted, asked, question, outcome, consents>> /\ UNCHANGED jobVars
      BY <1>2 DEF OpenTurn, RequestAnswered, TurnFails, Recovery, UnloadPlugin, approvalVars, turnVars
    <2>2. phase = "tools" => phase' = "tools"
      <3>1. CASE OpenTurn \/ RequestAnswered \/ TurnFails
        BY <3>1 DEF OpenTurn, RequestAnswered, TurnFails
      <3>2. CASE UnloadPlugin
        BY <3>2 DEF UnloadPlugin, DisposePlugin, Interrupted
      <3>3. CASE Recovery
        BY <3>3 DEF Recovery, RetryNext, RequestThrows, RequestFails, Downstream, PluginGone, DownstreamRetries,
                    DownstreamDeclines, Recover, TimerFires, PluginDrained
      <3> QED BY <1>2, <3>1, <3>2, <3>3
    <2>3. CallsStand'
      BY <2>1, <2>2, CallsUntouched DEF jobVars
    <2> QED BY <2>1, <2>3, JobsUntouched, QuestionsUntouched DEF TurnInv, CallInv
  <1>3. CASE DisposeScope \/ UnloadRegistry \/ RegistryActs
    <2>1. UNCHANGED <<call, granted, asked, question, outcome, consents, phase>>
      BY <1>3 DEF DisposeScope, UnloadRegistry, RegistryActs, retryVars, approvalVars, turnVars
    <2>2. \/ List \/ DisposeAll \/ AllDisposed \/ \E o : DisposeOwner(o) \/ OwnerDisposed(o)
          \/ \E j \in Jobs : Start(j) \/ ProducerEnds(j)
      BY <1>3 DEF DisposeScope, UnloadRegistry, RegistryActs
    <2>3. JobInv'
      BY <2>2, ListStep, StartStep, ProducerStep, TeardownSteps
    <2>4. CallsStand'
      BY <2>1, <2>2, CallsUntouched, WaitsOfOperations
    <2> QED BY <2>1, <2>3, <2>4, QuestionsUntouched DEF TurnInv, CallInv
  <1> QED BY <1>1, <1>2, <1>3

LEMMA UserStep ==
  ASSUME TurnInv, UserActs  PROVE TurnInv'
  <1> JobInv /\ CallInv /\ JobShapes
    BY DEF TurnInv, JobInv
  <1>1. UNCHANGED jobVars /\ UNCHANGED <<phase, call, granted>> /\ UNCHANGED <<asked, question>>
    BY DEF UserActs, retryVars, turnVars, SetPolicy, Answer
  <1>2. JobInv' /\ CallsStand'
    BY <1>1, JobsUntouched, CallsUntouched DEF jobVars
  <1>3. CASE SetPolicy
    BY <1>1, <1>2, <1>3, QuestionsUntouched DEF SetPolicy, TurnInv, CallInv
  <1>4. ASSUME NEW q \in thinking, Answer(q)  PROVE TurnInv'
    <2>1. PICK a \in Answers :
            /\ outcome' = [c \in Askers |-> IF Awaits(c, q) THEN a ELSE outcome[c]]
            /\ consents' = IF a = "allowed-once" /\ \E c \in Askers : question[c] = q /\ outcome[c] = "none"
                           THEN consents \cup {q} ELSE consents
      BY <1>4 DEF Answer
    <2>2. TurnShapes'
      BY <1>1, <2>1 DEF CallInv, TurnShapes
    <2>3. consents \subseteq consents'
      BY <2>1
    <2>4. \A c \in Askers : outcome'[c] = "allowed-once" => question[c] \in consents'
      BY <2>1, <2>3 DEF CallInv, QuestionsStand, Awaits
    <2>5. QuestionsStand'
      BY <1>1, <2>3, <2>4 DEF CallInv, QuestionsStand
    <2> QED BY <1>2, <2>2, <2>5 DEF TurnInv, CallInv
  <1> QED BY <1>3, <1>4 DEF UserActs

-----------------------------------------------------------------------------
(* The steps of a call. *)

LEMMA AskFirstStep ==
  ASSUME TurnInv, NEW c \in Askers, AskFirst(c)  PROVE TurnInv'
  <1> JobInv /\ CallInv /\ c \in ToolCalls
    BY CallKinds DEF TurnInv
  <1>1. /\ phase = "tools" /\ call[c] = "idle" /\ call' = [call EXCEPT ![c] = "asking"]
        /\ UNCHANGED jobVars /\ UNCHANGED retryVars /\ UNCHANGED <<granted, consents>>
        /\ asked' = asked + 1 /\ question' = [question EXCEPT ![c] = asked + 1]
        /\ \E a \in {"cancelled", "rejected", "none"} : outcome' = [outcome EXCEPT ![c] = a]
    BY DEF AskFirst, Ask, CallChanges
  <1>2. JobInv'
    BY <1>1, JobsUntouched
  <1>3. asked \in Nat /\ asked' \in Nat /\ \A n \in Nat : n <= asked => n # asked' /\ n <= asked'
    BY <1>1 DEF CallInv, TurnShapes
  <1>4. TurnShapes'
    BY <1>1, <1>3 DEF CallInv, TurnShapes, Answers
  <1>5. CallsStand'
    <2>1. \A d \in ToolCalls : call[d] = "running" => call'[d] = "running"
      BY <1>1 DEF CallInv, TurnShapes
    <2> QED BY <1>1, <2>1, CallKinds DEF CallInv, CallsStand, jobVars, retryVars
  <1>6. QuestionsStand'
    <2>1. /\ question'[c] = asked' /\ call'[c] = "asking" /\ outcome'[c] # "allowed-once"
          /\ asked' # 0
      BY <1>1, <1>3 DEF CallInv, TurnShapes
    <2>2. \A d \in Askers \ {c} : question'[d] = question[d] /\ call'[d] = call[d] /\ outcome'[d] = outcome[d]
      BY <1>1, CallKinds DEF CallInv, TurnShapes
    <2>3. \A d \in Askers : question[d] # asked' /\ granted[d] # asked' /\ question[d] <= asked' /\ granted[d] <= asked'
      BY <1>3, CallKinds DEF CallInv, TurnShapes, QuestionsStand
    <2>4. asked' <= asked'
      BY <1>3
    <2>5. \A d, e \in Askers : d # e /\ question'[d] # 0 => question'[d] # question'[e]
      BY <2>1, <2>2, <2>3 DEF CallInv, QuestionsStand
    <2>6. \A d, e \in Askers : call'[d] = "running" /\ question'[e] # 0 => granted[d] # question'[e]
      BY <2>1, <2>2, <2>3 DEF CallInv, QuestionsStand
    <2> QED BY <1>1, <2>1, <2>2, <2>3, <2>4, <2>5, <2>6 DEF CallInv, QuestionsStand
  <1> QED BY <1>2, <1>4, <1>5, <1>6 DEF TurnInv, CallInv

LEMMA AskDecidedStep ==
  ASSUME TurnInv, NEW c \in Askers, AskDecided(c)  PROVE TurnInv'
  <1> JobInv /\ CallInv /\ c \in ToolCalls
    BY CallKinds DEF TurnInv
  <1> DEFINE allowed == outcome[c] = "allowed-once"
  <1>1. /\ call[c] = "asking" /\ call' = [call EXCEPT ![c] = IF allowed THEN "running" ELSE "over"]
        /\ UNCHANGED jobVars /\ UNCHANGED retryVars /\ UNCHANGED <<asked, consents>>
        /\ granted' = [granted EXCEPT ![c] = question[c]]
        /\ question' = [question EXCEPT ![c] = 0] /\ outcome' = [outcome EXCEPT ![c] = "none"]
    BY DEF AskDecided, Decided, CallChanges
  <1>2. JobInv'
    BY <1>1, JobsUntouched
  <1>3. TurnShapes'
    BY <1>1 DEF CallInv, TurnShapes
  <1>4. CallsStand'
    <2>1. \A d \in ToolCalls : call[d] = "running" => call'[d] = "running"
      BY <1>1 DEF CallInv, TurnShapes
    <2>2. phase = "tools"
      BY <1>1 DEF CallInv, CallsStand
    <2> QED BY <1>1, <2>1, <2>2, CallKinds DEF CallInv, CallsStand, jobVars, retryVars
  <1>5. QuestionsStand'
    <2>1. /\ question'[c] = 0 /\ call'[c] # "asking" /\ outcome'[c] = "none" /\ granted'[c] = question[c]
          /\ call'[c] = "running" => question[c] \in consents
      BY <1>1 DEF CallInv, TurnShapes, QuestionsStand
    <2>2. \A d \in Askers \ {c} : /\ question'[d] = question[d] /\ call'[d] = call[d] /\ outcome'[d] = outcome[d]
                                   /\ granted'[d] = granted[d]
      BY <1>1, CallKinds DEF CallInv, TurnShapes
    <2>3. question[c] # 0 /\ question[c] <= asked /\ 0 <= asked
      BY <1>1 DEF CallInv, TurnShapes, QuestionsStand
    <2>4. \A d, e \in Askers : call'[d] = "running" /\ question'[e] # 0 => granted'[d] # question'[e]
      BY <2>1, <2>2, <2>3 DEF CallInv, QuestionsStand
    <2>5. \A d, e \in Askers : call'[d] = "running" /\ call'[e] = "running" /\ d # e => granted'[d] # granted'[e]
      BY <2>1, <2>2, <2>3 DEF CallInv, QuestionsStand
    <2> QED BY <1>1, <2>1, <2>2, <2>3, <2>4, <2>5 DEF CallInv, QuestionsStand
  <1> QED BY <1>2, <1>3, <1>4, <1>5 DEF TurnInv, CallInv

\* A call that does not ask, or one that runs, goes on without a question.
LEMMA CallGoesOn ==
  ASSUME CallInv, JobShapes, NEW c \in ToolCalls, phase' = phase, phase = "tools",
         UNCHANGED <<granted, asked, question, outcome, consents>>,
         \A d \in Calls : wait'[d] \in {"pending", "expired", "settled"} => wait[d] \in {"pending", "expired", "settled"},
         \/ c \notin Askers /\ call[c] = "idle" /\ CallChanges(c, "running")
         \/ /\ call[c] = "running" /\ CallChanges(c, "over")
            /\ c \in Calls => wait[c] \notin {"pending", "expired", "settled"}
  PROVE  CallInv'
  <1>1. TurnShapes'
    BY DEF CallInv, TurnShapes, CallChanges
  <1>2. CallsStand'
    BY CallKinds DEF CallInv, TurnShapes, CallsStand, CallChanges
  <1>3. \A d \in Askers : (call'[d] = "asking" <=> call[d] = "asking") /\ (call'[d] = "running" => call[d] = "running")
    BY CallKinds DEF CallInv, TurnShapes, CallChanges
  <1>4. QuestionsStand'
    BY <1>3 DEF CallInv, QuestionsStand
  <1> QED BY <1>1, <1>2, <1>4 DEF CallInv

LEMMA CallSteps ==
  ASSUME TurnInv, NEW c \in ToolCalls, CallActs(c)  PROVE TurnInv'
  <1> JobInv /\ CallInv /\ JobShapes /\ TurnShapes
    BY DEF TurnInv, JobInv, CallInv
  <1>1. CASE c \in Askers /\ (AskFirst(c) \/ AskDecided(c))
    BY <1>1, AskFirstStep, AskDecidedStep
  <1>2. CASE c \in Calls /\ UseJob(c)
    <2>1. /\ call[c] = "running" /\ wait[c] = "none" /\ CallChanges(c, "over")
          /\ UNCHANGED <<phase, granted, asked, question, outcome, consents>>
          /\ \E j \in Jobs : Start(j) \/ Kill(j) \/ Read(j)
      BY <1>2 DEF UseJob, Idle, retryVars, approvalVars
    <2>2. phase = "tools"
      BY <2>1 DEF CallInv, CallsStand
    <2>3. JobInv'
      BY <2>1, StartStep, CallerSteps
    <2>4. CallInv'
      BY <1>2, <2>1, <2>2, WaitsOfOperations, CallGoesOn
    <2> QED BY <2>3, <2>4 DEF TurnInv
  <1>3. CASE c \in Calls /\ WaitForJob(c)
    <2>1. /\ call[c] = "running" /\ wait[c] = "none"
          /\ UNCHANGED <<phase, call, granted, asked, question, outcome, consents>>
          /\ \E j \in Jobs : WaitFor(c, j, aborted)
      BY <1>3 DEF WaitForJob, Idle, retryVars, approvalVars, turnVars
    <2>2. JobInv'
      BY <1>3, <2>1, CallerSteps
    <2>3. \A d \in Calls : d # c => wait'[d] = wait[d]
      BY <2>1 DEF WaitFor, JobShapes
    <2>4. CallsStand'
      BY <2>1, <2>3, CallsUntouched
    <2> QED BY <2>1, <2>2, <2>4, QuestionsUntouched DEF TurnInv, CallInv
  <1>4. CASE c \in Calls /\ WaitGoesOn(c)
    <2>1. /\ UNCHANGED <<phase, call, granted, asked, question, outcome, consents>>
          /\ WaitExpires(c) \/ WaitReturns(c)
      BY <1>4 DEF WaitGoesOn, retryVars, approvalVars, turnVars
    <2>2. JobInv'
      BY <1>4, <2>1, CallerSteps
    <2>3. CallsStand'
      BY <1>4, <2>1, CallsUntouched, WaitsOfOperations
    <2> QED BY <2>1, <2>2, <2>3, QuestionsUntouched DEF TurnInv, CallInv
  <1>5. CASE RunFreely(c)
    <2>1. /\ c \notin Askers /\ phase = "tools" /\ call[c] = "idle" /\ CallChanges(c, "running")
          /\ UNCHANGED jobVars /\ UNCHANGED <<phase, granted, asked, question, outcome, consents>>
      BY <1>5 DEF RunFreely, retryVars, approvalVars
    <2>2. CallInv'
      BY <2>1, CallGoesOn DEF jobVars
    <2> QED BY <2>1, <2>2, JobsUntouched DEF TurnInv
  <1>6. CASE CallTimesOut(c)
    <2>1. /\ outcome' = Withdrawn({c}) /\ AbortWaits({c})
          /\ UNCHANGED <<phase, call, granted, asked, question, consents>>
      BY <1>6 DEF CallTimesOut, retryVars, turnVars
    <2>2. JobInv'
      BY <2>1, CallerSteps
    <2>3. TurnShapes' /\ QuestionsStand'
      BY <2>1, WithdrawnQuestions
    <2>4. CallsStand'
      BY <2>1, CallsUntouched, WaitsOfOperations
    <2> QED BY <2>2, <2>3, <2>4 DEF TurnInv, CallInv
  <1>7. CASE BodyEnds(c)
    <2>1. /\ call[c] = "running" /\ CallChanges(c, "over")
          /\ c \in Calls => wait[c] \in {"none", "done"}
          /\ UNCHANGED jobVars /\ UNCHANGED <<phase, granted, asked, question, outcome, consents>>
      BY <1>7 DEF BodyEnds, retryVars, approvalVars
    <2>2. phase = "tools"
      BY <2>1 DEF CallInv, CallsStand
    <2>3. CallInv'
      BY <2>1, <2>2, CallGoesOn DEF jobVars
    <2> QED BY <2>1, <2>3, JobsUntouched DEF TurnInv
  <1> QED BY <1>1, <1>2, <1>3, <1>4, <1>5, <1>6, <1>7 DEF CallActs

-----------------------------------------------------------------------------
(* The theorems. *)

\* The strengthening holds at the start and no step breaks it.
THEOREM ServicesInvariant == Spec => []TurnInv
<1>1. Init => TurnInv
  BY InitInvariant
<1>2. TurnInv /\ [Next]_vars => TurnInv'
  <2> SUFFICES ASSUME TurnInv, [Next]_vars  PROVE TurnInv'
    OBVIOUS
  <2>1. CASE Next
    BY <2>1, TurnSteps, CallsOverStep, UserStep, CallSteps DEF Next
  <2>2. CASE UNCHANGED vars
    <3>1. UNCHANGED jobVars /\ UNCHANGED <<phase, call, granted, asked, question, outcome, consents>> /\ UNCHANGED wait
      BY <2>2 DEF vars, jobVars, retryVars, approvalVars
    <3>2. JobInv' /\ TurnShapes' /\ QuestionsStand' /\ CallsStand'
      BY <3>1, JobsUntouched, QuestionsUntouched, CallsUntouched DEF TurnInv
    <3> QED BY <3>2 DEF TurnInv, CallInv
  <2> QED BY <2>1, <2>2
<1> QED BY <1>1, <1>2, PTL DEF Spec

\* No end of a job is lost: a record that needs no notice was given to someone or is
\* about to be returned by a wait, and no other is swept (settle, pruneTerminal).
THEOREM EndsAreKnown == Spec => []CompletionKnown
<1>1. TurnInv => CompletionKnown
  BY DEF TurnInv, JobInv, RecordsStand, CompletionKnown, Awaited
<1> QED BY <1>1, ServicesInvariant, PTL

\* Started work stays within its owner's limit, and none outlives its owner or the
\* registry but for a cancel that threw (start, disposeOwned, disposeAll).
THEOREM WorkIsBounded == Spec => []ProducersBounded
<1>1. TurnInv => ProducersBounded
  BY DEF TurnInv, JobInv, WorkStands, ProducersBounded, Working
<1> QED BY <1>1, ServicesInvariant, PTL

\* In a teardown no record is running, and what still works was told to stop and
\* reports to nobody (cancelForTeardown).
THEOREM TeardownIsComplete == Spec => []TeardownReachesAll
<1>1. TurnInv => TeardownReachesAll
  BY DEF TurnInv, JobInv, WorkStands, NoneRunning, RecordsStand, TornDown, Live, TeardownReachesAll
<1> QED BY <1>1, ServicesInvariant, PTL

\* A call that asked runs under its own question only, which the user allowed while it
\* was waited for, and a closed turn has no question left (serviceAsk, request).
THEOREM GrantsAreOwn == Spec => []GrantIsFresh
<1>1. TurnInv => GrantIsFresh
  BY CallKinds DEF TurnInv, CallInv, CallsStand, QuestionsStand, TurnShapes, GrantIsFresh
<1> QED BY <1>1, ServicesInvariant, PTL

-----------------------------------------------------------------------------
(* Retries.  They are counted apart from the jobs and the calls. *)

RetryShapes ==
  /\ record \in [Policies -> Nat] /\ requests \in Nat /\ delegated \in Nat
  /\ failure \in Failures \cup {PassedBy}
  /\ IsFiniteSet(RetryRecords)

RetryInv == RetryShapes /\ RetriesBounded

\* A new record of a policy adds one record to those of the step.
LEMMA OneMoreRecord ==
  ASSUME RetryShapes, NEW k \in Policies, record' = [record EXCEPT ![k] = @ + 1]
  PROVE  IsFiniteSet(RetryRecords') /\ Cardinality(RetryRecords') = Cardinality(RetryRecords) + 1
  <1> DEFINE new == <<k, record[k] + 1>>
  <1>1. new \notin RetryRecords
    BY DEF RetryShapes, RetryRecords
  <1>2. \A i \in Policies : record'[i] = IF i = k THEN record[k] + 1 ELSE record[i]
    BY DEF RetryShapes
  <1>3. ASSUME NEW e  PROVE e \in RetryRecords' <=> e \in RetryRecords \/ e = new
    <2>1. e \in RetryRecords' <=> \E i \in Policies : e \in {i} \X (1..record'[i])
      BY DEF RetryRecords
    <2>2. e \in RetryRecords <=> \E i \in Policies : e \in {i} \X (1..record[i])
      BY DEF RetryRecords
    <2>3. \A i \in Policies : i # k => (e \in {i} \X (1..record'[i]) <=> e \in {i} \X (1..record[i]))
      BY <1>2
    <2>4. 1..record'[k] = (1..record[k]) \cup {record[k] + 1}
      BY <1>2 DEF RetryShapes
    <2>5. e \in {k} \X (1..record'[k]) <=> e \in {k} \X (1..record[k]) \/ e = new
      BY <2>4
    <2> QED BY <2>1, <2>2, <2>3, <2>5
  <1>4. RetryRecords' = RetryRecords \cup {new}
    BY <1>3
  <1> QED BY <1>1, <1>4, FS_AddElement DEF RetryShapes

LEMMA NoRecords ==
  ASSUME record' = [k \in Policies |-> 0]
  PROVE  RetryRecords' = {} /\ IsFiniteSet(RetryRecords') /\ Cardinality(RetryRecords') = 0
  <1>1. RetryRecords' = {}
    BY DEF RetryRecords
  <1> QED BY <1>1, FS_EmptySet

LEMMA CountedRecords ==
  ASSUME RetryShapes  PROVE Cardinality(RetryRecords) \in Nat
  BY FS_CardinalityType DEF RetryShapes

\* The requests and records of a step as long as neither changes but by the loop's
\* own request, which nothing waited for.
LEMMA RetriesKept ==
  ASSUME RetryInv, UNCHANGED <<record, delegated>>,
         failure' \in Failures \cup {PassedBy},
         \/ requests' = requests /\ (phase' = "backoff" => phase = "backoff")
         \/ phase = "backoff" /\ requests' = requests + 1 /\ phase' # "backoff"
         \/ requests' = 1 /\ phase' # "backoff"
  PROVE  RetryInv'
  <1>1. RetryRecords' = RetryRecords
    BY DEF RetryRecords
  <1>2. Cardinality(RetryRecords) \in Nat
    BY CountedRecords DEF RetryInv
  <1>3. RetryShapes'
    BY <1>1 DEF RetryInv, RetryShapes
  <1>4. requests' + (IF phase' = "backoff" THEN 1 ELSE 0) <= 1 + Cardinality(RetryRecords) + delegated
    BY <1>2 DEF RetryInv, RetryShapes, RetriesBounded
  <1>5. RetriesBounded'
    BY <1>1, <1>4 DEF RetryInv, RetriesBounded
  <1> QED BY <1>3, <1>5 DEF RetryInv

\* A retry is recorded before its wait, by a policy with budget left or without one.
LEMMA ScheduleStep ==
  ASSUME RetryInv, NEW k \in Policies, Schedule(k),
         Mode(k) = "normal" => record[k] < Budget(k),
         UNCHANGED <<failure, requests, delegated>>
  PROVE  RetryInv'
  <1>1. CASE Fused
    BY <1>1, RetriesKept DEF Schedule, RetryInv, RetryShapes
  <1>2. CASE ~Fused
    <2>1. phase' = "backoff" /\ record' = [record EXCEPT ![k] = @ + 1]
      BY <1>2 DEF Schedule
    <2>2. IsFiniteSet(RetryRecords') /\ Cardinality(RetryRecords') = Cardinality(RetryRecords) + 1
      BY <2>1, OneMoreRecord DEF RetryInv
    <2>3. RetryShapes'
      BY <2>1, <2>2 DEF RetryInv, RetryShapes
    <2>4. \A i \in Policies : Mode(i) = "normal" => record'[i] <= Budget(i)
      BY <2>1, RetryAssumption DEF RetryInv, RetryShapes, RetriesBounded
    <2>5. requests <= 1 + Cardinality(RetryRecords) + delegated
      BY CountedRecords DEF RetryInv, RetryShapes, RetriesBounded
    <2>6. requests' + 1 <= 1 + Cardinality(RetryRecords') + delegated'
      BY <2>2, <2>5, CountedRecords DEF RetryInv, RetryShapes
    <2>7. RetriesBounded'
      BY <2>1, <2>4, <2>6 DEF RetriesBounded
    <2> QED BY <2>3, <2>7 DEF RetryInv
  <1> QED BY <1>1, <1>2

LEMMA FailedPolicy ==
  ASSUME RetryShapes, failure.policy # NoPolicy  PROVE failure.policy \in Policies
  <1>1. CASE failure \in [policy : Policies, kind : {"eligible", "other"}]
    BY <1>1
  <1>2. CASE failure = NoFailure \/ failure = PassedBy
    <2>1. NoFailure.policy = NoPolicy /\ PassedBy.policy = NoPolicy
      BY DEF NoFailure, PassedBy
    <2> QED BY <1>2, <2>1
  <1> QED BY <1>1, <1>2 DEF RetryShapes, Failures

LEMMA RecoverySteps ==
  ASSUME RetryInv, RetryNext  PROVE RetryInv'
  <1> RetryShapes
    BY DEF RetryInv
  <1>1. CASE RequestThrows \/ RequestFails \/ Downstream \/ PluginGone \/ PluginDrained \/ TimerFires
    <2>1. /\ UNCHANGED <<record, delegated>> /\ failure' \in Failures \cup {PassedBy}
          /\ \/ requests' = requests /\ (phase' = "backoff" => phase = "backoff")
             \/ phase = "backoff" /\ requests' = requests + 1 /\ phase' # "backoff"
      BY <1>1 DEF RequestThrows, RequestFails, Downstream, PluginGone, PluginDrained, TimerFires, Request,
                  RetryShapes, Failures
    <2> QED BY <2>1, RetriesKept
  <1>2. CASE DownstreamRetries
    <2>1. CASE phase' = "failing" /\ UNCHANGED <<failure, requests, delegated>>
      BY <1>2, <2>1, RetriesKept DEF DownstreamRetries, RetryShapes
    <2>2. CASE Request /\ delegated' = delegated + 1
      <3>1. RetryRecords' = RetryRecords /\ record' = record
        BY <1>2 DEF DownstreamRetries, RetryRecords
      <3>2. RetryShapes'
        BY <2>2, <3>1 DEF RetryShapes, Request, Failures
      <3>3. requests <= 1 + Cardinality(RetryRecords) + delegated /\ Cardinality(RetryRecords) \in Nat
        BY CountedRecords DEF RetryInv, RetryShapes, RetriesBounded
      <3>4. requests' + 0 <= 1 + Cardinality(RetryRecords) + delegated'
        BY <2>2, <3>3 DEF Request, RetryShapes
      <3>5. RetriesBounded'
        BY <2>2, <3>1, <3>4 DEF RetryInv, RetriesBounded, Request
      <3> QED BY <3>2, <3>5 DEF RetryInv
    <2> QED BY <1>2, <2>1, <2>2 DEF DownstreamRetries
  <1>3. CASE DownstreamDeclines
    <2>1. CASE phase' = "failing" /\ UNCHANGED record
      BY <1>3, <2>1, RetriesKept DEF DownstreamDeclines, RetryShapes
    <2>2. CASE Always /\ record[failure.policy] < Budget(failure.policy) /\ Schedule(failure.policy)
      <3>1. failure.policy \in Policies
        BY <2>2, FailedPolicy DEF Always
      <3> QED BY <1>3, <2>2, <3>1, ScheduleStep DEF DownstreamDeclines
    <2> QED BY <1>3, <2>1, <2>2 DEF DownstreamDeclines
  <1>4. CASE Recover
    <2>1. failure.policy \in Policies /\ ~Spent(failure.policy)
      BY <1>4, FailedPolicy DEF Recover, Delegates
    <2>2. Mode(failure.policy) = "normal" => record[failure.policy] < Budget(failure.policy)
      BY <2>1, RetryAssumption DEF Spent, RetryShapes
    <2> QED BY <1>4, <2>1, <2>2, ScheduleStep DEF Recover
  <1> QED BY <1>1, <1>2, <1>3, <1>4 DEF RetryNext

\* The records of a step are gone with it.
LEMMA StepOverStep ==
  ASSUME RetryInv, NEW p \in {"closed", "tools"}, StepOver(p)  PROVE RetryInv'
  <1>1. RetryRecords' = {} /\ IsFiniteSet(RetryRecords') /\ Cardinality(RetryRecords') = 0
    BY NoRecords DEF StepOver
  <1>2. RetryShapes'
    BY <1>1 DEF StepOver, RetryShapes, Failures
  <1>3. RetriesBounded'
    BY <1>1, RetryAssumption DEF StepOver, RetriesBounded
  <1> QED BY <1>2, <1>3 DEF RetryInv

LEMMA RetriesStep ==
  ASSUME RetryInv, [Next]_vars  PROVE RetryInv'
  <1> RetryShapes
    BY DEF RetryInv
  <1>1. CASE Recovery
    BY <1>1, RecoverySteps DEF Recovery
  <1>2. CASE RequestAnswered \/ TurnFails
    BY <1>2, StepOverStep DEF RequestAnswered, TurnFails
  <1>3. CASE OpenTurn \/ CallsOver
    BY <1>3, RetriesKept DEF OpenTurn, CallsOver, TakeStep, NewStep, RetryShapes
  <1>4. CASE Cancel \/ Dispose \/ UnloadPlugin
    BY <1>4, RetriesKept DEF Cancel, Dispose, Abort, UnloadPlugin, DisposePlugin, Interrupted, RetryShapes
  <1>5. CASE \/ DisposeScope \/ UnloadRegistry \/ RegistryActs \/ UserActs \/ UNCHANGED vars
             \/ \E c \in ToolCalls : CallActs(c)
    <2>1. UNCHANGED retryVars
      BY <1>5 DEF DisposeScope, UnloadRegistry, RegistryActs, UserActs, vars, CallActs, AskFirst, AskDecided,
                  UseJob, WaitForJob, WaitGoesOn, RunFreely, CallTimesOut, BodyEnds
    <2> QED BY <2>1, RetriesKept DEF retryVars, RetryShapes
  <1> QED BY <1>1, <1>2, <1>3, <1>4, <1>5 DEF Next

\* The requests of a step are accounted for by its records and by what another policy
\* decided, and no normal policy exceeds its budget (recover, backoff).
THEOREM BudgetsHold == Spec => []RetriesBounded
<1>1. Init => RetryInv
  <2> SUFFICES ASSUME Init  PROVE RetryInv
    OBVIOUS
  <2>1. /\ phase = "closed" /\ record = [k \in Policies |-> 0] /\ requests = 0 /\ delegated = 0
        /\ failure = NoFailure
    BY DEF Init, RetryInit
  <2>2. RetryRecords = {}
    BY <2>1 DEF RetryRecords
  <2>3. IsFiniteSet(RetryRecords) /\ Cardinality(RetryRecords) = 0
    BY <2>2, FS_EmptySet
  <2> QED BY <2>1, <2>3, RetryAssumption DEF RetryInv, RetryShapes, RetriesBounded, Failures
<1>2. RetryInv /\ [Next]_vars => RetryInv'
  BY RetriesStep
<1>3. RetryInv => RetriesBounded
  BY DEF RetryInv
<1> QED BY <1>1, <1>2, <1>3, PTL DEF Spec

===============================================================================
