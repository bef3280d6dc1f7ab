----------------------- MODULE SessionCoordinatorProofs -----------------------
(***************************************************************************)
(* Proofs about SessionCoordinator, for any number of calls and any store:  *)
(* a resumed Session continues exactly its log, one log has one Session, and *)
(* what is returned is current.  The argument is that the preparation's one  *)
(* exclusive holder keeps this process from moving the log it read, and the   *)
(* lease it may have every other process.                                     *)
(***************************************************************************)
EXTENDS SessionCoordinator, FiniteSetTheorems, TLAPS

-----------------------------------------------------------------------------
(* The inductive invariant. *)

Holds(c) == call[c] \in {"committing", "repairing", "reserved"}

\* Who commits or holds a reservation does so through the table's entry, alone.
HolderStands ==
  /\ \A c \in Callers : Holds(c) =>
       /\ joined[c] = Entry
       /\ entry.phase = IF call[c] = "reserved" THEN "reserved" ELSE "committing"
  /\ \A c, d \in Callers : Holds(c) /\ Holds(d) => c = d

\* Nobody else writes: the lease keeps other processes out, or none has written.
Sound(c) == proof[c] = "held" \/ ~overtaken

\* No Session is over a log that is repaired or reserved, and it is as it was read.
ReservationStands ==
  \A c \in Callers :
    /\ call[c] \in {"repairing", "reserved"} => session = "none"
    /\ call[c] = "reserved" => wants[c] <= entry.reading
    /\ call[c] = "reserved" /\ Sound(c) => entry.reading = stored
    /\ call[c] = "repairing" /\ role[c] = "fenced" => proof[c] = "held" /\ entry.reading = stored

\* A call with a fence has it until it is over or the lease is lost.
FencesStand == \A c \in Callers : role[c] = "fenced" => proof[c] # "none"

\* The id is owned as long as its Session is live or retiring.
OwnerStands ==
  /\ session # "none" <=> state.owner = "owned"
  /\ session = "retired" <=> retirement # "none"
  /\ state.owner = "owned" => state.cursor <= length
  /\ state.owner = "owned" /\ (fence = "held" \/ ~overtaken) => state.cursor = stored

\* No call waits for events that are not stored, but for a flush.
WantsStand == \A c \in Callers : call[c] # "flushing" => wants[c] <= stored

CallsStand == HolderStands /\ ReservationStands /\ FencesStand /\ WantsStand /\ ViewsAreCurrent

CoordinatorInv == TypeOK /\ OwnerStands /\ CallsStand

-----------------------------------------------------------------------------
(* What the steps of calls do. *)

Others(c) ==
  \A d \in Callers \ {c} :
    /\ call'[d] = call[d] /\ wants'[d] = wants[d] /\ missing'[d] = missing[d]
    /\ role'[d] = role[d] /\ proof'[d] = proof[d]

CallTyped ==
  /\ call' \in [Callers -> {"idle", "start", "admitted", "reading", "flushing",
                            "committing", "repairing", "reserved", "over"}]
  /\ role' \in [Callers -> {"none", "prepare", "fenced", "load", "inspect"}]
  /\ proof' \in [Callers -> {"none", "held", "lost"}]
  /\ wants' \in [Callers -> Nat] /\ missing' \in [Callers -> Nat]

EntryTyped ==
  entry' \in [phase : {"none", "loading", "ready", "committing", "reserved"}, reading : Nat \cup {Pending}]

JoinedTyped == joined' \in [Callers -> Nat \cup {Pending, Failed, Entry, Nowhere}]

\* c is over, or waits again, with nothing missing and nothing held.
Settled(c) ==
  /\ Others(c) /\ CallTyped /\ ~Holds(c)' /\ missing'[c] = 0
  /\ role'[c] = "fenced" => proof'[c] # "none"
  /\ call'[c] = "flushing" \/ wants'[c] <= stored

LEMMA Ending ==
  ASSUME TypeOK, NEW c \in Callers, NEW lacks \in Nat, Ends(c, lacks)
  PROVE  Others(c) /\ CallTyped /\ ~Holds(c)' /\ missing'[c] = lacks /\ role'[c] = "none" /\ wants'[c] = 0
  <1>1. /\ call' = [call EXCEPT ![c] = "over"] /\ missing' = [missing EXCEPT ![c] = lacks]
        /\ role' = [role EXCEPT ![c] = "none"] /\ wants' = [wants EXCEPT ![c] = 0]
        /\ proof' = [proof EXCEPT ![c] = "none"]
    BY DEF Ends
  <1>2. Others(c)
    BY <1>1 DEF TypeOK, Others
  <1>3. CallTyped
    BY <1>1 DEF TypeOK, CallTyped
  <1> QED BY <1>1, <1>2, <1>3 DEF TypeOK, Holds

LEMMA Settling ==
  ASSUME TypeOK, NEW c \in Callers, Rejects(c) \/ Borrows(c)
  PROVE  Settled(c)
  <1>1. Ends(c, 0) /\ stored \in Nat
    BY DEF Rejects, Borrows, TypeOK
  <1> QED BY <1>1, Ending DEF Settled

LEMMA Answering ==
  ASSUME TypeOK, NEW c \in Callers, NEW n \in Nat, Returns(c, n), wants[c] <= n
  PROVE  Settled(c)
  <1>1. wants[c] \in Nat /\ stored \in Nat
    BY DEF TypeOK
  <1>2. (IF n < wants[c] THEN wants[c] - n ELSE 0) = 0
    BY <1>1
  <1>3. Ends(c, 0)
    BY <1>2 DEF Returns
  <1> QED BY <1>1, <1>3, Ending DEF Settled

LEMMA StartingOver ==
  ASSUME TypeOK, CallsStand, NEW c \in Callers, StartsOver(c), call[c] # "flushing"
  PROVE  Settled(c)
  <1>1. call' = [call EXCEPT ![c] = "start"] /\ UNCHANGED <<role, wants, proof, missing>>
    BY DEF StartsOver
  <1>2. Others(c) /\ CallTyped /\ ~Holds(c)'
    BY <1>1 DEF TypeOK, Others, CallTyped, Holds
  <1>3. missing'[c] = 0 /\ wants'[c] <= stored /\ (role'[c] = "fenced" => proof'[c] # "none")
    BY <1>1 DEF CallsStand, ViewsAreCurrent, WantsStand, FencesStand
  <1> QED BY <1>2, <1>3 DEF Settled

LEMMA DetachedReadings ==
  ASSUME TypeOK
  PROVE  Detached \in [Callers -> Nat \cup {Pending, Failed, Nowhere}]
  <1>1. \A d \in Callers : joined[d] \in Nat \cup {Pending, Failed, Entry, Nowhere}
    BY DEF TypeOK
  <1>2. entry.reading \in Nat \cup {Pending}
    BY DEF TypeOK
  <1> QED BY <1>1, <1>2 DEF Detached

LEMMA Detaching ==
  ASSUME TypeOK, NEW c \in Callers
  PROVE  /\ Remove(c) => /\ entry' = NoEntry
                         /\ joined' \in [Callers -> Nat \cup {Pending, Failed, Nowhere}]
         /\ Keep(c) => /\ entry' = entry /\ joined'[c] = Nowhere
                       /\ \A d \in Callers \ {c} : joined'[d] = joined[d]
                       /\ joined' \in [Callers -> Nat \cup {Pending, Failed, Entry, Nowhere}]
  <1>1. Remove(c) => entry' = NoEntry /\ joined' \in [Callers -> Nat \cup {Pending, Failed, Nowhere}]
    BY DetachedReadings DEF Remove
  <1>2. Keep(c) => /\ entry' = entry /\ joined'[c] = Nowhere
                   /\ \A d \in Callers \ {c} : joined'[d] = joined[d]
                   /\ joined' \in [Callers -> Nat \cup {Pending, Failed, Entry, Nowhere}]
    BY DEF Keep, TypeOK
  <1> QED BY <1>1, <1>2

\* A step of one call that leaves every other holder its entry and its log.
LEMMA CallMoves ==
  ASSUME CoordinatorInv, NEW c \in Callers, Settled(c), stored' \in Nat, stored' >= stored,
         \A d \in Callers \ {c} : Holds(d) =>
           /\ joined'[d] = joined[d] /\ entry' = entry
           /\ stored' = stored /\ session' = session /\ overtaken' = overtaken
  PROVE  CallsStand'
  <1>1. \A d \in Callers \ {c} : /\ call'[d] = call[d] /\ wants'[d] = wants[d] /\ missing'[d] = missing[d]
                                 /\ role'[d] = role[d] /\ proof'[d] = proof[d]
    BY DEF Settled, Others
  <1>2. HolderStands /\ ReservationStands /\ FencesStand /\ WantsStand /\ ViewsAreCurrent
    BY DEF CoordinatorInv, CallsStand
  <1>3. /\ ~Holds(c)' /\ missing'[c] = 0 /\ (role'[c] = "fenced" => proof'[c] # "none")
        /\ call'[c] = "flushing" \/ wants'[c] <= stored
    BY DEF Settled
  <1>4. HolderStands'
    BY <1>1, <1>2, <1>3 DEF HolderStands, Holds
  <1>5. ReservationStands'
    BY <1>1, <1>2, <1>3 DEF ReservationStands, Holds, Sound
  <1>6. FencesStand'
    BY <1>1, <1>2, <1>3 DEF FencesStand
  <1>7. WantsStand'
    <2>1. stored \in Nat /\ \A d \in Callers : wants[d] \in Nat
      BY DEF CoordinatorInv, TypeOK
    <2>2. wants' \in [Callers -> Nat]
      BY DEF Settled, CallTyped
    <2> QED BY <1>1, <1>2, <1>3, <2>1, <2>2 DEF WantsStand
  <1>8. ViewsAreCurrent'
    BY <1>1, <1>2, <1>3 DEF ViewsAreCurrent
  <1> QED BY <1>4, <1>5, <1>6, <1>7, <1>8 DEF CallsStand

\* A step of no call.
LEMMA OthersMove ==
  ASSUME CoordinatorInv, UNCHANGED <<call, wants, missing, role, proof>>, stored' \in Nat, stored' >= stored,
         \A d \in Callers : Holds(d) => joined'[d] = joined[d] /\ entry' = entry /\ session' = session,
         \A d \in Callers : Holds(d) /\ stored' # stored => proof[d] # "held" /\ overtaken',
         overtaken => overtaken'
  PROVE  CallsStand'
  <1>1. HolderStands /\ ReservationStands /\ FencesStand /\ WantsStand /\ ViewsAreCurrent
    BY DEF CoordinatorInv, CallsStand
  <1>2. HolderStands'
    BY <1>1 DEF HolderStands, Holds
  <1>3. ReservationStands'
    BY <1>1 DEF ReservationStands, Holds, Sound
  <1>4. FencesStand'
    BY <1>1 DEF FencesStand
  <1>5. WantsStand'
    <2>1. stored \in Nat /\ \A d \in Callers : wants[d] \in Nat
      BY DEF CoordinatorInv, TypeOK
    <2> QED BY <1>1, <2>1 DEF WantsStand
  <1>6. ViewsAreCurrent'
    BY <1>1 DEF ViewsAreCurrent
  <1> QED BY <1>2, <1>3, <1>4, <1>5, <1>6 DEF CallsStand

Bound ==
  /\ stored \in Nat /\ length \in Nat /\ state.cursor \in Nat
  /\ \A c \in Callers : wants[c] \in Nat /\ missing[c] \in Nat
  /\ MaxMishaps \in Nat /\ mishaps \in 0..MaxMishaps

LEMMA Bounds ==
  ASSUME CoordinatorInv  PROVE Bound
  BY CoordinatorAssumption DEF CoordinatorInv, TypeOK, Bound

\* A step of one call, with the log and its Session as they are.
LEMMA CallOnly ==
  ASSUME CoordinatorInv, NEW c \in Callers, Settled(c), UNCHANGED <<storeVars, overtaken, liveVars>>,
         EntryTyped, JoinedTyped, mishaps' \in 0..MaxMishaps,
         \A d \in Callers \ {c} : Holds(d) => joined'[d] = joined[d] /\ entry' = entry
  PROVE  CoordinatorInv'
  <1> TypeOK /\ OwnerStands /\ Bound
    BY Bounds DEF CoordinatorInv
  <1>1. TypeOK'
    BY DEF TypeOK, storeVars, liveVars, Settled, CallTyped, EntryTyped, JoinedTyped
  <1>2. OwnerStands'
    BY DEF OwnerStands, storeVars, liveVars
  <1>3. CallsStand'
    BY CallMoves DEF storeVars, liveVars, Bound
  <1> QED BY <1>1, <1>2, <1>3 DEF CoordinatorInv

\* Waiting for a turn: nothing but the call moves.
LEMMA BeginStep ==
  ASSUME CoordinatorInv, NEW c \in Callers, Begin(c) \/ Admit(c)
  PROVE  CoordinatorInv'
  <1> TypeOK /\ CallsStand /\ Bound
    BY Bounds DEF CoordinatorInv
  <1>1. UNCHANGED <<storeVars, overtaken, entry, liveVars, joined, missing, mishaps>>
    BY DEF Begin, Admit
  <1>2. CASE Begin(c)
    <2>1. PICK r \in Roles(c) : /\ role' = [role EXCEPT ![c] = r]
                                /\ proof' = [proof EXCEPT ![c] = IF r = "fenced" THEN "held" ELSE "none"]
      BY <1>2 DEF Begin
    <2>2. r \in {"prepare", "fenced", "load", "inspect"}
      BY CoordinatorAssumption
    <2>3. call' = [call EXCEPT ![c] = "start"] /\ wants' = [wants EXCEPT ![c] = stored]
      BY <1>2 DEF Begin
    <2>4. Others(c) /\ CallTyped
      BY <1>1, <2>1, <2>2, <2>3 DEF TypeOK, Others, CallTyped
    <2>5. ~Holds(c)' /\ wants'[c] <= stored /\ (role'[c] = "fenced" => proof'[c] # "none")
      BY <2>1, <2>3 DEF TypeOK, Holds
    <2>6. missing'[c] = 0
      BY <1>1 DEF CallsStand, ViewsAreCurrent
    <2>7. Settled(c)
      BY <2>4, <2>5, <2>6 DEF Settled
    <2> QED BY <1>1, <2>7, CallOnly DEF TypeOK, EntryTyped, JoinedTyped
  <1>3. CASE Admit(c)
    <2>1. call[c] = "start" /\ call' = [call EXCEPT ![c] = "admitted"] /\ UNCHANGED <<role, wants, proof, missing>>
      BY <1>3 DEF Admit
    <2>2. Others(c) /\ CallTyped /\ ~Holds(c)'
      BY <2>1 DEF TypeOK, Others, CallTyped, Holds
    <2>3. missing'[c] = 0 /\ wants'[c] <= stored /\ (role'[c] = "fenced" => proof'[c] # "none")
      BY <2>1 DEF CallsStand, ViewsAreCurrent, WantsStand, FencesStand
    <2>4. Settled(c)
      BY <2>2, <2>3 DEF Settled
    <2> QED BY <1>1, <2>4, CallOnly DEF TypeOK, EntryTyped, JoinedTyped
  <1> QED BY <1>2, <1>3

\* What is shown of a live Session is the log, unless it was overtaken.
LEMMA ShowingLive ==
  ASSUME CoordinatorInv, NEW c \in Callers, session = "live", call[c] # "flushing", LiveView(c)
  PROVE  Settled(c)
  <1> TypeOK /\ OwnerStands /\ CallsStand /\ Bound
    BY Bounds DEF CoordinatorInv
  <1>1. CASE state.cursor = stored
    <2>1. wants[c] <= length
      BY <1>1 DEF CallsStand, WantsStand, OwnerStands, Bound
    <2>2. Returns(c, length) /\ length \in Nat
      BY <1>1 DEF LiveView, Bound
    <2> QED BY <2>1, <2>2, Answering
  <1>2. CASE state.cursor # stored
    BY <1>2, Settling DEF LiveView
  <1> QED BY <1>1, <1>2

LEMMA LiveStep ==
  ASSUME CoordinatorInv, NEW c \in Callers, MeetLive(c) \/ LoadLive(c)
  PROVE  CoordinatorInv'
  <1> TypeOK /\ OwnerStands /\ CallsStand /\ Bound
    BY Bounds DEF CoordinatorInv
  <1>1. UNCHANGED <<storeVars, overtaken, entry, liveVars, joined>>
    BY DEF MeetLive, LoadLive
  <1>2. mishaps' \in 0..MaxMishaps
    BY DEF MeetLive, LoadLive, Mishap, Bound
  <1>3. \/ Rejects(c)
        \/ session = "live" /\ call[c] = "admitted" /\ LiveView(c)
        \/ state.cursor >= wants[c] /\ Returns(c, state.cursor)
        \/ /\ call' = [call EXCEPT ![c] = "flushing"] /\ wants' = [wants EXCEPT ![c] = length]
           /\ UNCHANGED <<role, proof, missing>>
    BY DEF MeetLive, LoadLive
  <1>4. Settled(c)
    <2>1. CASE Rejects(c)
      BY <2>1, Settling
    <2>2. CASE session = "live" /\ call[c] = "admitted" /\ LiveView(c)
      BY <2>2, ShowingLive
    <2>3. CASE state.cursor >= wants[c] /\ Returns(c, state.cursor)
      <3>1. wants[c] <= state.cursor /\ state.cursor \in Nat
        BY <2>3 DEF Bound
      <3> QED BY <2>3, <3>1, Answering
    <2>4. CASE /\ call' = [call EXCEPT ![c] = "flushing"] /\ wants' = [wants EXCEPT ![c] = length]
               /\ UNCHANGED <<role, proof, missing>>
      <3>1. Others(c) /\ CallTyped /\ ~Holds(c)' /\ call'[c] = "flushing"
        BY <2>4 DEF TypeOK, Others, CallTyped, Holds, Bound
      <3>2. missing'[c] = 0 /\ (role'[c] = "fenced" => proof'[c] # "none")
        BY <2>4 DEF CallsStand, ViewsAreCurrent, FencesStand
      <3> QED BY <3>1, <3>2 DEF Settled
    <2> QED BY <1>3, <2>1, <2>2, <2>3, <2>4
  <1>5. EntryTyped /\ JoinedTyped
    BY <1>1 DEF TypeOK, EntryTyped, JoinedTyped
  <1> QED BY <1>1, <1>2, <1>4, <1>5, CallOnly

\* Joining a reading, and giving up on one.
LEMMA JoinStep ==
  ASSUME CoordinatorInv, NEW c \in Callers, Join(c) \/ ReadFailed(c) \/ Cancel(c)
  PROVE  CoordinatorInv'
  <1> TypeOK /\ CallsStand /\ HolderStands /\ Bound
    BY Bounds DEF CoordinatorInv, CallsStand
  <1>1. UNCHANGED <<storeVars, overtaken, liveVars>> /\ mishaps' \in 0..MaxMishaps
    BY DEF Join, ReadFailed, Cancel, Mishap, Bound
  <1>2. Settled(c)
    <2>1. CASE Join(c)
      <3>1. call[c] = "admitted" /\ call' = [call EXCEPT ![c] = "reading"] /\ UNCHANGED <<role, wants, proof, missing>>
        BY <2>1 DEF Join
      <3>2. Others(c) /\ CallTyped /\ ~Holds(c)'
        BY <3>1 DEF TypeOK, Others, CallTyped, Holds
      <3>3. missing'[c] = 0 /\ wants'[c] <= stored /\ (role'[c] = "fenced" => proof'[c] # "none")
        BY <3>1 DEF CallsStand, ViewsAreCurrent, WantsStand, FencesStand
      <3> QED BY <3>2, <3>3 DEF Settled
    <2>2. CASE ReadFailed(c) \/ Cancel(c)
      BY <2>2, Settling DEF ReadFailed, Cancel
    <2> QED BY <2>1, <2>2
  <1>3. /\ entry' = entry \/ (entry = NoEntry /\ entry' = [NoEntry EXCEPT !.phase = "loading"])
        /\ \A d \in Callers \ {c} : joined'[d] = joined[d]
        /\ JoinedTyped
    <2>1. CASE Join(c)
      BY <2>1 DEF Join, TypeOK, JoinedTyped
    <2>2. CASE ReadFailed(c) \/ Cancel(c)
      BY <2>2, Detaching DEF ReadFailed, Cancel, JoinedTyped
    <2> QED BY <2>1, <2>2
  <1>4. \A d \in Callers \ {c} : Holds(d) => entry' = entry
    BY <1>3 DEF HolderStands, Holds, NoEntry
  <1>5. EntryTyped
    BY <1>3 DEF TypeOK, NoEntry, EntryTyped
  <1> QED BY <1>1, <1>2, <1>3, <1>4, <1>5, CallOnly

\* reserve() takes a ready entry, which nobody holds.
LEMMA ReserveStep ==
  ASSUME CoordinatorInv, NEW c \in Callers, Reserve(c)
  PROVE  CoordinatorInv'
  <1> TypeOK /\ OwnerStands /\ CallsStand /\ HolderStands /\ Bound
    BY Bounds DEF CoordinatorInv, CallsStand
  <1>1. UNCHANGED <<storeVars, overtaken, liveVars, mishaps>> /\ call[c] = "reading"
    BY DEF Reserve, Delivered
  <1>2. CASE joined[c] # Entry /\ StartsOver(c) /\ Keep(c)
    <2>1. Settled(c)
      BY <1>1, <1>2, StartingOver
    <2>2. /\ entry' = entry /\ \A d \in Callers \ {c} : joined'[d] = joined[d]
          /\ joined' \in [Callers -> Nat \cup {Pending, Failed, Entry, Nowhere}]
      BY <1>2, Detaching
    <2> QED BY <1>1, <2>1, <2>2, CallOnly DEF TypeOK, EntryTyped, JoinedTyped
  <1>3. CASE Ready(c) /\ call' = [call EXCEPT ![c] = "committing"]
    <2>1. /\ joined[c] = Entry /\ entry.phase = "ready" /\ entry' = [entry EXCEPT !.phase = "committing"]
          /\ UNCHANGED <<role, joined, wants, proof, missing>>
      BY <1>1, <1>3 DEF Reserve, Ready
    <2>2. \A d \in Callers : ~Holds(d)
      BY <2>1 DEF HolderStands, Holds
    <2>3. TypeOK'
      BY <1>1, <1>3, <2>1 DEF TypeOK, storeVars, liveVars
    <2>4. \A d \in Callers : d # c => call'[d] = call[d]
      BY <1>3
    <2>5. call'[c] = "committing"
      BY <1>3 DEF TypeOK
    <2>6. HolderStands'
      BY <2>1, <2>2, <2>4, <2>5 DEF HolderStands, Holds, TypeOK
    <2>7. ReservationStands' /\ FencesStand'
      BY <1>1, <2>1, <2>2, <2>4, <2>5 DEF CallsStand, ReservationStands, FencesStand, Holds
    <2>8. WantsStand' /\ ViewsAreCurrent'
      BY <1>1, <2>1, <2>4, <2>5 DEF CallsStand, WantsStand, ViewsAreCurrent, storeVars
    <2>9. OwnerStands'
      BY <1>1 DEF OwnerStands, storeVars, liveVars
    <2> QED BY <2>3, <2>6, <2>7, <2>8, <2>9 DEF CoordinatorInv, CallsStand
  <1> QED BY <1>2, <1>3 DEF Reserve

\* A refused commit gives the entry up, and so does a repair, which is to no one's log.
LEMMA RefusedStep ==
  ASSUME CoordinatorInv, NEW c \in Callers, CommitRefused(c) \/ Repair(c)
  PROVE  CoordinatorInv'
  <1> TypeOK /\ HolderStands /\ ReservationStands /\ OwnerStands /\ CallsStand /\ Bound
    BY Bounds DEF CoordinatorInv, CallsStand
  <1>1. /\ UNCHANGED <<overtaken, liveVars>> /\ call[c] \in {"committing", "repairing"} /\ Remove(c)
        /\ mishaps' \in 0..MaxMishaps
    BY DEF CommitRefused, Repair, Mishap, Bound
  <1>2. stored' \in {stored, stored + 1} /\ (session # "none" => stored' = stored) /\ torn' \in BOOLEAN
    BY DEF CommitRefused, Repair, storeVars, TypeOK, ReservationStands
  <1>3. StartsOver(c) \/ Rejects(c)
    BY DEF CommitRefused, Repair
  <1>4. Settled(c)
    BY <1>1, <1>3, StartingOver, Settling
  <1>5. entry' = NoEntry /\ joined' \in [Callers -> Nat \cup {Pending, Failed, Nowhere}]
    BY <1>1, Detaching
  <1>6. \A d \in Callers \ {c} : ~Holds(d)
    BY <1>1 DEF HolderStands, Holds
  <1>7. stored' \in Nat /\ stored' >= stored
    BY <1>2 DEF Bound
  <1>8. TypeOK'
    BY <1>1, <1>2, <1>4, <1>5, <1>7 DEF TypeOK, NoEntry, liveVars, Settled, CallTyped
  <1>9. CallsStand'
    BY <1>4, <1>6, <1>7, CallMoves
  <1>10. OwnerStands'
    BY <1>1, <1>2 DEF OwnerStands, liveVars
  <1> QED BY <1>8, <1>9, <1>10 DEF CoordinatorInv

\* Under a fence the repair that begins is still to the log that was read.
LEMMA RepairStep ==
  ASSUME CoordinatorInv, NEW c \in Callers, StartRepair(c)
  PROVE  CoordinatorInv'
  <1> TypeOK /\ OwnerStands /\ CallsStand /\ Bound
    BY Bounds DEF CoordinatorInv
  <1>1. /\ call[c] = "committing" /\ call' = [call EXCEPT ![c] = "repairing"] /\ proof[c] # "lost"
        /\ state.owner # "owned" /\ Current(c)
        /\ UNCHANGED <<role, storeVars, overtaken, entry, liveVars, joined, wants, proof, missing, mishaps>>
    BY DEF StartRepair
  <1>2. session = "none"
    BY <1>1 DEF OwnerStands
  <1>3. joined[c] = Entry /\ entry.reading = stored
    BY <1>1 DEF CallsStand, HolderStands, Holds, Current, Reading
  <1>4. role[c] = "fenced" => proof[c] = "held"
    BY <1>1 DEF CallsStand, FencesStand, TypeOK
  <1>5. TypeOK'
    BY <1>1 DEF TypeOK, storeVars, liveVars
  <1>6. call'[c] = "repairing" /\ \A d \in Callers : d # c => call'[d] = call[d]
    BY <1>1 DEF TypeOK
  <1>7. HolderStands'
    BY <1>1, <1>6 DEF CallsStand, HolderStands, Holds
  <1>8. ReservationStands' /\ FencesStand'
    BY <1>1, <1>2, <1>3, <1>4, <1>6 DEF CallsStand, ReservationStands, FencesStand, Sound, storeVars, liveVars
  <1>9. WantsStand' /\ ViewsAreCurrent'
    BY <1>1, <1>6 DEF CallsStand, WantsStand, ViewsAreCurrent, storeVars
  <1>10. OwnerStands'
    BY <1>1 DEF OwnerStands, storeVars, liveVars
  <1> QED BY <1>5, <1>7, <1>8, <1>9, <1>10 DEF CoordinatorInv, CallsStand

\* A commit finds nobody's Session over the log, which is as it was read.
LEMMA CommitStep ==
  ASSUME CoordinatorInv, NEW c \in Callers, Commit(c)
  PROVE  CoordinatorInv'
  <1> TypeOK /\ HolderStands /\ OwnerStands /\ CallsStand /\ Bound
    BY Bounds DEF CoordinatorInv, CallsStand
  <1>1. /\ call[c] = "committing" /\ joined[c] = Entry /\ entry.phase = "committing"
        /\ state.owner # "owned" /\ entry.reading = stored /\ session = "none"
        /\ UNCHANGED <<storeVars, session, length, retirement, fence>> /\ overtaken' = FALSE
        /\ state' = [owner |-> "ownerless", cursor |-> stored]
    BY DEF Commit, HolderStands, Holds, Current, Reading, OwnerStands
  <1>2. \A d \in Callers \ {c} : ~Holds(d)
    BY <1>1 DEF HolderStands, Holds
  <1>3. OwnerStands' /\ state' \in [owner : {"none", "ownerless", "owned"}, cursor : Nat]
    BY <1>1 DEF OwnerStands, Bound
  <1>4. mishaps' \in 0..MaxMishaps
    BY DEF Commit, Mishap, Bound
  <1>5. ASSUME Settled(c), EntryTyped, JoinedTyped
        PROVE  CoordinatorInv'
    <2>1. TypeOK'
      BY <1>1, <1>3, <1>4, <1>5 DEF TypeOK, storeVars, Settled, CallTyped, EntryTyped, JoinedTyped
    <2>2. CallsStand'
      BY <1>1, <1>2, <1>5, CallMoves DEF storeVars, Bound
    <2> QED BY <1>3, <2>1, <2>2 DEF CoordinatorInv
  <1>6. CASE Remove(c) /\ Returns(c, Reading(c))
    <2>1. Reading(c) = stored /\ wants[c] <= stored /\ stored \in Nat
      BY <1>1 DEF Reading, CallsStand, WantsStand, Bound
    <2>2. Settled(c)
      BY <1>6, <2>1, Answering
    <2>3. entry' = NoEntry /\ joined' \in [Callers -> Nat \cup {Pending, Failed, Nowhere}]
      BY <1>6, Detaching
    <2> QED BY <1>5, <2>2, <2>3 DEF NoEntry, EntryTyped, JoinedTyped
  <1>7. CASE /\ entry' = [entry EXCEPT !.phase = "reserved"]
             /\ call' = [call EXCEPT ![c] = "reserved"] /\ UNCHANGED <<role, joined, wants, proof, missing>>
    <2>1. TypeOK'
      BY <1>1, <1>3, <1>4, <1>7 DEF TypeOK, storeVars
    <2>2. call'[c] = "reserved" /\ \A d \in Callers : d # c => call'[d] = call[d]
      BY <1>7 DEF TypeOK
    <2>3. entry'.phase = "reserved" /\ entry'.reading = stored
      BY <1>1, <1>7 DEF TypeOK
    <2>4. HolderStands'
      BY <1>1, <1>2, <1>7, <2>2, <2>3 DEF HolderStands, Holds
    <2>5. FencesStand'
      BY <1>1, <1>7 DEF CallsStand, FencesStand
    <2>9. ReservationStands'
      <3>1. ASSUME NEW d \in Callers, d # c
            PROVE  call'[d] \notin {"repairing", "reserved"}
        BY <3>1, <1>2, <2>2 DEF Holds
      <3>2. session' = "none" /\ wants'[c] <= entry'.reading /\ entry'.reading = stored'
        BY <1>1, <1>7, <2>3 DEF CallsStand, WantsStand, storeVars
      <3> QED BY <2>2, <3>1, <3>2 DEF ReservationStands
    <2>6. WantsStand' /\ ViewsAreCurrent'
      BY <1>1, <1>7, <2>2 DEF CallsStand, WantsStand, ViewsAreCurrent, storeVars
    <2> QED BY <1>3, <2>1, <2>4, <2>5, <2>6, <2>9 DEF CoordinatorInv, CallsStand
  <1>8. CASE Rejects(c) /\ entry' = [entry EXCEPT !.phase = "ready"] /\ joined' = [joined EXCEPT ![c] = Nowhere]
    <2>1. EntryTyped /\ JoinedTyped
      BY <1>8 DEF TypeOK, EntryTyped, JoinedTyped
    <2> QED BY <1>5, <1>8, <2>1, Settling
  <1> QED BY <1>6, <1>7, <1>8 DEF Commit

\* The holder of the reservation publishes the one Session, over the whole log, or
\* gives the reservation up.
LEMMA PublishStep ==
  ASSUME CoordinatorInv, NEW c \in Callers, Publish(c) \/ RollBack(c)
  PROVE  CoordinatorInv'
  <1> TypeOK /\ HolderStands /\ ReservationStands /\ OwnerStands /\ CallsStand /\ Bound
    BY Bounds DEF CoordinatorInv, CallsStand
  <1>1. /\ call[c] = "reserved" /\ joined[c] = Entry /\ session = "none" /\ retirement = "none"
        /\ (Sound(c) => entry.reading = stored)
        /\ UNCHANGED <<storeVars, overtaken, retirement>>
    BY DEF Publish, RollBack, HolderStands, ReservationStands, OwnerStands, Holds, liveVars
  <1>2. \A d \in Callers \ {c} : ~Holds(d)
    BY <1>1 DEF HolderStands, Holds
  <1>3. mishaps' \in 0..MaxMishaps
    BY DEF Publish, RollBack, Mishap, Bound
  <1>4. EntryTyped /\ JoinedTyped
    <2>1. CASE Remove(c)
      <3>1. entry' = NoEntry /\ joined' \in [Callers -> Nat \cup {Pending, Failed, Nowhere}]
        BY <2>1, Detaching
      <3> QED BY <3>1 DEF NoEntry, EntryTyped, JoinedTyped
    <2>2. CASE entry' = [entry EXCEPT !.phase = "ready"] /\ joined' = [joined EXCEPT ![c] = Nowhere]
      BY <2>2 DEF TypeOK, EntryTyped, JoinedTyped
    <2> QED BY <2>1, <2>2 DEF Publish, RollBack
  <1>5. CASE RollBack(c)
    <2>1. Settled(c) /\ UNCHANGED liveVars
      BY <1>5, Settling DEF RollBack
    <2> QED BY <1>1, <1>2, <1>3, <1>4, <2>1, CallOnly
  <1>6. CASE Publish(c)
    <2>1. /\ state = [owner |-> "ownerless", cursor |-> entry.reading]
          /\ state' = [owner |-> "owned", cursor |-> entry.reading] /\ session' = "live"
          /\ fence' = proof[c] /\ Returns(c, entry.reading)
          /\ length' = state.cursor \/ length' = state.cursor + 1
      BY <1>1, <1>6 DEF Publish, Reading
    <2>2. entry.reading \in Nat /\ state.cursor = entry.reading
      BY <2>1 DEF Bound
    <2>3. OwnerStands'
      BY <1>1, <2>1, <2>2 DEF OwnerStands, Sound, storeVars
    <2>4. state' \in [owner : {"none", "ownerless", "owned"}, cursor : Nat] /\ length' \in Nat
          /\ fence' \in {"none", "held", "lost"}
      BY <2>1, <2>2 DEF TypeOK
    <2>5. Settled(c)
      <3>1. wants[c] <= entry.reading
        BY <1>1 DEF ReservationStands
      <3> QED BY <2>1, <2>2, <3>1, Answering
    <2>6. TypeOK'
      BY <1>1, <1>3, <1>4, <2>1, <2>4, <2>5 DEF TypeOK, storeVars, Settled, CallTyped, EntryTyped, JoinedTyped
    <2>7. CallsStand'
      BY <1>1, <1>2, <2>5, CallMoves DEF storeVars, Bound
    <2> QED BY <2>3, <2>6, <2>7 DEF CoordinatorInv
  <1> QED BY <1>5, <1>6

\* What an inspection answers is the live Session's, or a reading that is current.
LEMMA InspectStep ==
  ASSUME CoordinatorInv, NEW c \in Callers, Inspect(c)
  PROVE  CoordinatorInv'
  <1> TypeOK /\ HolderStands /\ CallsStand /\ Bound
    BY Bounds DEF CoordinatorInv, CallsStand
  <1>1. /\ call[c] = "reading" /\ Reading(c) \notin {Pending, Failed}
        /\ UNCHANGED <<storeVars, overtaken, liveVars, mishaps>>
    BY DEF Inspect, Delivered
  <1>2. Settled(c)
    <2>1. CASE StartsOver(c)
      BY <1>1, <2>1, StartingOver
    <2>2. CASE session = "live" /\ LiveView(c)
      BY <1>1, <2>2, ShowingLive
    <2>3. CASE Current(c) /\ Returns(c, Reading(c))
      <3>1. Reading(c) = stored /\ stored \in Nat /\ wants[c] <= stored
        BY <1>1, <2>3 DEF Current, CallsStand, WantsStand, Bound
      <3> QED BY <2>3, <3>1, Answering
    <2>4. CASE Borrows(c)
      BY <2>4, Settling
    <2> QED BY <2>1, <2>2, <2>3, <2>4 DEF Inspect
  <1>3. Keep(c) \/ (Remove(c) /\ ~Exclusive)
    BY DEF Inspect
  <1>4. /\ EntryTyped /\ JoinedTyped
        /\ \A d \in Callers \ {c} : Holds(d) => joined'[d] = joined[d] /\ entry' = entry
    <2>1. CASE Keep(c)
      <3>1. /\ entry' = entry /\ \A d \in Callers \ {c} : joined'[d] = joined[d]
            /\ joined' \in [Callers -> Nat \cup {Pending, Failed, Entry, Nowhere}]
        BY <2>1, Detaching
      <3> QED BY <3>1 DEF TypeOK, EntryTyped, JoinedTyped
    <2>2. CASE Remove(c) /\ ~Exclusive
      <3>1. entry' = NoEntry /\ joined' \in [Callers -> Nat \cup {Pending, Failed, Nowhere}]
        BY <2>2, Detaching
      <3>2. \A d \in Callers : ~Holds(d)
        BY <2>2 DEF HolderStands, Holds, Exclusive
      <3> QED BY <3>1, <3>2 DEF NoEntry, EntryTyped, JoinedTyped
    <2> QED BY <1>3, <2>1, <2>2
  <1> QED BY <1>1, <1>2, <1>4, CallOnly DEF Bound

\* Readings arrive and are evicted; none that is held is touched.
LEMMA ReadingStep ==
  ASSUME CoordinatorInv, Read \/ Evict \/ \E c \in Callers : ReadDetached(c)
  PROVE  CoordinatorInv'
  <1> TypeOK /\ HolderStands /\ OwnerStands /\ Bound
    BY Bounds DEF CoordinatorInv, CallsStand
  <1>1. /\ UNCHANGED <<role, storeVars, overtaken, liveVars, call, wants, proof, missing>>
        /\ mishaps' \in 0..MaxMishaps
    BY DEF Read, Evict, ReadDetached, Mishap, Bound
  <1>2. EntryTyped /\ JoinedTyped
    <2>1. CASE Read
      <3>1. \/ entry' = [phase |-> "ready", reading |-> stored] /\ UNCHANGED joined
            \/ /\ entry' = NoEntry
               /\ joined' = [d \in Callers |-> IF joined[d] = Entry THEN Failed ELSE joined[d]]
        BY <2>1 DEF Read
      <3> QED BY <3>1 DEF TypeOK, NoEntry, Bound, EntryTyped, JoinedTyped
    <2>2. CASE Evict
      BY <2>2, DetachedReadings DEF Evict, NoEntry, EntryTyped, JoinedTyped
    <2>3. ASSUME NEW c \in Callers, ReadDetached(c)  PROVE EntryTyped /\ JoinedTyped
      BY <2>3 DEF ReadDetached, TypeOK, Bound, EntryTyped, JoinedTyped
    <2> QED BY <2>1, <2>2, <2>3
  <1>3. \A d \in Callers : Holds(d) => joined'[d] = joined[d] /\ entry' = entry
    <2>1. CASE Read \/ Evict
      BY <2>1 DEF Read, Evict, HolderStands, Holds
    <2>2. ASSUME NEW c \in Callers, ReadDetached(c), NEW d \in Callers, Holds(d)
          PROVE  joined'[d] = joined[d] /\ entry' = entry
      <3>1. joined[c] # Entry /\ joined[d] = Entry
        BY <2>2 DEF ReadDetached, HolderStands, Pending, Entry
      <3> QED BY <2>2, <3>1 DEF ReadDetached, TypeOK
    <2> QED BY <2>1, <2>2
  <1>4. TypeOK'
    BY <1>1, <1>2 DEF TypeOK, storeVars, liveVars, EntryTyped, JoinedTyped
  <1>5. CallsStand'
    BY <1>1, <1>3, OthersMove DEF storeVars, liveVars, Bound
  <1>6. OwnerStands'
    BY <1>1 DEF OwnerStands, storeVars, liveVars
  <1> QED BY <1>4, <1>5, <1>6 DEF CoordinatorInv

\* A write of the Session finds no reservation, and moves the cursor with the log.
LEMMA WriteKeeps ==
  ASSUME CoordinatorInv, Write
  PROVE  CoordinatorInv'
  <1> TypeOK /\ HolderStands /\ OwnerStands /\ Bound
    BY Bounds DEF CoordinatorInv, CallsStand
  <1>1. PICK n \in state.cursor + 1 .. length : Store(n) /\ state' = [state EXCEPT !.cursor = n]
    BY DEF Write
  <1>2. /\ UNCHANGED <<call, wants, missing, role, proof>>
        /\ UNCHANGED <<torn, overtaken, session, length, retirement, fence, mishaps>>
    BY DEF Write
  <1>3. /\ ~Exclusive /\ n \in Nat /\ n > state.cursor /\ n <= length /\ state.owner = "owned"
        /\ stored' = stored + (n - state.cursor) /\ entry' = NoEntry /\ joined' = Detached
    BY <1>1 DEF Store, Bound
  <1>4. \A d \in Callers : ~Holds(d)
    BY <1>3 DEF HolderStands, Holds, Exclusive
  <1>5. stored' \in Nat /\ stored' >= stored
    BY <1>3 DEF Bound
  <1>6. state' = [owner |-> "owned", cursor |-> n]
    BY <1>1, <1>3 DEF TypeOK
  <1>7. state' \in [owner : {"none", "ownerless", "owned"}, cursor : Nat]
    BY <1>3, <1>6
  <1>8. OwnerStands'
    <2>1. fence = "held" \/ ~overtaken => stored' = n
      BY <1>3 DEF OwnerStands, Bound
    <2> QED BY <1>2, <1>3, <1>6, <2>1 DEF OwnerStands
  <1>9. EntryTyped /\ JoinedTyped
    BY <1>3, DetachedReadings DEF NoEntry, EntryTyped, JoinedTyped
  <1>10. TypeOK'
    BY <1>2, <1>5, <1>7, <1>9 DEF TypeOK, EntryTyped, JoinedTyped
  <1>11. CallsStand'
    BY <1>2, <1>4, <1>5, OthersMove
  <1> QED BY <1>8, <1>10, <1>11 DEF CoordinatorInv

\* The rest of the Session's life leaves the log alone; while one is over it nobody
\* repairs or reserves it.
LEMMA RetirementStep ==
  ASSUME CoordinatorInv, Emit \/ Dispose \/ Retire \/ RetireFails \/ RetryRetire \/ GiveUp
  PROVE  CoordinatorInv'
  <1> TypeOK /\ HolderStands /\ ReservationStands /\ OwnerStands /\ Bound
    BY Bounds DEF CoordinatorInv, CallsStand
  <1>1. /\ UNCHANGED <<call, wants, missing, role, proof>> /\ UNCHANGED <<stored, overtaken, entry, joined>>
        /\ session # "none"
    BY DEF Emit, Dispose, Retire, RetireFails, RetryRetire, GiveUp, callVars, storeVars, OwnerStands
  <1>2. mishaps' \in 0..MaxMishaps
    BY DEF Emit, Dispose, Retire, RetireFails, RetryRetire, GiveUp, DrainFails, Mishap, Bound
  <1>3. /\ OwnerStands' /\ state' \in [owner : {"none", "ownerless", "owned"}, cursor : Nat]
        /\ session' \in {"none", "live", "retired"} /\ length' \in Nat
        /\ retirement' \in {"none", "draining", "backoff", "retrying"} /\ torn' \in BOOLEAN
        /\ fence' \in {"none", "held", "lost"}
    <2>1. CASE Emit \/ Dispose
      BY <2>1 DEF Emit, Dispose, storeVars, OwnerStands, TypeOK
    <2>2. CASE Retire \/ GiveUp
      <3>1. torn' \in BOOLEAN
        BY <2>2 DEF Retire, GiveUp, storeVars, TypeOK, Fenced
      <3>2. state' = NoState /\ session' = "none" /\ length' = 0 /\ retirement' = "none" /\ fence' = "none"
        BY <2>2 DEF Retire, GiveUp, Release
      <3> QED BY <3>1, <3>2 DEF NoState, OwnerStands
    <2>3. CASE RetireFails \/ RetryRetire
      BY <2>3 DEF RetireFails, RetryRetire, storeVars, OwnerStands, TypeOK
    <2> QED BY <2>1, <2>2, <2>3
  <1>4. TypeOK'
    BY <1>1, <1>2, <1>3 DEF TypeOK
  <1>5. \A d \in Callers : call[d] \notin {"repairing", "reserved"}
    BY <1>1 DEF ReservationStands
  <1>6. CallsStand'
    BY <1>1, <1>5 DEF CoordinatorInv, CallsStand, HolderStands, ReservationStands, FencesStand, WantsStand, ViewsAreCurrent, Holds
  <1> QED BY <1>3, <1>4, <1>6 DEF CoordinatorInv

\* Another process writes while this one does not hold the lease.
LEMMA ExternalStep ==
  ASSUME CoordinatorInv, External
  PROVE  CoordinatorInv'
  <1> TypeOK /\ OwnerStands /\ Bound
    BY Bounds DEF CoordinatorInv
  <1>1. /\ stored' = stored + 1 /\ torn' \in BOOLEAN /\ overtaken' = TRUE /\ fence # "held"
        /\ \A d \in Callers : proof[d] # "held"
        /\ UNCHANGED <<entry, liveVars, callVars, mishaps>>
    BY DEF External, LeaseHeld
  <1>2. stored' \in Nat /\ stored' >= stored
    BY <1>1 DEF Bound
  <1>3. TypeOK'
    BY <1>1, <1>2 DEF TypeOK, liveVars, callVars
  <1>4. CallsStand'
    BY <1>1, <1>2, OthersMove DEF liveVars, callVars
  <1>5. OwnerStands'
    BY <1>1 DEF OwnerStands, liveVars
  <1> QED BY <1>3, <1>4, <1>5 DEF CoordinatorInv

\* The lease is taken over from a Session, or from a call outside its mutations.
LEMMA TakeOverStep ==
  ASSUME CoordinatorInv, TakeOver
  PROVE  CoordinatorInv'
  <1> TypeOK /\ OwnerStands /\ CallsStand
    BY DEF CoordinatorInv
  <1>1. UNCHANGED <<role, storeVars, overtaken, entry, state, session, length, retirement,
                    call, joined, wants, missing, mishaps>>
    BY DEF TakeOver
  <1>2. \/ fence = "held" /\ fence' = "lost" /\ UNCHANGED proof
        \/ /\ UNCHANGED fence
           /\ \E c \in Callers : MayTakeOver(c) /\ proof' = [proof EXCEPT ![c] = "lost"]
    BY DEF TakeOver
  <1>3. /\ proof' \in [Callers -> {"none", "held", "lost"}] /\ fence' \in {"none", "held", "lost"}
        /\ fence' = "held" => fence = "held"
        /\ \A d \in Callers : \/ proof'[d] = proof[d]
                              \/ proof[d] = "held" /\ proof'[d] = "lost" /\ call[d] # "repairing"
    BY <1>2 DEF TypeOK, MayTakeOver
  <1>4. TypeOK'
    BY <1>1, <1>3 DEF TypeOK, storeVars
  <1>5. OwnerStands'
    BY <1>1, <1>3 DEF OwnerStands, storeVars
  <1>6. HolderStands' /\ WantsStand' /\ ViewsAreCurrent'
    BY <1>1 DEF CallsStand, HolderStands, WantsStand, ViewsAreCurrent, Holds, storeVars
  <1>7. FencesStand'
    BY <1>1, <1>3 DEF CallsStand, FencesStand
  <1>8. ReservationStands'
    BY <1>1, <1>3 DEF CallsStand, ReservationStands, Sound, storeVars
  <1> QED BY <1>4, <1>5, <1>6, <1>7, <1>8 DEF CoordinatorInv, CallsStand

LEMMA Starts ==
  ASSUME Init  PROVE CoordinatorInv
  <1>1. stored = 1 /\ MaxMishaps \in Nat
    BY CoordinatorAssumption DEF Init
  <1>2. /\ call = [c \in Callers |-> "idle"] /\ role = [c \in Callers |-> "none"]
        /\ joined = [c \in Callers |-> Nowhere] /\ wants = [c \in Callers |-> 0] /\ missing = [c \in Callers |-> 0]
        /\ proof = [c \in Callers |-> "none"]
        /\ session = "none" /\ retirement = "none" /\ state = NoState
    BY DEF Init
  <1>3. TypeOK
    <2>1. /\ entry \in [phase : {"none", "loading", "ready", "committing", "reserved"}, reading : Nat \cup {Pending}]
          /\ state \in [owner : {"none", "ownerless", "owned"}, cursor : Nat]
      BY DEF Init, NoEntry, NoState
    <2>2. /\ session \in {"none", "live", "retired"} /\ length \in Nat
          /\ retirement \in {"none", "draining", "backoff", "retrying"} /\ mishaps \in 0..MaxMishaps
          /\ fence \in {"none", "held", "lost"}
      BY <1>1 DEF Init
    <2>3. torn \in BOOLEAN /\ overtaken \in BOOLEAN
      BY Zenon DEF Init
    <2> QED BY <1>1, <1>2, <2>1, <2>2, <2>3 DEF TypeOK
  <1>4. OwnerStands
    BY <1>2 DEF OwnerStands, NoState
  <1>5. \A c \in Callers : /\ call[c] = "idle" /\ role[c] = "none" /\ wants[c] = 0 /\ missing[c] = 0
                           /\ ~Holds(c)
    BY <1>2 DEF Holds
  <1>6. HolderStands /\ FencesStand
    BY <1>5 DEF HolderStands, FencesStand
  <1>7. ReservationStands
    BY <1>5 DEF ReservationStands
  <1>8. WantsStand /\ ViewsAreCurrent
    BY <1>1, <1>5 DEF WantsStand, ViewsAreCurrent
  <1> QED BY <1>3, <1>4, <1>6, <1>7, <1>8 DEF CoordinatorInv, CallsStand

LEMMA Stutters ==
  ASSUME CoordinatorInv, UNCHANGED vars  PROVE CoordinatorInv'
  BY DEF CoordinatorInv, vars, storeVars, liveVars, callVars, TypeOK, OwnerStands, CallsStand, HolderStands,
         ReservationStands, FencesStand, WantsStand, ViewsAreCurrent, Holds, Sound

-----------------------------------------------------------------------------
(* The theorems. *)

\* Every reachable state keeps the whole invariant.
THEOREM CoordinatorInvariant == Spec => []CoordinatorInv
  <1>1. Init => CoordinatorInv
    BY Starts
  <1>2. CoordinatorInv /\ [Next]_vars => CoordinatorInv'
    <2>1. ASSUME CoordinatorInv, NEW c \in Callers, Begin(c) \/ Cancel(c) \/ CallStep(c)  PROVE CoordinatorInv'
      BY <2>1, BeginStep, LiveStep, JoinStep, ReserveStep, RefusedStep, RepairStep, CommitStep, PublishStep,
         InspectStep DEF CallStep
    <2>2. ASSUME CoordinatorInv, Next  PROVE CoordinatorInv'
      BY <2>1, <2>2, ReadingStep, WriteKeeps, RetirementStep, ExternalStep, TakeOverStep DEF Next, WriteStep
    <2> QED BY <2>2, Stutters
  <1> QED BY <1>1, <1>2, PTL DEF Spec

\* The log a resumed Session appends to ends where its history ends, as long as it has
\* its fence or no other process has written since the commit; and a repair under a
\* fence is to the log that was checked (commitPrepared, attachPrepared, appendCore,
\* runPersistenceMutation).
THEOREM ResumesWholeLog == Spec => []ContinuesItsLog
  <1>1. ASSUME CoordinatorInv  PROVE ContinuesItsLog
    <2>1. state.owner = "owned" /\ (fence = "held" \/ ~overtaken) => state.cursor = stored
      BY <1>1 DEF CoordinatorInv, OwnerStands
    <2>2. ASSUME NEW c \in Callers, call[c] = "repairing", role[c] = "fenced"  PROVE Reading(c) = stored
      BY <1>1, <2>2 DEF CoordinatorInv, CallsStand, HolderStands, ReservationStands, Holds, Reading
    <2> QED BY <2>1, <2>2 DEF ContinuesItsLog
  <1> QED BY <1>1, CoordinatorInvariant, PTL

\* One resumption at a time holds an unpublished Session, and none beside a live or
\* draining one (reserve, waitForRetirement, attachPrepared).
THEOREM OneSessionPerLog == Spec => []OneSession
  <1>1. ASSUME CoordinatorInv  PROVE OneSession
    <2> DEFINE holders == {c \in Callers : call[c] = "reserved"}
    <2>1. HolderStands /\ ReservationStands
      BY <1>1 DEF CoordinatorInv, CallsStand
    <2>2. CASE holders = {}
      BY <2>2, FS_EmptySet DEF OneSession
    <2>3. CASE holders # {}
      <3>1. PICK c \in Callers : call[c] = "reserved"
        BY <2>3
      <3>2. holders = {c}
        BY <2>1, <3>1 DEF HolderStands, Holds
      <3>3. Cardinality(holders) = 1
        BY <3>2, FS_Singleton
      <3>4. session = "none" /\ entry.phase = "reserved"
        BY <2>1, <3>1 DEF HolderStands, ReservationStands, Holds
      <3> QED BY <3>3, <3>4 DEF OneSession
    <2> QED BY <2>2, <2>3
  <1> QED BY <1>1, CoordinatorInvariant, PTL

\* What inspect() and load() return was stored when they were called, if not more.
THEOREM ViewsShowWhatWasStored == Spec => []ViewsAreCurrent
  <1>1. CoordinatorInv => ViewsAreCurrent
    BY DEF CoordinatorInv, CallsStand
  <1> QED BY <1>1, CoordinatorInvariant, PTL

-----------------------------------------------------------------------------
(* The coordinator implements SessionOwner. *)

\* The owner that SessionOwner sees, before and after a step.
LEMMA OwnerSeen ==
  /\ session = "none" => Owner = "none"
  /\ session = "live" => Owner = "live"
  /\ session = "retired" /\ retirement = "draining" => Owner = "closing"
  /\ session = "retired" /\ retirement # "draining" => Owner = "retrying"
  BY DEF Owner

LEMMA OwnerSeenNext ==
  /\ session' = "none" => Owner' = "none"
  /\ session' = "live" => Owner' = "live"
  /\ session' = "retired" /\ retirement' = "draining" => Owner' = "closing"
  /\ session' = "retired" /\ retirement' # "draining" => Owner' = "retrying"
  BY DEF Owner

\* What SessionOwner sees of the Session's cursor and of its tail.
LEMMA TailSeen ==
  /\ session = "none" => Seen = 0 /\ Unstored = 0
  /\ session # "none" => Seen = state.cursor /\ Unstored = length - state.cursor
  BY DEF Seen, Unstored

LEMMA TailSeenNext ==
  /\ session' = "none" => Seen' = 0 /\ Unstored' = 0
  /\ session' # "none" => Seen' = state.cursor' /\ Unstored' = length' - state.cursor'
  BY DEF Seen, Unstored

\* What SessionOwner sees of the Session.
SameSession == UNCHANGED <<Owner, Seen, Unstored, fence>>

\* The bookkeeping of an id without a Session is not seen.
LEMMA SessionKept ==
  ASSUME UNCHANGED <<session, length, retirement, fence>>, session = "none" \/ UNCHANGED state
  PROVE  SameSession
  BY DEF SameSession, Owner, Seen, Unstored

\* A step with the same Session over the same log.
LEMMA OwnerStutters ==
  ASSUME SameSession, UNCHANGED <<stored, overtaken>>
  PROVE  [Abstract!Next]_Abstract!vars
  BY DEF Abstract!vars, SameSession

\* What a call does is seen of its check, of its repair and of its Session only.
LEMMA CallRefines ==
  ASSUME CoordinatorInv, NEW c \in Callers, Begin(c) \/ Cancel(c) \/ CallStep(c) \/ ReadDetached(c)
  PROVE  [Abstract!Next]_Abstract!vars
  <1> TypeOK /\ OwnerStands /\ ReservationStands /\ HolderStands /\ Bound
    BY Bounds DEF CoordinatorInv, CallsStand
  <1>1. CASE Repair(c)
    <2>1. /\ session = "none" /\ UNCHANGED <<overtaken, liveVars>>
          /\ stored' = stored \/ stored' = stored + 1
      BY <1>1 DEF Repair, ReservationStands
    <2>2. SameSession
      BY <2>1, SessionKept DEF liveVars
    <2>3. CASE stored' = stored
      BY <2>1, <2>2, <2>3, OwnerStutters
    <2>4. CASE stored' = stored + 1
      <3>1. stored < stored' /\ stored' \in Nat
        BY <2>4 DEF Bound
      <3>2. Abstract!Repair
        BY <2>1, <2>2, <3>1, OwnerSeen DEF Abstract!Repair, SameSession
      <3> QED BY <3>2 DEF Abstract!Next
    <2> QED BY <2>1, <2>3, <2>4
  <1>2. CASE Commit(c)
    <2>1. /\ session = "none" /\ UNCHANGED <<stored, session, length, retirement, fence>> /\ overtaken' = FALSE
      BY <1>2 DEF Commit, OwnerStands, storeVars
    <2>2. SameSession
      BY <2>1, SessionKept
    <2>3. Abstract!Check
      BY <2>1, <2>2, OwnerSeen DEF Abstract!Check, SameSession
    <2> QED BY <2>3 DEF Abstract!Next
  <1>3. CASE Publish(c)
    <2>1. /\ call[c] = "reserved" /\ joined[c] = Entry /\ session = "none" /\ session' = "live"
          /\ UNCHANGED <<stored, overtaken>> /\ fence' = proof[c]
          /\ (Sound(c) => entry.reading = stored)
      BY <1>3 DEF Publish, ReservationStands, HolderStands, Holds, storeVars
    <2>2. /\ state = [owner |-> "ownerless", cursor |-> entry.reading]
          /\ state' = [owner |-> "owned", cursor |-> entry.reading]
          /\ length' = state.cursor \/ length' = state.cursor + 1
      BY <1>3, <2>1 DEF Publish, Reading
    <2>3. state.cursor = entry.reading /\ state'.cursor = entry.reading /\ entry.reading \in Nat
      BY <2>2 DEF Bound
    <2>4. Seen' = entry.reading /\ Unstored' = length' - entry.reading
      BY <2>1, <2>3, TailSeenNext
    <2>5. Unstored' \in {0, 1}
      BY <2>2, <2>3, <2>4
    <2>6. Owner = "none" /\ Owner' = "live"
      BY <2>1, OwnerSeen, OwnerSeenNext
    <2>7. fence' \in {"none", "held", "lost"} /\ (fence' = "held" \/ ~overtaken => Seen' = stored)
      BY <2>1, <2>4 DEF TypeOK, Sound
    <2>8. Abstract!Open
      BY <2>1, <2>3, <2>4, <2>5, <2>6, <2>7 DEF Abstract!Open
    <2> QED BY <2>8 DEF Abstract!Next
  <1>4. CASE ~Repair(c) /\ ~Commit(c) /\ ~Publish(c)
    <2>1. UNCHANGED <<stored, overtaken, liveVars>>
      BY <1>4 DEF Begin, Cancel, CallStep, ReadDetached, Admit, MeetLive, LoadLive, Join, ReadFailed, Reserve,
                  CommitRefused, StartRepair, RollBack, Inspect, storeVars
    <2>2. SameSession
      BY <2>1, SessionKept DEF liveVars
    <2> QED BY <2>1, <2>2, OwnerStutters
  <1> QED BY <1>1, <1>2, <1>3, <1>4

\* The live Session and its retirement are its owner's.
LEMMA LiveRefines ==
  ASSUME CoordinatorInv, Emit \/ WriteStep \/ Dispose
  PROVE  [Abstract!Next]_Abstract!vars
  <1> TypeOK /\ OwnerStands /\ Bound
    BY Bounds DEF CoordinatorInv
  <1>1. CASE Emit
    <2>1. /\ session = "live" /\ length' = length + 1 /\ fence # "lost"
          /\ UNCHANGED <<stored, overtaken, state, session, retirement, fence>>
      BY <1>1 DEF Emit, Fenced, storeVars
    <2>2. Owner = "live" /\ Owner' = Owner /\ Seen' = Seen /\ Unstored' = Unstored + 1
      BY <2>1, OwnerSeen, OwnerSeenNext, TailSeen, TailSeenNext DEF Bound
    <2>3. Abstract!Grow
      BY <2>1, <2>2 DEF Abstract!Grow
    <2> QED BY <2>3 DEF Abstract!Next
  <1>2. CASE Write
    <2>1. PICK n \in state.cursor + 1 .. length : Store(n) /\ state' = [state EXCEPT !.cursor = n]
      BY <1>2 DEF Write
    <2>2. /\ session # "none" /\ UNCHANGED <<overtaken, session, length, retirement, fence>> /\ fence # "lost"
          /\ n \in Nat /\ n > state.cursor /\ n <= length
          /\ stored' = stored + (n - state.cursor)
      BY <1>2, <2>1 DEF Write, Store, Fenced, Bound
    <2>3. state'.cursor = n
      BY <2>1 DEF TypeOK
    <2>4. Owner # "none" /\ Owner' = Owner
      BY <2>2 DEF Owner, TypeOK
    <2>5. Seen = state.cursor /\ Seen' = n /\ Unstored = length - state.cursor /\ Unstored' = length - n
      BY <2>2, <2>3, TailSeen, TailSeenNext
    <2>6. /\ stored < stored' /\ stored' + Unstored' = stored + Unstored /\ Seen' + Unstored' = Seen + Unstored
          /\ Unstored' \in Nat
      BY <2>2, <2>5 DEF Bound
    <2>7. Abstract!Store
      BY <2>2, <2>4, <2>6 DEF Abstract!Store
    <2> QED BY <2>7 DEF Abstract!Next
  <1>3. CASE Dispose
    <2>1. /\ session = "live" /\ session' = "retired" /\ retirement' = "draining"
          /\ UNCHANGED <<stored, overtaken, state, length, fence>>
      BY <1>3 DEF Dispose, storeVars
    <2>2. Owner = "live" /\ Owner' = "closing" /\ Seen' = Seen /\ Unstored' = Unstored
      BY <2>1, OwnerSeen, OwnerSeenNext, TailSeen, TailSeenNext
    <2>3. Abstract!Close
      BY <2>1, <2>2 DEF Abstract!Close
    <2> QED BY <2>3 DEF Abstract!Next
  <1>4. CASE RetireFails
    <2>1. /\ session = "retired" /\ retirement = "draining" /\ retirement' = "backoff"
          /\ UNCHANGED <<stored, overtaken, state, session, length, fence>>
          /\ fence = "lost" \/ state.cursor # length
      BY <1>4 DEF RetireFails, DrainFails, Drained, Fenced, storeVars, OwnerStands
    <2>2. /\ Owner = "closing" /\ Owner' = "retrying" /\ Seen' = Seen /\ Unstored' = Unstored
          /\ Unstored = length - state.cursor
      BY <2>1, OwnerSeen, OwnerSeenNext, TailSeen, TailSeenNext
    <2>3. Unstored > 0 \/ fence = "lost"
      BY <2>1, <2>2 DEF OwnerStands, Bound
    <2>4. Abstract!CloseFails
      BY <2>1, <2>2, <2>3 DEF Abstract!CloseFails
    <2> QED BY <2>4 DEF Abstract!Next
  <1>5. CASE RetryRetire
    <2>1. /\ session = "retired" /\ retirement = "backoff" /\ retirement' = "retrying"
          /\ UNCHANGED <<stored, overtaken, state, session, length, fence>>
      BY <1>5 DEF RetryRetire, storeVars, OwnerStands
    <2>2. SameSession
      BY <2>1, OwnerSeen, OwnerSeenNext, TailSeen, TailSeenNext DEF SameSession
    <2> QED BY <2>1, <2>2, OwnerStutters
  <1>6. CASE Retire \/ GiveUp
    <2>1. /\ session = "retired" /\ session' = "none" /\ fence' = "none" /\ UNCHANGED <<stored, overtaken>>
          /\ \/ retirement = "draining" /\ length = state.cursor
             \/ retirement = "retrying"
      BY <1>6 DEF Retire, GiveUp, Drained, Release, storeVars, OwnerStands
    <2>2. Owner' = "none" /\ Seen' = 0 /\ Unstored' = 0
      BY <2>1, OwnerSeenNext, TailSeenNext
    <2>3. (Owner = "closing" /\ Unstored = 0) \/ Owner = "retrying"
      BY <2>1, OwnerSeen, TailSeen DEF Bound
    <2>4. Abstract!Release
      BY <2>1, <2>2, <2>3 DEF Abstract!Release
    <2> QED BY <2>4 DEF Abstract!Next
  <1> QED BY <1>1, <1>2, <1>3, <1>4, <1>5, <1>6 DEF WriteStep

\* What other processes do: write the log, and take the lease.
LEMMA OutsideRefines ==
  ASSUME CoordinatorInv, External \/ TakeOver
  PROVE  [Abstract!Next]_Abstract!vars
  <1>1. CASE External
    <2>1. stored' = stored + 1 /\ overtaken' = TRUE /\ fence # "held" /\ UNCHANGED liveVars
      BY <1>1 DEF External, LeaseHeld
    <2>2. SameSession
      BY <2>1, SessionKept DEF liveVars
    <2>3. stored < stored' /\ stored' \in Nat
      BY <2>1, Bounds DEF Bound
    <2>4. Abstract!Overtake
      BY <2>1, <2>2, <2>3 DEF Abstract!Overtake, SameSession
    <2> QED BY <2>4 DEF Abstract!Next
  <1>2. CASE TakeOver
    <2>1. /\ UNCHANGED <<stored, overtaken, state, session, length, retirement>>
          /\ fence' = fence \/ (fence = "held" /\ fence' = "lost")
      BY <1>2 DEF TakeOver, storeVars
    <2>2. UNCHANGED <<Owner, Seen, Unstored>>
      BY <2>1 DEF Owner, Seen, Unstored
    <2>3. CASE fence' = fence
      <3>1. SameSession
        BY <2>2, <2>3 DEF SameSession
      <3> QED BY <2>1, <3>1, OwnerStutters
    <2>4. CASE fence = "held" /\ fence' = "lost"
      <3>1. Abstract!LoseFence
        BY <2>1, <2>2, <2>4 DEF Abstract!LoseFence
      <3> QED BY <3>1 DEF Abstract!Next
    <2> QED BY <2>1, <2>3, <2>4
  <1> QED BY <1>1, <1>2

LEMMA OwnerRefines ==
  ASSUME CoordinatorInv, [Next]_vars
  PROVE  [Abstract!Next]_Abstract!vars
  <1>1. CASE Read \/ Evict \/ UNCHANGED vars
    <2>1. UNCHANGED <<stored, overtaken, liveVars>>
      BY <1>1 DEF Read, Evict, vars, storeVars
    <2>2. SameSession
      BY <2>1, SessionKept DEF liveVars
    <2> QED BY <2>1, <2>2, OwnerStutters
  <1> QED BY <1>1, CallRefines, LiveRefines, OutsideRefines DEF Next

\* Whatever calls, writers and failures do, the log has one owner at a time in this
\* process, who continues it where it ends unless another process overtook it,
\* writes no more once its fence is lost, and gives unstored events up only after a
\* retry (commitPrepared, attachPrepared, appendCore, retireWithRetry).
THEOREM ImplementsTheOwner == Spec => ImplementsSessionOwner
  <1>1. Init => Abstract!Init
    BY OwnerSeen, TailSeen DEF Init, Abstract!Init
  <1>2. CoordinatorInv /\ [Next]_vars => [Abstract!Next]_Abstract!vars
    BY OwnerRefines
  <1> QED BY CoordinatorInvariant, <1>1, <1>2, PTL DEF Spec, ImplementsSessionOwner, Abstract!Spec

=============================================================================
