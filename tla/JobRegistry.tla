----------------------------- MODULE JobRegistry -----------------------------
(***************************************************************************)
(* Background jobs (packages/jobs/jobs-local/src/index.ts): admission under *)
(* a limit, waits with their timeouts and aborts, the first settlement, the *)
(* completion notice of tool-jobs, the sweep of old records, and the two    *)
(* teardowns.  The module holds the registry's operations; TurnServices     *)
(* says who calls them.                                                    *)
(*                                                                         *)
(* What a job's end has come to is the question, so the history variable    *)
(* known says which jobs' ends someone was given: a caller that read, waited *)
(* for or killed the job, or its owner in a notice.                         *)
(***************************************************************************)
EXTENDS Integers, FiniteSets, SequencesExt

CONSTANTS
  Jobs,         \* starts of jobs
  Owner(_),     \* the agent whose job it is, or Unowned
  Calls,        \* tool calls that wait for, read or kill jobs
  MaxActive,    \* maxConcurrentJobsPerOwner
  MaxTerminal   \* maxTerminalRecords

Unowned == "unowned"
Owners == {Owner(j) : j \in Jobs}

ASSUME JobAssumption ==
  /\ IsFiniteSet(Jobs) /\ Jobs # {}
  /\ MaxActive \in Nat \ {0} /\ MaxTerminal \in Nat \ {0}

VARIABLES
  status,     \* of each record: "none", "running", "stopping", "terminal", "removed"
  reported,   \* the record's end needs no notice
  ended,      \* the jobs that ended, in that order
  producer,   \* the work: "none", "working", "released", or "orphaned" by a failed cancel
  wait,       \* of each call: "none", "pending", "expired", "settled", "done"
  target,     \* the job a call waits for
  owner,      \* of each owner: "live", "disposing", "gone"
  registry,   \* "up", "closing", "down"
  known,      \* history: jobs whose end someone was given
  mourned     \* history: jobs whose notice went to an owner being torn down

jobVars == <<status, reported, ended, producer, wait, target, owner, registry, known, mourned>>

Ended(j) == status[j] \in {"terminal", "removed"}
Stored(j) == status[j] \in {"running", "stopping", "terminal"}
ActiveRunning(o) ==  \* mutant: a job that is stopping has left
  {j \in Jobs : Owner(j) = o /\ status[j] = "running"}

Active(o) == {j \in Jobs : Owner(j) = o /\ status[j] \in {"running", "stopping"}}
AbortedToo(j) ==  \* mutant: an aborted wait still counts
  {c \in Calls : target[c] = j /\ wait[c] # "none"}

\* A wait counts until its call goes on, but for one its signal aborted.
Waiters(j) == {c \in Calls : target[c] = j /\ wait[c] \in {"pending", "expired", "settled"}}

AnyJob == CHOOSE j \in Jobs : TRUE

JobsInit ==
  /\ status = [j \in Jobs |-> "none"] /\ reported = [j \in Jobs |-> FALSE] /\ ended = <<>>
  /\ producer = [j \in Jobs |-> "none"]
  /\ wait = [c \in Calls |-> "none"] /\ target = [c \in Calls |-> AnyJob]
  /\ owner = [o \in Owners |-> "live"] /\ registry = "up"
  /\ known = {} /\ mourned = {}

-----------------------------------------------------------------------------
(* pruneTerminal *)

\* What a sweep may drop: of the records that ended, time has passed for the
\* oldest n; and each owner's oldest in excess of the cap.  None that needs a notice.
Terminal(o) == {i \in DOMAIN ended : status[ended[i]] = "terminal" /\ Owner(ended[i]) = o}
Silent == {i \in DOMAIN ended : reported[ended[i]]}

Expired(o, n) == {i \in Terminal(o) \cap Silent : i <= n}

OverCap(o, kept) ==
  {i \in kept \cap Silent :
     Cardinality({k \in kept \cap Silent : k <= i}) <= Cardinality(kept) - MaxTerminal}

Dropped(o, n) == Expired(o, n) \cup OverCap(o, Terminal(o) \ Expired(o, n))

Swept(n) == {ended[i] : i \in UNION {Dropped(o, n) : o \in Owners}}

Removing(js) == [j \in Jobs |-> IF j \in js THEN "removed" ELSE status[j]]

\* list(), and a start() that is refused or whose producer throws.
List ==
  /\ registry = "up"
  /\ \E n \in 0..Len(ended) : Swept(n) # {} /\ status' = Removing(Swept(n))
  /\ UNCHANGED <<reported, ended, producer, wait, target, owner, registry, known, mourned>>

\* start() counts the active records of the exact owner; a scope that is being
\* disposed refuses the cleanup an owned job needs.
Start(j) ==
  /\ registry = "up" /\ status[j] = "none" /\ owner[Owner(j)] = "live"
  /\ Cardinality(Active(Owner(j))) < MaxActive
  /\ \E n \in 0..Len(ended) : status' = [Removing(Swept(n)) EXCEPT ![j] = "running"]
  /\ producer' = [producer EXCEPT ![j] = "working"]
  /\ UNCHANGED <<reported, ended, wait, target, owner, registry, known, mourned>>

-----------------------------------------------------------------------------
(* settle(), for the jobs in js; those in claimed are reported beforehand *)

Settle(js, claimed) ==
  LET silent == {j \in js : j \in claimed \/ reported[j] \/ Waiters(j) # {}}
      noticed == {j \in js \ silent : registry' = "up" /\ Owner(j) # Unowned}
  IN /\ ended' = ended \o SetToSeq(js)
     /\ reported' = [j \in Jobs |-> reported[j] \/ j \in claimed \/ (j \in js /\ Waiters(j) # {})]
     /\ wait' = [c \in Calls |-> IF target[c] \in js /\ wait[c] = "pending" THEN "settled" ELSE wait[c]]
     /\ known' = known \cup noticed
     /\ mourned' = mourned \cup {j \in noticed : owner'[Owner(j)] # "live"}

\* done resolves or rejects; the first settlement wins.
ProducerEnds(j) ==
  /\ producer[j] \in {"working", "orphaned"}
  /\ producer' = [producer EXCEPT ![j] = "released"]
  /\ UNCHANGED <<target, owner, registry>>
  /\ \/ Ended(j) /\ UNCHANGED <<status, reported, ended, wait, known, mourned>>
     \/ ~Ended(j) /\ status' = [status EXCEPT ![j] = "terminal"] /\ Settle({j}, {})

-----------------------------------------------------------------------------
(* wait(), read(), kill() *)

Given(j) == reported' = [reported EXCEPT ![j] = TRUE] /\ known' = known \cup {j}

\* An aborted signal refuses a wait for a live job only.
WaitFor(c, j, signalled) ==
  /\ Stored(j) /\ registry = "up" /\ target' = [target EXCEPT ![c] = j]
  /\ \/ Ended(j) /\ Given(j) /\ wait' = [wait EXCEPT ![c] = "done"]
     \/ /\ ~Ended(j) /\ UNCHANGED <<reported, known>>
        /\ wait' = [wait EXCEPT ![c] = IF signalled THEN "done" ELSE "pending"]
  /\ UNCHANGED <<status, ended, producer, owner, registry, mourned>>

WaitExpires(c) ==
  /\ wait[c] = "pending" /\ wait' = [wait EXCEPT ![c] = "expired"]
  /\ UNCHANGED <<status, reported, ended, producer, target, owner, registry, known, mourned>>

\* The waits of cs reject; an aborted wait is uncounted at once.
AbortWaits(cs) ==
  /\ wait' = [c \in Calls |-> IF c \in cs /\ wait[c] = "pending" THEN "done" ELSE wait[c]]
  /\ UNCHANGED <<status, reported, ended, producer, target, owner, registry, known, mourned>>

\* The wait's continuation reads the record as it is by then.
WaitReturns(c) ==
  /\ wait[c] \in {"expired", "settled"} /\ wait' = [wait EXCEPT ![c] = "done"]
  /\ \/ Ended(target[c]) /\ Given(target[c])
     \/ ~Ended(target[c]) /\ UNCHANGED <<reported, known>>
  /\ UNCHANGED <<status, ended, producer, target, owner, registry, mourned>>

Read(j) ==
  /\ status[j] = "terminal" /\ registry = "up" /\ Given(j)
  /\ UNCHANGED <<status, ended, producer, wait, target, owner, registry, mourned>>

\* A cancel that throws changes nothing.
Kill(j) ==
  /\ Stored(j) /\ registry = "up" /\ Given(j)
  /\ status' = [status EXCEPT ![j] = IF Ended(j) THEN @ ELSE "stopping"]
  /\ UNCHANGED <<ended, producer, wait, target, owner, registry, mourned>>

-----------------------------------------------------------------------------
(* disposeOwned() and disposeAll() *)

CancelOnlyWarns(js) ==  \* mutant: a cancel that throws leaves the record as it is
  LET live == {j \in js : ~Ended(j)}
  IN \E thrown \in SUBSET live :
       /\ status' = [j \in Jobs |-> IF j \in live \ thrown THEN "stopping" ELSE status[j]]
       /\ UNCHANGED producer
       /\ Settle({}, live)

\* cancelForTeardown: every live record is reported and its work cancelled; those
\* whose cancel throws are settled by force.
CancelForTeardown(js) ==
  LET live == {j \in js : ~Ended(j)}
  IN \E thrown \in SUBSET live :
       /\ status' = [j \in Jobs |-> IF j \in thrown THEN "terminal"
                                    ELSE IF j \in live THEN "stopping" ELSE status[j]]
       /\ producer' = [j \in Jobs |-> IF j \in thrown /\ producer[j] = "working" THEN "orphaned" ELSE producer[j]]
       /\ Settle(thrown, live)

DisposeOwner(o) ==
  /\ o # Unowned /\ owner[o] = "live" /\ owner' = [owner EXCEPT ![o] = "disposing"]
  /\ UNCHANGED <<target, registry>>
  /\ CancelForTeardown({j \in Jobs : Owner(j) = o /\ Stored(j)})

Drop(js) ==
  /\ status' = Removing(js)
  /\ UNCHANGED <<reported, ended, producer, wait, target, known, mourned>>

OwnerDisposed(o) ==
  /\ owner[o] = "disposing" /\ Active(o) = {}
  /\ owner' = [owner EXCEPT ![o] = "gone"]
  /\ Drop({j \in Jobs : Owner(j) = o /\ status[j] = "terminal"})
  /\ UNCHANGED registry

DisposeAll ==
  /\ registry = "up" /\ registry' = "closing"
  /\ UNCHANGED <<target, owner>>
  /\ CancelForTeardown({j \in Jobs : Stored(j)})

AllDisposed ==
  /\ registry = "closing" /\ \A o \in Owners : Active(o) = {}
  /\ registry' = "down"
  /\ Drop({j \in Jobs : status[j] = "terminal"})
  /\ UNCHANGED owner

=============================================================================
