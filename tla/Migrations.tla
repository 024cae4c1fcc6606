----------------------------- MODULE Migrations -----------------------------
(***************************************************************************)
(* `Migrator.up` and `Migrator.down`, called by several processes on one   *)
(* database: a deploy that starts many replicas, a retry, a person.  Each  *)
(* run takes the migration lock, reads the journal, runs what it selects   *)
(* in name order and releases the lock; a process may die at any await.    *)
(*                                                                         *)
(* The migrations are 1..Latest, in the order of their names, and their      *)
(* files are the same for every run.  `schema` is what the database holds  *)
(* of them, `journal` the rows that record them.                           *)
(*                                                                         *)
(* src/packages/orm/src/migrate/migrator.ts, migrationLock.ts,             *)
(* migrationTarget.ts, storage/databaseStorage.ts.                         *)
(***************************************************************************)
EXTENDS Naturals, FiniteSets

CONSTANTS
    Run,         \* the processes that migrate
    NoRun,
    Latest,        \* the last migration
    Bare,        \* those run outside a transaction: `transaction: false`, or an engine with none for DDL
    LockKind,    \* the locks of the engines modelled
    MaxStarts,   \* runs the processes start between them
    MaxPolls,    \* times a run asks for a lock another holds before its timeout passes
    MaxFaults    \* statements that fail, answers lost and processes killed, over a behaviour

Migration == 1..Latest
ASSUME RunAssumption == NoRun \notin Run
ASSUME MigrationAssumption == Latest \in Nat /\ Bare \subseteq Migration
\* `features.namedLocks`: held by a session, by a transaction, or none and a record of the journal instead.
ASSUME LockAssumption == LockKind \subseteq {"session", "transaction", "record"}
ASSUME BoundAssumption == MaxStarts \in Nat /\ MaxPolls \in Nat /\ MaxFaults \in Nat

VARIABLES
    kind,      \* the lock of this engine
    holder,    \* the run that took the lock, or NoRun
    journal,   \* the migrations recorded as run
    schema,    \* the migrations the database holds the effect of
    pc,
    request,   \* [Run -> Request]: the direction and how many, as `step` says or up to `to`
    todo,      \* [Run -> SUBSET Migration]: what is left to run, in name order or its reverse
    polls,
    starts,    \* runs started
    lost,      \* the runs whose lock nobody is left to release
    faults

vars == <<kind, holder, journal, schema, pc, request, todo, polls, starts, lost, faults>>

Request == [direction : {"up", "down"}, step : 0..Latest]
NoRequest == [direction |-> "up", step |-> 0]
Working == {"read", "work", "log", "commit", "release"}
Place == {"idle", "take", "ended"} \cup Working

TypeOK ==
    /\ kind \in LockKind
    /\ holder \in Run \cup {NoRun}
    /\ journal \subseteq Migration
    /\ schema \subseteq Migration
    /\ pc \in [Run -> Place]
    /\ request \in [Run -> Request]
    /\ todo \in [Run -> SUBSET Migration]
    /\ polls \in [Run -> 0..MaxPolls]
    /\ starts \in 0..MaxStarts
    /\ lost \subseteq Run
    /\ faults \in 0..MaxFaults

Init ==
    /\ kind \in LockKind
    /\ holder = NoRun
    /\ journal = {}
    /\ schema = {}
    /\ pc = [r \in Run |-> "idle"]
    /\ request = [r \in Run |-> NoRequest]
    /\ todo = [r \in Run |-> {}]
    /\ polls = [r \in Run |-> 0]
    /\ starts = 0
    /\ lost = {}
    /\ faults = 0

Go(r, place) == pc' = [pc EXCEPT ![r] = place]
\* The call of `up` or `down` returns or throws, and its locals are gone.
End(r) ==
    /\ Go(r, "ended")
    /\ request' = [request EXCEPT ![r] = NoRequest]
    /\ todo' = [todo EXCEPT ![r] = {}]
    /\ polls' = [polls EXCEPT ![r] = 0]
Fault == faults < MaxFaults /\ faults' = faults + 1

-----------------------------------------------------------------------------
(***************************************************************************)
(* The lock: `holdingLock`.                                                *)
(***************************************************************************)
Start(r, req) ==
    /\ pc[r] \in {"idle", "ended"}
    /\ starts < MaxStarts
    /\ starts' = starts + 1
    /\ request' = [request EXCEPT ![r] = req]
    /\ Go(r, "take")
    /\ UNCHANGED <<kind, holder, journal, schema, todo, polls, lost, faults>>

\* A variation that asks for the lock and does not look at the answer.
Take_Always(r) ==
    /\ pc[r] = "take"
    /\ holder' = r
    /\ polls' = [polls EXCEPT ![r] = 0]
    /\ Go(r, "read")
    /\ UNCHANGED <<kind, journal, schema, request, todo, starts, lost, faults>>

\* `take`: one statement, which one run alone can win.
Take(r) ==
    /\ pc[r] = "take"
    /\ holder = NoRun
    /\ holder' = r
    /\ polls' = [polls EXCEPT ![r] = 0]
    /\ Go(r, "read")
    /\ UNCHANGED <<kind, journal, schema, request, todo, starts, lost, faults>>

\* The statement reached the database and its answer did not come back: a record stays.
TakeUnanswered(r) ==
    /\ pc[r] = "take"
    /\ holder = NoRun
    /\ Fault
    /\ IF kind = "record"
       THEN holder' = r /\ lost' = lost \cup {r}
       ELSE UNCHANGED <<holder, lost>>
    /\ End(r)
    /\ UNCHANGED <<kind, journal, schema, starts>>

\* A variation that never looks at the deadline.
Wait_NoDeadline(r) ==
    /\ pc[r] = "take"
    /\ holder # NoRun
    /\ UNCHANGED vars

\* A variation that looks at the deadline one poll late.
Wait_Late(r) ==
    /\ pc[r] = "take"
    /\ holder # NoRun
    /\ IF polls[r] > MaxPolls
       THEN End(r)
       ELSE polls' = [polls EXCEPT ![r] = @ + 1] /\ UNCHANGED <<pc, request, todo>>
    /\ UNCHANGED <<kind, holder, journal, schema, starts, lost, faults>>

\* The lock is held: the run asks again in POLL_INTERVAL, or gives up once its timeout passed.
Wait(r) ==
    /\ pc[r] = "take"
    /\ holder # NoRun
    /\ IF polls[r] = MaxPolls
       THEN End(r)
       ELSE polls' = [polls EXCEPT ![r] = @ + 1] /\ UNCHANGED <<pc, request, todo>>
    /\ UNCHANGED <<kind, holder, journal, schema, starts, lost, faults>>

\* However the work ended, the lock is released.  A record is deleted by its name, a named lock by its session.
Release(r) ==
    /\ pc[r] = "release"
    /\ holder' = IF kind = "record" \/ holder = r THEN NoRun ELSE holder
    /\ End(r)
    /\ UNCHANGED <<kind, journal, schema, starts, lost, faults>>

\* The release is refused: the record stays, and so does the lock of a session that goes back to its pool.
\* One a transaction holds ends with it.
ReleaseFails(r) ==
    /\ pc[r] = "release"
    /\ Fault
    /\ IF kind = "transaction"
       THEN holder' = NoRun /\ UNCHANGED lost
       ELSE lost' = lost \cup {r} /\ UNCHANGED holder
    /\ End(r)
    /\ UNCHANGED <<kind, journal, schema, starts>>

-----------------------------------------------------------------------------
(***************************************************************************)
(* The work, holding the lock.                                             *)
(***************************************************************************)
\* Name order for `up`, its reverse for `down`.
Before(req, m, n) == IF req.direction = "up" THEN m < n ELSE n < m
First(names, req) == {m \in names : Cardinality({n \in names : Before(req, n, m)}) < req.step}

\* Variations: the pending without the journal left out; the executed from the first on.
Selected_All(req) == First(IF req.direction = "up" THEN Migration ELSE journal, req)
Selected_Oldest(req) ==
    First(IF req.direction = "up" THEN Migration \ journal ELSE journal, [req EXCEPT !.direction = "up"])

\* The names narrowed by `step`: the first of the pending for `up`, the latest of the executed for `down`.
Selected(req) == First(IF req.direction = "up" THEN Migration \ journal ELSE journal, req)

\* `executed`, then each selected file is loaded; a file that cannot be stops the run before any migration.
Read(r) ==
    /\ pc[r] = "read"
    /\ \/ /\ todo' = [todo EXCEPT ![r] = Selected(request[r])]
          /\ Go(r, "work")
          /\ UNCHANGED faults
       \/ /\ Fault
          /\ todo' = [todo EXCEPT ![r] = {}]
          /\ Go(r, "release")
    /\ UNCHANGED <<kind, holder, journal, schema, request, polls, starts, lost>>

Current(r) == CHOOSE m \in todo[r] : \A n \in todo[r] \ {m} : Before(request[r], m, n)
Up(r) == request[r].direction = "up"
With(r, set) == IF Up(r) THEN set \cup {Current(r)} ELSE set \ {Current(r)}
Advance(r) == todo' = [todo EXCEPT ![r] = @ \ {Current(r)}]

\* `migration.up` or `migration.down`: inside a transaction nothing of it shows yet.
Work(r) ==
    /\ pc[r] = "work"
    /\ todo[r] # {}
    /\ schema' = IF Current(r) \in Bare THEN With(r, schema) ELSE schema
    /\ Go(r, "log")
    /\ UNCHANGED <<kind, holder, journal, request, todo, polls, starts, lost, faults>>

\* A variation where a migration that fails ends the run at once.
WorkFails_NoRelease(r) ==
    /\ pc[r] = "work"
    /\ todo[r] # {}
    /\ Fault
    /\ End(r)
    /\ UNCHANGED <<kind, holder, journal, schema, starts, lost>>

\* It fails: its transaction is rolled back; outside one, what it did before may stay.
WorkFails(r) ==
    /\ pc[r] = "work"
    /\ todo[r] # {}
    /\ Fault
    /\ schema' \in IF Current(r) \in Bare THEN {schema, With(r, schema)} ELSE {schema}
    /\ Go(r, "release")
    /\ UNCHANGED <<kind, holder, journal, request, todo, polls, starts, lost>>

\* A variation that journals outside the transaction of the migration.
Log_Outside(r) ==
    /\ pc[r] = "log"
    /\ journal' = With(r, journal)
    /\ IF Current(r) \in Bare
       THEN Advance(r) /\ Go(r, "work")
       ELSE UNCHANGED todo /\ Go(r, "commit")
    /\ UNCHANGED <<kind, holder, schema, request, polls, starts, lost, faults>>

\* `logWithQuerier` or `unlogWithQuerier`; the journal's key refuses a name recorded already.
Log(r) ==
    /\ pc[r] = "log"
    /\ IF Up(r) /\ Current(r) \in journal
       THEN UNCHANGED <<journal, todo>> /\ Go(r, "release")
       ELSE IF Current(r) \in Bare
       THEN journal' = With(r, journal) /\ Advance(r) /\ Go(r, "work")
       ELSE UNCHANGED <<journal, todo>> /\ Go(r, "commit")
    /\ UNCHANGED <<kind, holder, schema, request, polls, starts, lost, faults>>

\* It fails, or its answer is lost: outside a transaction the record may then be there, or be gone.
LogFails(r) ==
    /\ pc[r] = "log"
    /\ Fault
    /\ journal' \in IF Current(r) \in Bare THEN {journal, With(r, journal)} ELSE {journal}
    /\ Go(r, "release")
    /\ UNCHANGED <<kind, holder, schema, request, todo, polls, starts, lost>>

\* The migration and its record commit together, or its answer is lost, committed or not.
Commit(r) ==
    /\ pc[r] = "commit"
    /\ \/ /\ schema' = With(r, schema)
          /\ journal' = With(r, journal)
          /\ \/ Advance(r) /\ Go(r, "work") /\ UNCHANGED faults
             \/ Fault /\ Go(r, "release") /\ UNCHANGED todo
       \/ Fault /\ Go(r, "release") /\ UNCHANGED <<schema, journal, todo>>
    /\ UNCHANGED <<kind, holder, request, polls, starts, lost>>

Done(r) ==
    /\ pc[r] = "work"
    /\ todo[r] = {}
    /\ Go(r, "release")
    /\ UNCHANGED <<kind, holder, journal, schema, request, todo, polls, starts, lost, faults>>

\* The process dies: its sessions close, which frees a named lock and rolls a transaction back.
Kill(r) ==
    /\ pc[r] \in Working \cup {"take"}
    /\ Fault
    /\ IF holder # r
       THEN UNCHANGED <<holder, lost>>
       ELSE IF kind = "record"
       THEN lost' = lost \cup {r} /\ UNCHANGED holder
       ELSE holder' = NoRun /\ lost' = lost \ {r}
    /\ End(r)
    /\ UNCHANGED <<kind, journal, schema, starts>>

\* A person deletes a record no run released, once none is running (`staleRecord`); or the pool closes the
\* connection that still held a named lock.
Unstick ==
    /\ holder \in lost
    /\ kind = "record" => \A r \in Run : pc[r] \notin Working
    /\ holder' = NoRun
    /\ lost' = lost \ {holder}
    /\ UNCHANGED <<kind, journal, schema, pc, request, todo, polls, starts, faults>>

RunStep(r) ==
    \/ Take(r) \/ Wait(r) \/ Read(r) \/ Work(r) \/ Log(r) \/ Commit(r) \/ Done(r) \/ Release(r)

Next ==
    \/ \E r \in Run, req \in Request : Start(r, req)
    \/ \E r \in Run : RunStep(r) \/ TakeUnanswered(r) \/ ReleaseFails(r) \/ WorkFails(r) \/ LogFails(r) \/ Kill(r)
    \/ Unstick

Spec == Init /\ [][Next]_vars

\* The event loop of each process goes on, its timer fires, and the database answers.
FairSpec == Spec /\ \A r \in Run : WF_vars(RunStep(r))

-----------------------------------------------------------------------------
\* A run holds the migration lock throughout: no two read the journal or migrate at once, whatever was
\* killed, refused or restarted.
OneRunAtATime == Cardinality({r \in Run : pc[r] \in Working}) <= 1

\* A migration in a transaction is recorded exactly where the database holds it; one outside of any, once the
\* runs are over and nothing failed.
JournalIsSchema ==
    /\ \A m \in Migration \ Bare : m \in journal <=> m \in schema
    /\ (faults = 0 /\ \A r \in Run : pc[r] \notin Working) => journal = schema

\* Those run are always the first ones: a run stops at its first failure, and `down` reverts the latest first.
JournalIsPrefix == journal = 1..Cardinality(journal)

\* However its work ended, a run that is over left the lock free, unless its process or an answer was lost.
LockComesBack == holder # NoRun => pc[holder] \in Working \/ holder \in lost

\* A second run waits, then finds the migrations run: none runs up when it is recorded, nor down when not.
NeverRunAgain ==
    [][\A r \in Run : Work(r) => (Up(r) <=> Current(r) \notin journal)]_vars

\* Each run migrates or gives up: a lock nobody releases is waited for until the timeout.
EveryRunEnds == \A r \in Run : pc[r] = "take" ~> pc[r] = "ended"
=============================================================================
