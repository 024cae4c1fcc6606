# TLA+ for uql

uql is an ORM for TypeScript: entities and queries on one side, on the other a *querier* for one connection
and a *pool* for each driver. Most of its code turns a query into text and is well covered by tests against
real engines. What the tests hardly reach is what these modules are about: flows of one process that share a
querier or a handle, commands the database refuses half way, processes that migrate the same database and
die. `O/` below is `packages/orm/src/`.

## The system

| Part | Source | State | Operations | Hard behaviours | Correct when |
|---|---|---|---|---|---|
| Transactions of a querier | `O/querier/abstractQuerier.ts`, `abstractSqlQuerier.ts`, `transaction.ts` | the slot of a connection, the scope each flow carries, the task queue, the stream, `hasOpenTransaction` | `transaction`, nested, `beginTransaction`, `commitTransaction`, `rollbackTransaction`, `onCommit`, a statement, a stream, `release` | flows interleaved at each await, refused BEGIN, COMMIT, ROLLBACK, a nested queue, a release at any moment | each connection is a serial session; callbacks follow the commit; nobody waits for ever |
| Pooled connections | `O/querier/abstractPoolQuerier.ts` and the driver pools | the connection a querier holds | connect at the first statement, hand back | double hand-back, a connection left in a transaction | a connection kept is clean |
| Pool of one handle | `O/querier/abstractSharedHandleQuerierPool.ts` (SQLite, PGlite, local Turso, libSQL) | `opening` | `getQuerier`, `end` | concurrent first calls, a failed open, `end` during an open | one handle, none unreachable |
| Migrations | `O/migrate/migrator.ts`, `migrationLock.ts`, `migrationTarget.ts`, `storage/` | the lock, the journal, the schema | `up`, `down` | replicas that migrate at once, deaths, timeouts, lost answers | runs do not overlap; the journal tells what the schema holds |
| Persistence and hooks | `O/querier/abstractQuerier.ts` 669-1729 | rows, versions, the children a parent owns | `insert`, `update`, `upsert`, `save`, `delete`, `restore` | two writers of a row on engines that isolate differently, reads a later write relies on, cascades, a hook or a statement that fails in the middle | no update is lost; what fails leaves nothing; what is reported is what happened |
| Pagination | `O/querier/keyset.ts`, `cursor.ts`, `abstractQuerier.ts` 596 | none: a cursor holds the values of a row | `findManyPage`, forward and back | nulls, directions, equal keys, rows that come and go between pages | a page starts right where the last one ended; a walk shows every row that stayed, once |
| Server cursor | `O/querier/cursorStream.ts` | a cursor and a transaction of its own | a stream | a BEGIN the slot does not know of | not modelled yet |
| MongoDB and the drivers | `O/mongodb/`, `O/sqlite/`, `O/turso/`, ... | a session | one driver call for one statement | what a driver reports as refused | the `engine` of `Transactions`, external |
| Schema sync and generated migrations | `O/schema/schemaASTDiffer.ts`, `O/migrate/migrator.ts`, `schemaGenerator.ts`, `schemaChange.ts`, `ddl/tableRebuild.ts`, `migrationTarget.ts` | the schema a database holds, its rows, whether foreign keys are enforced | `sync` (safe, additive, with drops, forced), `generateFromEntities`, `up`, `down` | the order of statements, DDL outside a transaction, rows that arrive meanwhile, a table replaced while others point at it | every statement is one the schema takes; the target is reached; no row or reference is lost |
| Dialects, entities, introspection, CLI | `O/dialect/`, `O/entity/`, `O/migrate/` | none between calls | query or schema to text and back | none of ordering | not modelled: text, no state |
| HTTP, browser client, NestJS, Express, codemod | `O/http/`, `O/browser/`, `packages/codemod/` | none between requests | one querier for a request | none beyond the querier's | not modelled |

How they interact: an application's flows ask a pool for a querier and call it; the queriers of one handle share
its slot; a querier sends commands to the database through its queue; a nested transaction and an `onCommit`
reach their scope through the AsyncLocalStorage of the flow; the migrator takes a querier of a pool, holds a
lock of the database with it, and runs migrations in transactions of that same querier.

## Modules

| Module | What it is |
|---|---|
| `Transactions` | the flows, queriers, slots and the database of one process, one action for the code between two awaits |
| `SerialSession` | what a connection promises: the abstract specification `Transactions` implements |
| `MCTransactions` | the instances: three queriers on two connections, and the plans of calls |
| `TransactionsProofs` | type correctness of `Transactions`; then, for programs that use `transaction` alone, the slot, the database and the answer to a COMMIT, and that statements and streams stay out of other flows' transactions |
| `FateProofs` | how transactions and nested ones end, and what it means for their callbacks and for the slot |
| `SessionProofs` | what a flow that awaits each call may rely on: its callbacks, its savepoints, and that `Transactions` implements `SerialSession` |
| `Migrations`, `MCMigrations` | `up` and `down` of several processes on one database |
| `MigrationsProofs` | the lock, the journal and the order of `Migrations` |
| `SharedHandlePool`, `MCSharedHandlePool` | the pool of one handle |
| `SharedHandlePoolProofs` | its types, and that its queriers share a handle and none is left open |
| `Persistence` | the writes of a querier as the statements they send, in flows that race over the rows of a parent and of its children |
| `PersistenceProofs` | its types, that a call that fails leaves nothing, and that a cascade reaches every child |
| `RaceProofs` | what calls that race over the same rows, and the children under them, keep of one another's |
| `Keyset` | the predicate and the order of a page after a cursor, as operators |
| `Paging`, `MCPersistence` | a reader who walks pages, on `Keyset`, while the flows of `Persistence` write; and the families of calls |
| `PagingProofs` | that the predicate of a cursor is the order of its sort, for a sort of any length; then that a walk skips no row and repeats none, beside writers |
| `SchemaSync`, `MCSchemaSync` | a database brought to what its entities declare, by a sync or by a generated migration and its rollback |

An operator whose comment starts with "A variation" is a plausible slip in the definition that follows it. No
specification uses them: they are there so that every property can be seen to fail when the code goes wrong in
the way it guards against.

### Transactions

State, against the code:

| Variable | Code |
|---|---|
| `held[c]` | `TransactionSlot.held` of the connection `c`: every querier on a shared handle finds the same slot |
| `scope[s]` | a `TransactionScope`: its querier, parent, and whether `beginTransaction` opened it. `root` and `depth` are `rootOf` and `depthOf`, and `lineage` the scopes up to the root, written down as the scope is created, since `parent` is readonly. `outer` is the context `inTransaction` restores, `after` the promise `parent.nested` a nested scope waits for |
| `nested`, `settled` | `parent.nested`, and which of those promises ended |
| `onCommit[s]` | the callbacks a scope gathered, named by the scope they were registered in |
| `queue[q]` | `taskQueue`: the tasks of `serialize`, run one after the other |
| `stream`, `hasOpen`, `unusable`, `released`, `conn` | `#stream`, `hasOpenTransaction`, `#unusable`, `#released`, `conn` |
| `pc`, `job`, `ctx`, `on`, `calls` | a flow: where it awaits, what it asked for, its AsyncLocalStorage, its querier, the calls it has left |
| `engine[c]` | the database: its open transaction, the writes in it and its savepoints |
| `aborted` | the connections whose open transaction takes nothing more, as on Postgres after an error |
| `spoiled`, `dirty` | the transactions the database gave up at a refused command and the nested ones whose ROLLBACK TO failed; the connections on which a ROLLBACK or the close of a stream failed |
| `committed`, `undone`, `ran`, `faults` | what happened, and how many commands were refused |

A flow is a chain of awaits: a request, a branch of a `Promise.all`, a timer. JavaScript runs one flow at a time
and changes only at an await, so an action is the code between two. A call of `serialize` is `Statement`,
`Return`, ... (what the caller does first), then `Serialize` or `Refuse` (the turn in which the slot is free for it and
the stream is looked at), then one of the `Run...` actions (the task, its command and the continuation of its
direct caller, which the microtask queue runs before the next task). `release` awaits one promise more, its
`.catch`, so its continuation `Released` is a step of its own: the task queued next may start before it.

The database answers or refuses any command (`MaxFaults`). A statement, SAVEPOINT, RELEASE or ROLLBACK TO that it refuses
(`CommandFails`) has one of three outcomes for the open transaction: it goes on (MySQL, SQLite); it takes nothing more until a ROLLBACK TO, its
COMMIT answered as a rollback and without an error (Postgres, `aborted`); or it is gone, and its flow is not told (a deadlock victim).
A callback may go on past the error (`Statement` again, or `Return`) or throw it. Where a transaction is gone, what its flow sends next may be
answered, outside any transaction, or refused, which costs no fault. A savepoint outside a transaction is answered and not kept, as on
MySQL. A refused COMMIT may leave its transaction open, as SQLite does, or end it, as a serialization failure does. A refused
ROLLBACK leaves no transaction open, which is what `endTransaction` takes for granted; nobody can know so, so the connection is `dirty`, and
`CleanHandBack` asks that it is discarded. A BEGIN inside a transaction is always refused. Savepoints are named by depth, and a name means the
last one opened with it.

What is left out: the text and values of a statement (a write is the scope it was sent from, and the statements of one task are one), isolation levels,
engines with no savepoints, a SAVEPOINT that opens a transaction where there is none (SQLite), the read of a stream the database refuses
(its loop ends as `StreamEnd`, and the transaction goes on), a connection that drops while in use, and a connect that fails (a refusal of
the first statement, where no transaction is open).

### SerialSession

Four variables: the open root of each connection, which scope made each write in it, the fate of each root, and
the lineage of each scope. A transaction opens where none is open and its scope was never used; a write comes from a
scope inside the open root; a nested transaction undone drops the last writes, all its own; the end of a root is one
step that drops the writes and gives it one fate for good. `Transactions` maps to it by `Promised`, and
`IsSerialSession` is its specification as a property. A write from outside any transaction is not in `writes`: it commits by itself.

### Migrations

`holder` is the lock of the database, of one of three kinds: held by a session (PostgreSQL, MySQL), held by a transaction (SQL
Server), or a record in the journal (SQLite, CockroachDB, MongoDB). `journal` and `schema` are what the database holds; a run's `pc`,
`request`, `todo` and `polls` are the locals of `holdingLock` and `runInOrder`. A migration in a transaction shows in
`schema` only as it commits with its record; one with `transaction: false` (`Bare`) shows at once, and may stay
when it fails. The answer to its record may be lost once the database wrote it, so `LogFails` may leave it in `journal`. `Kill` is the death of the process: the database frees a session's lock and keeps a record. `Unstick` is the
person the error message asks for, who deletes a record only once no run is working, or the pool closing a
connection that still held a lock.

Left out: a connection lost while its process lives, migrations that differ between processes, `to` (a `step` by another
name), and what `status` and `pending` read.

### SharedHandlePool

`opening` is the pool's field; `handle[o]` follows one call of `openDb`. Each continuation of an open (its
`catch`, each caller's await, each `end`'s) is a step. A failed open is `failed` until its `catch` ran, then `settled`.

### Persistence

`Program(c)` is the sequence of statements a call sends, spelled as the code nests them: `Atomically` is `atomically`,
`Hooked` is `hooked`, and `UpdateWhere`, `UpsertMany`, `InsertMany`, `DeleteRows` are the branches of the functions of those names.
Each statement is one action, since each is one await; `fl[f].todo` is what a flow has left to send, and the other fields of `fl[f]`
are the locals it keeps across an await: the rows it settled (`ids`), the version and content it read (`seen`), the keys an upsert has
still to write (`queue`), what it gave hooks or its caller (`told`), and how it ended (`out`).

The database is external and comes in four kinds, by how a transaction is kept apart: row locks and READ COMMITTED, row locks with
plain reads from a snapshot (InnoDB's REPEATABLE READ), a transaction that may not write over a commit it has not seen (SQLite), and
one writer from its BEGIN on (libSQL, Turso). SQL Server is none of them: the hint of its locking reads, `WITH (UPDLOCK, ROWLOCK)`
(`mssqlDialect.ts:345-353`), keeps other writers out and lets the shared lock of a foreign key's check in. `rows` is what the last statements left, `base` what is committed, `lock` whose open transaction wrote or
locked a row. A wait is a disabled action; two that wait for one another are a deadlock, one of which the engine refuses. A reference a
new child holds locks its parent, as on InnoDB, which is coarser than on Postgres. `landed` is a history no action reads: the rows each call changed
for good, whatever the change, a row taken away among them.

A row is its last writer, its version, whether it is soft-deleted, and its parent. Versions start over when a row is deleted and inserted again:
a writer that still holds the first version matches the second row, which `NoLostUpdate` tells by the content.
An upsert of a versioned entity that writes relations is refused where it finds its row (`Found`), as `assertLockableUpdate` refuses it.

### Keyset and Paging

`KeysetClauses` is `keysetClauses`, whose nested chain is unfolded: past the cursor on some key, and within the bound of that key and of each
before it, nulls where the engine puts them. `PageOrder` is the sort resolved to keys, `TotalPrefix` its keys up to the unique one, and `Inverted` the
order of a page back. `KeysetRead` is the read with one row more than the page. The engine's `ORDER BY` is
external (`Sorted`). `Paging` walks forward to the end and back, with `FindManyPage` for each step, beside the writes of `Persistence`.

### SchemaSync

`plan` is an instance: the entities in turn, what they declare (`want`), what the database holds (`have`) and its one row per table, the
engine, the mode. `Diff` is `diffTable` and `diffSchema`; `FilterDiff` what a safe sync, or one without drops, holds back; `GenerateAlterTable`,
`RebuildTable`, `GenerateCreateSchema` and `GenerateDropSchema` the statements; `RollbackDiff` what a migration's `down` runs. `PlanSync` and
`GenerateFromEntities` compute them in one step from what the database holds at the time, and `Run` sends them one by one in the
session (`Session` is `withForeignKeysOff` around a transaction).

What a statement does, and which ones are refused, is external: `SchemaRefuses` for what the schema does not take (a table referenced still, a column
under a key or, on SQLite, an index), `DataRefuses` for what the rows do not. Engines are of three kinds: DDL in a transaction and a cascading
drop (Postgres), no DDL in a transaction (MySQL), and tables changed by being replaced (SQLite). `Insert` is a row from elsewhere while no
session runs, or while one runs that locks no whole database (no rebuild, nothing forced) and has changed no table yet: one that comes later, to a table
the session leaves alone, is as if it had come then. `Fault` is a statement that fails on its own; `Again` is the caller who syncs once more.

An index and a foreign key are of one column; a column is a type, required or not, with a default or not; the key of a table is the same on both sides.

## Runs

Each passing run ends in well under five minutes with two workers.

| Run | Instance | Shows |
|---|---|---|
| `TxSafe` | 5 plans, 2 flows with 3 calls each, 3 scopes, 1 refused command: 293,673 states | `OpenIsHeld`, `OutsidersStayOut`, `ResolvedIsCommitted`, `CallbacksAfterCommit`, `NoCallbackLost`, `HeldWhileRunning`, `CleanHandBack`, and that each connection is a `SerialSession` |
| `TxProgress` | 3 plans, 1 of them with a flow started inside a callback, 1 refused command: 490,643 states | `AwaitsEnd`: every flow that awaits goes on |
| `TxStreams` | a stream beside transactions, and one flow that makes any 6 calls, legal or not: 2.2 million states | `StreamsReadCommitted`, `CleanHandBack`, `SavepointUndoesItsOwn` |
| `Migrations` | 2 processes, 4 runs, 3 migrations of which one outside a transaction, 3 kinds of lock, 2 faults: 327,883 states | `OneRunAtATime`, `JournalIsSchema`, `JournalIsPrefix`, `LockComesBack`, `NeverRunAgain`, `EveryRunEnds` |
| `SharedHandlePool` | 3 callers, one flow that ends the pool, 2 calls each, 4 opens: 17,784 states | `NoHandleLeaks`, `OneDatabase`, `CallsEnd` |
| `Persistence` | two flows with a call each out of four families (versions, claims by a filter, parents with children, rows to insert), a statement or hook that fails; and pages of one or two out of five rows, over every sort, read both ways: 143,000 states | `NoLostUpdate`, `KeptWasExcluded`, `WritesOnlyMatching`, `ReplaceIsWhole`, `CascadeReaches`, `ReportsAreTrue`, `FailedLeftNothing`, `PageIsExact`, `WalkSeesStable`, `CallsEnd` |
| `SchemaSync` | 6,123 plans: one table whose column changes any way, two with a key between them, tables in a cycle, a column spelled anew; every engine and mode, one fault, three runs: 189,802 states | `PlansRun`, `ReachesTarget`, `RowsSurvive`, `ReferencesHold` |
| `BugSharedOutsider`, `BugStreamWaits`, `BugStrayRelease`, `BugLateCallback`, `BugHandleLeaks` | the smallest plan each | a comment of the code that its behaviour contradicts, see below |

A *plan* says which querier each flow was handed and which kinds of call it may make, in any order and as many as
its count. The plans of the passing runs are the uses for which the property is meant: the transactions, nested to the depth
the scopes allow, and statements of two flows on one querier; manual transactions beside statements, as the documentation describes
them; transactions of two queriers on a shared handle; a release by one flow beside the statements of another. The runs named `Bug...`
add exactly the one kind of call that breaks the property. In the plans of `TxSafe` no callback starts a second flow, and none
on a shared handle sends a bare statement; `TxProgress` has the former. So `OutsidersStayOut` holds for flows on one querier and
for transactions on a shared handle, and fails for a bare statement beside a transaction there.

The bounds: three scopes hold a transaction, one nested in it and one nested in that or beside it, or one of another
flow; two flows are enough for a flow to wait for another, and for the wait to be overtaken; one refused command may be any command with any of its
outcomes, and each path that handles a refusal ends in a state the next calls go on from. In `Migrations` two processes with four starts let a run fail, restart and meet another;
`MaxPolls` is the timeout in polls; three migrations let a run stop between two. In `Persistence` two flows are a race and a deadlock, one
fault falls on any statement, two parents and three children let a list keep, add, take over and drop a child, and five rows with two nulls and two equal values give
every order a tie and an end. In `SchemaSync` one row per table tells whether rows are lost, a column is enough to
be refused for any of the reasons a column can be, and two tables for those between tables; a sync that fails twice has been planned from two partial states. Deadlock is not checked: an instance ends
when its calls are spent, and that nobody is left waiting is what the liveness properties say.

### Fairness

`Transactions`: the event loop runs every ready continuation (`FlowStep`) and the database answers every command
(`QuerierStep`). A callback returns or throws, and the loop over a stream ends: the code says that one which does not
holds its connection. The calls of a flow are not fair. `Migrations`: the processes' event loops and timers, and the
database; never a fault, nor the person. `SharedHandlePool`: the driver settles each open, the event loop runs each continuation.
`Persistence`: the event loop goes on with each flow, the database answers, and lets one of two flows that wait for one another go; never a fault. `SchemaSync` states no fairness.

## Where the code and its comments differ

| Run | What happens |
|---|---|
| `BugSharedOutsider` | `serialize` looks at the slot once, when it is called (`abstractQuerier.ts:2025`), then waits in the queue of its own querier. On a shared handle the statement waits behind one of its own querier, the other querier opens its transaction meanwhile, and the statement runs in it. "A statement from outside one never lands in it" (2021) |
| `BugStreamWaits` | a stream sets `#stream` before it waits for the transaction of another flow on its querier (527), which then is refused every statement, its COMMIT and ROLLBACK too. Both wait for ever, and so does everyone after them |
| `BugStrayRelease` | `release` looks for an open transaction in one task and hands back in a later one (2123): a transaction another flow opens between the two goes back to the pool, open |
| `BugLateCallback` | a flow the nested callback started and did not await still finds the nested scope once its savepoint was released, and an `onCommit` there joins a list already copied (1816): it never runs |
| `BugHandleLeaks` | the `catch` of a failed open clears whatever `opening` is by then (`abstractSharedHandleQuerierPool.ts:33`): after an `end` and another `getQuerier` it forgets an open in flight, whose handle nothing closes |

Read while modelling, and left out of the properties by a plan, a mode or a definition that says so:

- `release` closes the stream that is open, then asks for its rollback. A stream another flow starts in between makes `serialize` refuse the rollback, and the
  `catch` (2128) logs "rollback failed; discarding the connection" and discards nothing, since only a failed `ROLLBACK` sets `#unusable`: the connection goes
  back to be used again, in its transaction. `StrayReleasePlans` as `{Own({"transaction", "release"}, {"stream"}, 2)}` makes `BugStrayRelease` show it, in nine states.
- A callback that catches the error of a statement and returns asks for a COMMIT, which may be answered though the database rolled the
  transaction back: on Postgres the COMMIT of a transaction in error is answered by the tag `ROLLBACK` and no error, and the tag is not read
  (`pgExecution.ts:7-9`); the transaction of an InnoDB deadlock victim was gone already. (SQL Server's driver refuses the COMMIT of one that is gone.)
  Then `transaction` resolves and its `onCommit` callbacks run with nothing committed, against "dropped if it rolls back: a mail sent for a row that
  never landed is not sent" (`abstractQuerier.ts:1810-1811`). A COMMIT by hand that failed and ended the transaction, tried again, is answered
  the same way. `ResolvedIsCommitted` and `CallbacksAfterCommit` allow just that (`spoiled`, `AnsweredUndone`).
- On SQL Server a child can come under a parent a cascade or a replacement holds. The delete of that parent may then be refused, and a replaced list
  commit with a child of another flow's beside it. `CascadeReaches` and `ReplaceIsWhole` are about the other engines.
- The `down` of a generated migration that creates tables which reference one another in a cycle drops them plainly, one after the
  other (`migrator.ts:262`); the engines that enforce the keys refuse the first drop.
- `reverseDiff` swaps the two sides of an alteration and not its names: rolling back a column both renamed and altered, on an engine that
  alters in place, alters the new name after it was renamed back.
- On a shared SQLite handle, a statement of another flow between the pragma that turns foreign keys off and the BEGIN, or between the COMMIT
  and the pragma that turns them on, runs without them. `foreign_key_check` sees what the first window let in, and not the second.
- SQLite refuses to drop a column an index that uql did not make stands on: the rebuild puts that index back on a column no longer there.
- "A renamed column is identical but for its name, so the one counted is never renamed too" (`migrator.ts:312`): a column spelled anew may
  also be altered, and then the rows without a value are counted under a name the table does not have yet.
- Under InnoDB's REPEATABLE READ, in a caller's transaction that read before, the plain read that tells a stale version from a missing row
  sees the snapshot and not the row that made the update match none. `KeptWasExcluded` leaves that engine out.
- A child of a replaced list that another flow soft-deletes between the read and the write stays stamped and listed. `ReplaceIsWhole` allows it.

## What is proved

Of `Transactions`, for every set of flows, queriers, connections and scopes, every plan and every number of refused
commands; of `Migrations`, for every set of processes, migrations and locks and every number of runs, polls and faults; of
`SharedHandlePool`, for every set of callers, enders and opens; of `Persistence`, for every set of flows, keys, rows, calls and engines; of `Keyset` and
`Paging`, for every table, every sort that contains its key, every page size and every calls of `Persistence` that write meanwhile. They rest on the assumptions the modules name: `NoFlow`, `NoQuerier`,
`NoScope`, `NoRun`, `NoOpen` and `None` are outside the sets they stand beside, each querier has a connection, a plan is a plan, the migrations
run bare are migrations, a caller is not an ender, a null is not a number, and each bound is a natural number. `PlanAssumption` of `Persistence` says
what a call is: it names finitely many rows, an upsert that writes relations names one (each turn of `upsertMany`'s loop does), and children
are saved with rows that own them; the rows at the start are nobody's. `OwnerAssumption` says that a child there from the start has its parent, as
the foreign key of the schema has it. `LockableAssumption` is `assertLockableUpdate`, which lets
an update of a versioned entity name one row, with no limit and no relation. `SnapshotAssumption` says that no table of rows is `None`,
which stands for a snapshot not taken. `PageAssumption` of `Paging` is `assertPageable` (`keyset.ts:109-126`): a page is of a sort that contains the
key, holds at least one row, and the table has finitely many.

| Theorem | Says | How |
|---|---|---|
| `TypeCorrect` | `Spec => []TypeOK` | by `TypeInv`, which adds that a flow about to run its callbacks names the scope they are of: `RunCallbacks` reads `scope` at it, and `TypeOK` alone does not say it is one. A lemma for each kind of step, and one for each helper that builds a scope, a task or a savepoint |
| `OpenIsHeldAlways` | `Spec => []OpenIsHeld`: the database is in a transaction only while the slot holds that one | by `HeldInv`, under `NothingByHand` |
| `ResolvedCommitted` | `Spec => []ResolvedIsCommitted`: a transaction that resolves did commit, short of one the database gave up at a refused command and rolled back | by `HeldInv`, under `NothingByHand` |
| `CleanHandBackAlways` | `Spec => []CleanHandBack`: a connection given back to be used again is in no transaction, and no ROLLBACK or close of a stream failed on it, whatever its flow called before, by hand too | by `ReleaseInv`, under `ReleasesItsOwn` |
| `OutsidersStayOutAlways` | `Spec => []OutsidersStayOut`: no statement lands in a transaction it was not sent from | by `ApartInv`, under `NothingByHand` and `NothingShared` |
| `StreamsReadCommittedAlways` | `Spec => []StreamsReadCommitted`: no stream reads another flow's open transaction | by `ApartInv`, under `NothingByHand` and `NothingShared` |
| `CallbacksAfterCommitAlways` | `Spec => []CallbacksAfterCommit`: a callback runs for a COMMIT that was answered, and did commit unless the database had given the transaction up; never for a savepoint undone, at any depth | by `FateInv`, under `NothingByHand` |
| `HeldWhileRunningAlways` | `Spec => []HeldWhileRunning`: the slot holds a transaction only while its flow is inside it | by `StillInv`, under `NothingByHand` and `NoStreams` |
| `NoCallbackLostAlways` | `Spec => []NoCallbackLost`: what was registered and committed has run, where no nested transaction around it was undone or refused its ROLLBACK TO | by `LostInv`, under `NothingByHand`, `NoStreams` and `NoBranches` |
| `SavepointUndoesItsOwnAlways` | `Spec => SavepointUndoesItsOwn`: a ROLLBACK TO drops its own writes alone | by `SessionInv`, under `NothingByHand`, `NothingShared` and `NoBranches` |
| `IsSerialSessionAlways` | `Spec => IsSerialSession`: `Transactions` implements `SerialSession` | by `SessionInv`, under the same three |
| `PersistenceProofs!TypesAlways` | `Spec => []TypeOK` | by `WriteInv` |
| `FailedLeftNothingAlways` | `Spec => []FailedLeftNothing`: a call that failed changed nothing for good: no row written, moved, removed or restored, its children's among them | by `LandInv` |
| `CascadeReachesAlways` | `Spec => []CascadeReaches`: no delete is refused over a child, on each engine modelled | by `DeleteInv` |
| `WritesOnlyMatchingAlways` | `Spec => WritesOnlyMatching`: what an update writes matches its filter as it writes it | by `ClaimInv` |
| `KeptWasExcludedAlways` | `Spec => []KeptWasExcluded`: a row an upsert goes on past was excluded by its own `$where` | by `KeepInv` |
| `NoLostUpdateAlways` | `Spec => NoLostUpdate`: a versioned write replaces the very content its writer read | by `VersionInv`, under `NoneReborn` |
| `ReportsAreTrueAlways` | `Spec => ReportsAreTrue`: what a delete told its hooks of it removed as it was, what an update of columns reports it wrote | by `ReportInv` |
| `ReplaceIsWholeAlways` | `Spec => ReplaceIsWhole`: a call that writes a parent's relation commits it with exactly the children it lists, on each engine modelled | by `FamilyInv` |
| `MigrationsProofs!RunsDoNotOverlap`, `LockIsReleased` | `[]OneRunAtATime`, `[]LockComesBack` | by `Locked`: who works holds the lock, and a lock lost is one its run is done with |
| `JournalHasNoHole`, `NoneRunsTwice` | `[]JournalIsPrefix`, `NeverRunAgain` | by `Ordered`, which needs `Locked` |
| `JournalTellsSchema` | `[]JournalIsSchema` | by `Journaled`, which needs `Locked` |
| `MigrationsProofs!TypeCorrect` | `[]TypeOK` | with `Ordered`: that the current migration is one needs that something is left |
| `SharedHandlePoolProofs!TypeCorrect` | `[]TypeOK` | by `Awaited`: a flow awaits an open that was made, an `end` one the pool has forgotten |
| `QueriersShareHandle` | `[]OneDatabase` | by `Kept`: with no `end`, the pool knows of every open that is not over |
| `EveryHandleIsClosed` | `[]NoHandleLeaks`, where opens may fail or the pool may end, not both | by `Kept` and `Closable` |
| `FilterReadsOn`, `FilterReadsBack` | the filter of a cursor keeps exactly the rows the engine sorts after its row, or before it when read back | key by key, then by `ChainIsLexicographic` |
| `OrderIsTotal`, `OrderIsTransitive` | of two rows one comes first, and what follows a row past the cursor is past the cursor | by the first column that differs |
| `BackwardReadIsReversed` | the `$sort` a page back is read with is the page's, reversed | key by key |
| `WalkSeesStableAlways` | `PagingSpec => []WalkSeesStable`: a walk to the end and back reads each row that is there all along once each way, in order | by `WalkInv` |
| `PageIsExactAlways` | `PagingSpec => PageIsExact`: a page is the rows next to its cursor, as many as it holds, and its flag says whether there are more | by `WalkInv` |

`NothingByHand` is the program that uses `transaction`, nested or not, statements, streams and `onCommit`, on any querier
and any shared handle, and never begins, commits, rolls back or releases by hand, which is how the documentation tells it to be used.
It is an assumption on the plans and not on the code: `BugStrayRelease` shows what a release by hand in the wrong turn does.
`ReleasesItsOwn`, the hypothesis of `CleanHandBackAlways` alone, is one too.

Neither of the first two properties is inductive. That a COMMIT is answered in its own transaction depends on what every flow holds, at
every place between its `claim` and its end, and on what waits in every queue. `HeldInv` says it in parts:

- `Scopes`: what was written into a scope as it was created. A root was opened outside any transaction of its flow and
  leaves it there; a nested scope leaves its flow in its parent and shares its root.
- `Sends(f)`: a flow asks to begin, commit or roll back only about the root it is in, and for a savepoint only about
  the nested scope it is in.
- `Holding(f)`: from its claim on, a flow inside its own transaction has the slot, and its querier reports it open once begun.
- `Open(f)`: from its BEGIN on, that is the database's transaction, until its COMMIT was refused or its ROLLBACK is sent, or the
  database ended it at a refused command (`Gone`, what is both `spoiled` and `undone`).
- `GivenUp`: a transaction that takes nothing more is in `spoiled`, so a COMMIT of it is one the properties tell apart.
- `NotYet(f)`: before its BEGIN it is nobody's. Without it, a transaction open under that name could be taken for the one about to begin.
- `Tasks(q)`: each task in a queue is what its flow awaits, and a flow awaits only one.

`OneOwner` is the core of it: two flows past their claims on one connection are one flow, since the slot holds one
root and a root has one flow. So a step of one flow leaves alone the slot, the flags and the transaction of any other
(`OtherFlow`, `OneFlow`), and each action needs only what it does to its own flow. The steps of a querier use that the task they
run is the one its flow awaits. TLC checks `OpenIsHeld` and `ResolvedIsCommitted` on small instances in `TxSafe`, with begins and
releases by hand among the plans.

A release is by hand, so `CleanHandBackAlways` cannot stand on `HeldInv`. It makes no assumption on what the flow that releases calls, in which order and how
often: transactions nested or left open, a begin in a begun one, a COMMIT that failed, a stream, a second release. `ReleasesItsOwn` is about the others on
its querier, which send statements and register callbacks meanwhile and nothing else (`Bystander`), and that flow is not one a callback started. A
transaction beside the release is `BugStrayRelease`, and a stream makes its rollback refused, as above. The plans of `TxSafe` and `TxStreams` are such programs, and TLC checks
`CleanHandBack` on them. Flows on other queriers do as they like, those on a shared handle too, which a release never gives back.

Then such a flow alone moves its connection, and one that stands by sends statements and is in no scope of its own (`Stands`, `Made`). `HandsBack(f)` says what the
slot, `hasOpenTransaction` and the database have to do with one another there: a transaction open in the database is one the slot and the flag tell of, on a
querier not yet released; a BEGIN on its way has claimed the slot and finds nothing open; past the look for a transaction at `release`
nothing is open; and between the two no stream is there to refuse the rollback. It holds of programs that call in any illegal order because a statement of
the flow is the only thing the queue runs for it (`Turns`, `Awaits`), so no two ends race. `GivenBack` says that a connection given back was by a flow that releases,
and `HandsBack` of that flow is then the theorem.

`NothingShared` is a pool each of whose queriers has a connection of its own. `BugSharedOutsider` and `BugStreamWaits` are why the two theorems
about outsiders and streams need it or something like it: a statement is checked against the slot once, in `serialize`, and then waits in the
queue of its own querier. `ApartInv` follows it from there, on top of `HeldInv`:

- `Waiting(q)`: while a transaction holds the connection, each statement queued was sent from inside it, or the flow that holds it
  has its BEGIN still to run, behind that statement in the same queue. Another querier on the handle has a queue of its own, where
  nothing puts the BEGIN behind: that is the step that fails on a shared handle.
- `Inside(session)`: the writes of an open transaction, and those each of its savepoints goes back to, are its own.
- `Reading(q)`: from its turn to its last row a reader's querier has an empty queue, so nothing begins on the connection, and a
  transaction open there is one the reader runs in or opened itself (its commit and rollback are refused while it reads).

`FateInv` follows the scopes. `Lineages` says of each scope which are around it, all of one root and each at a smaller depth; `Lineage` is a set a
scope is created with, so no induction over `parent` is needed. `SettledAreNested`, `UndoneAreSettled` and `CommittedAreRoots` say which ends there are.
`Unsettled` says that where a flow runs, and what it goes back to, has not ended. `Gathered` is the heart: a scope holds the callbacks of those
inside it that released their savepoints, none of them undone. With it a callback that runs (`Ran`) is one of a root that committed.

The other hypotheses are where the code gives no more. `NoStreams`: a stream that waits refuses the ROLLBACK of the flow it waits for, and leaves the
slot to nobody (`BugStreamWaits`). `NoBranches`: no flow started inside a callback makes calls in its scope. Such a one may register a callback
once the list it joins was copied (`BugLateCallback`), and one that writes beside an open nested transaction is undone with it. A flow with no branches is
in its own scopes alone (`ByItself`), and each nested transaction it is in has a savepoint the database still knows, the last of its
name, an inner one after an outer one, unless the transaction is gone (`Marks`). So what a ROLLBACK TO drops was written after its savepoint, from
where the flow still was. One that is refused makes its scope `spoiled`, and with it what was registered in it is dropped (`Dropped`); all
else is carried by a scope its flow is in (`Carried`), until it runs.

`IsSerialSessionAlways` maps `engine` to the open root and its writes, `committed` and `undone` to the fate of each root. A BEGIN that is taken
is `Open`, and needs that a root is begun once (`OpenOnce`); a write needs `Inside` and that its scope is used; a ROLLBACK TO is
the undoing of a nested transaction's last writes; a COMMIT or a ROLLBACK, or a refused command that ends the transaction, gives the root a
fate it did not have. Every other step of the queues, the slot and the flows is a stutter.

In `Persistence` what a call sends is a sequence, and what is left of it decides what may go wrong. `WriteInv` says three things. `Shape`: outside
a transaction a statement that writes stands alone, with at most a hook after it, and inside one there is an end, with at most a hook after it.
Each call starts so (`ShapeOfProgram`), and a statement that goes on puts in its place only what keeps it so (`ShapeGoesOn`). `Tables`: a row
whose lock is free is as committed. `Writers`: a row not committed is locked by who wrote it, and who committed one has at most a hook to run.
`LandInv` adds `Landed`: what a call changes for good it changes at its COMMIT, or by its one statement outside of any, and after either
only a hook is left. So where something throws, nothing has landed, or it is that hook, which is `late`. Seventeen statements
pass in one way (`Passing`): what they write they are free to have, and inside a transaction they keep it; `PassingKeeps` is then one proof for all of them.

`DeleteInv` adds that no flow has a child moved under a row another flow holds (`Apart`), which is the lock a foreign key takes, and of each delete where it
is: the batches it settled are held, and between the statement for a batch's children and the one for the batch itself there is no child and none
can come (`NoneArrives`). Without row locks the first write keeps everyone else out, so it need not have held the rows before.

`ClaimInv` adds where an update stands. Before it settles its rows (`ToSettle`) it has read nothing (`Unread`). From then on until they are written
(`ToWrite`) each row of each batch left is `Claimed`: on an engine with row locks, or one that takes the database as it begins
(`AllHeld`), the call holds the row and the row matches; on one that upgrades, the snapshot the call read matches, and a call whose
snapshot is no longer the committed state is refused its first write (`Overtaken`), after which it holds the database. The batches
share no row, so what one writes leaves the rest as claimed. `OthersLeave` is the step that needs the locks: another call leaves a
held row as it is. Everywhere else (`Aside`) nothing is written by columns, and `ListStays` is one proof that what a call has left
stays within a set of steps its own statements lead to.

`KeepInv` follows an upsert that reads its rows first. Up to the read (`FindTodo`) it has no snapshot but that of an engine that upgrades. Past it
(`Finds`) its queue is one row at a time, and each row is held and unchanged under its snapshot, or in a snapshot nobody may write over
(`KeptRow`). An update that matched none leaves the row locked and as it saw it (`Missed`): by a row lock, or since a statement that
matches nothing still takes the write lock where there are no others. So what `throwStaleVersion` reads is the row that was missed, and "excluded" the
second time was "excluded" the first. InnoDB inside a caller's transaction is the exception (`Exempt`), which the property leaves out too.

`VersionInv` is about a versioned entity. It follows the content a call read from its read on (`Watches`): committed or not, the row is gone, has
a higher version, or has that very content, since every statement that changes a row's content moves its version on (`TableStep` goes
through them). What is not committed came after what is (`OnTop`), so a rollback does not bring back an older row than the one read. An update that is
still to write has read a row that was there, and an upsert writes only keys it found (`Reading`). Then a write that matches at the version matches the
content. `NoneReborn` is the hypothesis: where one call deletes a row for good and another inserts it anew, its version starts over, and a third
that read the first row would match the second. No plan of the run does that: it takes three calls, and a run has two.

`ReportInv` joins `DeleteInv` and `ClaimInv`. A delete told its hooks of the rows as it read them (`Told`): each is held, or in the snapshot of an
engine that upgrades and refuses to write over what it missed (`AsRead`), and is still in a batch to remove (`Pending`) or removed; and no parent
but those told of changes under it (`TellsOn`). No row falls between the batches (`ListsCover`), so by the commit all are removed. An update that
reports writes each row it settled: one not yet in a batch written is `Pending`, and what was written is held and its own (`Ours`), which `ClaimInv`
is needed for, since a claimed row the statement no longer matched would be reported and not written. Its children are other rows, a versioned
one names a single row, and a read inside the transaction sees what it wrote. Any other call tells nothing (`Silent`).

`FamilyInv` is about parents and their children. `Owned` says no child, as committed or as any call sees it, is without its parent, and `Unmoved` that a
child one call wrote under a parent another holds was under it before, and is not brought back to life: whatever puts a child there needs the parent's
row for itself (`ChildLeft`), so it waits. A call that replaces then goes from place to place (`Replacing`). Before it reads it wrote nothing it
could settle wrongly (`Clean`). From the statement that settles the parents it holds them, or takes the database with its first write where there
are no row locks (`ToDrop`); once it deleted what it does not list, none but listed or deleted children are under them (`Only`), which other calls
keep so by `ChildStays`; the last statement makes those it lists its own (`Listed`). An upsert that found nothing inserts its parent, and `Owned` is why
no child can be under a key that was not there. Where `$where` excluded the row of an upsert nothing is settled, no relation is written, and
the property says nothing (`WritesParents`): that the call then wrote no parent is `Spared`.

In `Migrations` the three parts lean on one another. `Locked` says that the run between the taking of the lock and its release is the one
that holds it, for each kind of lock, and that a lock nobody will release is held by a run that is over. So a step of a working run
is a step of the only one, and what it read stays true until it changes it. `Ordered` says what it has left follows the journal: the
journal is `1..n`, and what is left is `n+1..k` to run up or `k+1..n` to revert; `SelectedIsNext` shows the selection by `step` is of that form
and `CurrentIsNext` which one runs. `Journaled` says that, while nothing failed, the schema differs from the journal by the
migration just run outside a transaction alone, and only while its run is about to record it. TLC checks the properties themselves in
`Migrations`.

`EveryHandleIsClosed` has a hypothesis because the property fails without it: `BugHandleLeaks` is an `end` beside an open that fails.

The first theorems of `PagingProofs` are about `Keyset` itself, and quantify over the sort, its directions, the nulls it places or leaves to the
engine, whether the engine sorts nulls lowest, the rows, and which of them the cursor was minted from. A sort contains the key, and the key is unique
and never null, which is what makes a sort pageable. `PastIsAhead` and `BackIsAhead` compare one key of the filter with one column of the sort.
`PrefixIsTotal` says the keys end at the unique one, and `OrderWithinPrefix` that two rows differ by then, so the columns after it decide
nothing. `ChainIsLexicographic` is why a chain of bounds is the lexicographic order: within every bound up to a key past the cursor, the first
key that is not equal is past it. The first such key is a least number, which `LeastNatural` takes from the well-foundedness of `<`.

A page is then sorted rows cut short. `SortedRows` shows that there is one way to sort finitely many rows by a total order, which is what `CHOOSE` picks,
and `PageOfKeys` joins the three: the page is the first rows past the cursor, and one more row was found exactly where more are left. `WalkInv` says
where the walk stands: the cursor it carries is of the last row it read that way, what it read is in order, and every steady row
between where it began and where it stands was read. A writer may remove the very row the cursor is of: the cursor holds its columns and not the row,
and no call writes a column the sort is by, so what is past it stays past it (`WritingKeepsWalk`). A page back must leave out the row it turned at, and
the last page forth may be empty, which is a walk with nowhere to turn.

## What is only model-checked

- Liveness under fairness (`AwaitsEnd`, `EveryRunEnds`, `CallsEnd`): out of the prover's reach.
- The invariants of `Transactions` but `TypeOK` and `CleanHandBack` for programs that begin, commit, roll back or release by hand: `HeldInv` knows whose the slot is by where its
  flow is inside `transaction`, which a begin by hand leaves no trace of.
- `NoLostUpdate` beyond `NoneReborn`: it is false there, as above.
- `SchemaSync`: it orders tables with a recursive operator, which the prover cannot reason about; and its plans are concatenations over sequences of any length, about
  which nothing is known without induction over data.

## What is not modelled

Everything that turns a value into text or back (dialects, schema generation, introspection, code generation,
naming) has no state between two calls, and the tests run it against real engines. Adapters of drivers, the HTTP handler, the
browser client and the framework modules make one call for one call. A connection that drops in use is not in `Transactions`: it ends
the querier with whatever error the driver gives. MongoDB's sessions and the server cursor of the Postgres-wire engines have a state of their own
and are in the plan.

Of `Persistence`: many-to-many links, references to one written along, ids the database infers, a child in the lists of several parents
at once, what a hook itself writes, SQL Server, whose locks are of a kind of their own. Of `Paging`: the text of a cursor, the fingerprint of its query, offset pages. Of `SchemaSync`: primary keys
that change, checks, triggers, the fine print of types, a pragma that fails, one entity synced alone, an index MySQL keeps for a
foreign key, and that MySQL fills a new required column with a zero.

## Plan

1. `Transactions`, its abstract specification, `Migrations`, `SharedHandlePool`, and their theorems: done.
2. `Persistence`, with its hooks, cascades and locks, and `Paging` on `Keyset`: done.
3. `SchemaSync`, the order of what a difference becomes and the session it runs in: done.
4. The server cursor of the Postgres-wire engines beside a transaction on the same handle, and foreign keys turned off around
   a rebuild while another querier shares the handle: further actions of `Transactions` and `SchemaSync`.
5. Many-to-many links in `Persistence`; primary keys, checks and triggers in `SchemaSync`; MongoDB and SQL Server as kinds of engine.
6. Proofs: `HeldInv` for programs that begin and commit by hand.
