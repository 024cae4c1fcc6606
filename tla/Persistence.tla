---------------------------- MODULE Persistence ----------------------------
(***************************************************************************)
(* The writes of a querier: insert, update, upsert, save, delete and       *)
(* restore, each a sequence of statements with hooks around it, in a       *)
(* transaction of its own, in one its caller opened, or in none.  Flows on *)
(* connections of their own race over the rows of a parent entity and of   *)
(* the children it owns.                                                   *)
(*                                                                         *)
(* Every statement the code awaits is an action.  `Program` is the order   *)
(* in which a call sends them; a flow's `todo` is what is left of it.      *)
(*                                                                         *)
(* src/packages/orm/src/querier/abstractQuerier.ts.  The engine underneath *)
(* is external: row locks held to the end of a transaction, foreign keys,  *)
(* unique keys, and one of four ways to isolate.                           *)
(***************************************************************************)
EXTENDS Naturals, Sequences, FiniteSets

CONSTANTS
    Flow,       \* the flows that write, one call each
    Parent,     \* keys of the parent's table, numbers in the order of the key
    Child,      \* keys of the children's table
    None,
    Seed,       \* the writer of the rows there from the start
    Plan,       \* the engine, the entities' options, the rows, each flow's call, and how many statements
                \* and hooks may fail for no reason of the program
    Capacity    \* keys one statement may name (`keyListCapacity`)

Key == Parent \cup Child

\* "committed": row locks, READ COMMITTED (Postgres, CockroachDB);
\* "repeatable": row locks, plain reads from the transaction's snapshot (InnoDB);
\* "upgrade": no row locks, a transaction may not write over a commit it has not read (SQLite);
\* "begin": no row locks, BEGIN takes the write lock (libSQL, Turso).
\* SQL Server is none of them: a row its locking reads hold still takes a child (`UPDLOCK`, `Holds`).
Engine == {"committed", "repeatable", "upgrade", "begin"}
Op == {"update", "upsert", "insert", "delete", "restore", "saveChild", "idle"}
Row == [val : Flow \cup {Seed}, ver : Nat, del : BOOLEAN, par : Parent \cup {None}]


\* A call: its operation, the rows and the condition its filter names, the children it lists or None, whether it
\* writes columns, deletes for good, takes a limit, reports, and runs in a transaction its caller opened.
CallRecord == [op : Op, ids : SUBSET Parent, cond : BOOLEAN, list : {None} \cup SUBSET Child, columns : BOOLEAN,
               hard : BOOLEAN, limit : {None} \cup Nat, returning : BOOLEAN, outer : BOOLEAN]

ASSUME KeyAssumption == Parent \subseteq Nat /\ Child \cap Parent = {} /\ None \notin Key \cup Row
ASSUME SnapshotAssumption == None \notin [Key -> Row \cup {None}]
ASSUME WriterAssumption == Seed \notin Flow /\ None \notin Flow
ASSUME BoundAssumption == Capacity \in Nat \ {0} /\ \A p \in Plan : p.faults \in Nat

\* An upsert that writes relations names one row, as each turn of its loop does; children are saved with the rows
\* that own them.
ASSUME PlanAssumption ==
    \A p \in Plan :
        /\ p.engine \in Engine /\ p.versioned \in BOOLEAN /\ p.childSoft \in BOOLEAN
        /\ p.seed \in [Key -> Row \cup {None}] /\ \A k \in Key : p.seed[k] = None \/ p.seed[k].val = Seed
        /\ p.call \in [Flow -> CallRecord]
        /\ \A f \in Flow : LET c == p.call[f]
                           IN  /\ IsFiniteSet(c.ids)
                               /\ c.op = "upsert" /\ c.list # None => Cardinality(c.ids) = 1
                               /\ c.op = "saveChild" => c.list # None
                               /\ c.op \in {"insert", "saveChild"} /\ c.list # None => c.ids # {}

\* A child there from the start has its parent (`ON DELETE`, or the references of the schema).
ASSUME OwnerAssumption ==
    \A p \in Plan, c \in Child : p.seed[c] # None /\ p.seed[c].par # None => p.seed[p.seed[c].par] # None

VARIABLES
    plan,
    rows,       \* [Key -> Row or None]: as the last statements left them
    base,       \* the same, as committed
    lock,       \* [Key -> Flow or None]: whose open transaction wrote or locked the row
    landed,     \* [Flow -> the rows its call changed for good]: a history, which no action reads
    fl,         \* [Flow -> what the flow's call keeps]
    faults

store == <<rows, base, lock, landed>>
vars == <<plan, rows, base, lock, landed, fl, faults>>

Call(f) == plan.call[f]
RowLocks == plan.engine \in {"committed", "repeatable"}
Live(row) == row # None /\ ~row.del
At(f, step) == fl[f].todo # <<>> /\ Head(fl[f].todo) = step
Ended(f) == fl[f].todo = <<>>
Failure == {"refused", "hook", "late", "deadlock", "duplicate", "foreignKey", "gone", "stale", "excluded", "unversioned"}

ASSUME OutcomeAssumption == None \notin Failure

\* An update of a versioned entity names one row, and neither limits nor relates it (`assertLockableUpdate`).
ASSUME LockableAssumption ==
    \A p \in Plan, f \in Flow :
        LET c == p.call[f]
        IN  p.versioned /\ c.op = "update" => Cardinality(c.ids) = 1 /\ c.list = None /\ c.limit = None

-----------------------------------------------------------------------------
(* What a call sends.                                                      *)

Atomically(c, inside, body) ==
    IF c.outer \/ inside THEN body ELSE <<"begin">> \o body \o <<"commit">>
Hooked(body) == <<"hook">> \o body \o <<"hook">>

WritesRelations(c) == c.list # None
UpsertsByReading(c) == plan.versioned \/ WritesRelations(c)
SettlesWrite(c) == WritesRelations(c) \/ c.limit # None

\* What a write of settled rows goes on with, once it found some.
SettledWrite(c) ==
    (IF c.columns THEN <<"columns">> ELSE <<>>) \o (IF WritesRelations(c) THEN <<"drop", "save">> ELSE <<>>)

UpdateRows(c, inside) ==
    IF plan.versioned THEN <<"match">>
    ELSE IF SettlesWrite(c) THEN Atomically(c, inside, <<"settle">>)
    ELSE <<"where">>

UpdateWhere(c) ==
    IF c.returning
    THEN Atomically(c, FALSE, Hooked(IF plan.versioned THEN <<"settle", "match", "readBack">> ELSE <<"settle", "readBack">>))
    ELSE IF WritesRelations(c) THEN Atomically(c, FALSE, Hooked(UpdateRows(c, TRUE)))
    ELSE Hooked(UpdateRows(c, FALSE))

UpsertMany(c) == Hooked(IF UpsertsByReading(c) THEN Atomically(c, FALSE, <<"find">>) ELSE <<"merge">>)

InsertMany(c) ==
    IF WritesRelations(c) THEN Atomically(c, FALSE, Hooked(<<"insert", "save">>)) ELSE Hooked(<<"insert">>)

\* A variation: the batches of a delete stand alone.
DeleteRowsAlone(c) == <<"doom">>

DeleteRows(c) == Atomically(c, FALSE, <<"doom">>)

CallBody(c) ==
    CASE c.op = "update" -> UpdateWhere(c)
      [] c.op = "upsert" -> UpsertMany(c)
      [] c.op = "insert" -> InsertMany(c)
      [] c.op = "delete" -> DeleteRows(c)
      [] c.op = "restore" -> Hooked(<<"restore">>)
      [] c.op = "saveChild" -> Hooked(<<"save">>)
      [] OTHER -> <<>>

\* A caller reads a versioned row before it writes it; `outer` does so in a transaction it opened.
Program(c) ==
    LET reading == IF plan.versioned /\ c.op \in {"update", "upsert"} THEN <<"load">> ELSE <<>>
    IN  IF c.outer THEN <<"begin">> \o reading \o CallBody(c) \o <<"commit">> ELSE reading \o CallBody(c)

Idle(c) ==
    [todo |-> Program(c), inTx |-> FALSE, snap |-> None, seen |-> [k \in c.ids |-> None], ids |-> {},
     queue |-> <<>>, told |-> {}, miss |-> None, kept |-> {}, out |-> None]

Init ==
    /\ plan \in Plan
    /\ rows = plan.seed /\ base = plan.seed
    /\ lock = [k \in Key |-> None]
    /\ landed = [f \in Flow |-> {}]
    /\ fl = [f \in Flow |-> Idle(Call(f))]
    /\ faults = 0

-----------------------------------------------------------------------------
(* The engine.                                                             *)

\* What a write or a locking read finds, and what a plain read does.
Current(f) == [k \in Key |-> IF lock[k] = f THEN rows[k] ELSE base[k]]
View(f) ==
    IF fl[f].snap = None THEN Current(f)
    ELSE [k \in Key |-> IF lock[k] = f /\ rows[k] # base[k] THEN rows[k] ELSE fl[f].snap[k]]

\* The snapshot a statement leaves its transaction with.
Snapshot(f, plain) ==
    IF /\ fl[f].inTx /\ fl[f].snap = None
       /\ plan.engine = "upgrade" \/ (plan.engine = "repeatable" /\ plain)
    THEN base ELSE fl[f].snap

\* A variation: a read before a write holds nothing.
LockingNever(f) == FALSE

Locking(f) == RowLocks /\ fl[f].inTx
ReadForWrite(f) == IF Locking(f) THEN Current(f) ELSE View(f)

Written(ks) == IF RowLocks THEN ks ELSE Key
\* A variation: the lock is taken on the statement alone.
HeldNothing(f, ks) == {}

Held(f, ks) == IF Locking(f) THEN ks ELSE {}
Put(table, new) == [k \in Key |-> IF k \in DOMAIN new THEN new[k] ELSE table[k]]

\* What a flow changes of what is committed, rows it takes away among it.
Lands(f) == landed' = [landed EXCEPT ![f] = @ \cup {k \in Key : base'[k] # base[k]}]

\* An uncommitted child of `g` holds the parent it points at.
Holds(g, k) ==
    \/ lock[k] = g
    \/ \E c \in Child : lock[c] = g /\ rows[c] # None /\ rows[c].par = k /\ rows[c] # base[c]
Waits(f, g, needs) == g # f /\ \E k \in needs : Holds(g, k)

\* A write over a commit its transaction's snapshot misses.
Overtaken(f) == plan.engine = "upgrade" /\ fl[f].snap # None /\ fl[f].snap # base

-----------------------------------------------------------------------------
(* The rows each statement names.                                          *)

FirstOf(ks, n) == {k \in ks : n = None \/ Cardinality({j \in ks : j < k}) < n}

\* What `$where` asks of a row besides its key: to be as the seed left it, or nothing.
Asked(c, row) == row # None /\ (c.cond => row.val = Seed)
Matches(c, row) == Asked(c, row) /\ ~row.del
Filtered(f, table) ==
    {k \in Call(f).ids : IF Call(f).op = "upsert" THEN Asked(Call(f), table[k]) ELSE Matches(Call(f), table[k])}
SettleIds(f) == FirstOf(Filtered(f, ReadForWrite(f)), Call(f).limit)

Expected(f, k) == fl[f].seen[k].ver

\* The rows at the head of a flow's queue, and the queue behind them.
Batch(f) == IF fl[f].queue = <<>> THEN {} ELSE Head(fl[f].queue)
Behind(f) == IF fl[f].queue = <<>> THEN <<>> ELSE Tail(fl[f].queue)

\* A variation: the row is matched by its key alone.
LockVersionByKey(f, k) == Live(Current(f)[k]) /\ (Call(f).cond => Current(f)[k].val = Seed)

\* The row a versioned update matches: the version its payload carries, and the rest of the filter.
LockVersion(f, k) ==
    LET row == Current(f)[k]
    IN  /\ row # None
        /\ Call(f).op = "upsert" \/ ~row.del
        /\ row.ver = Expected(f, k)
        /\ Call(f).cond => row.val = Seed

\* The row the update of a found row matches: at its version, or whatever version it has.
FoundRows(f) ==
    {k \in Batch(f) : IF plan.versioned THEN fl[f].seen[k] # None /\ LockVersion(f, k)
                      ELSE Asked(Call(f), Current(f)[k])}

\* An upsert reads and updates soft-deleted rows too, since a key holds across both.
Updatable(f, ks) == {k \in ks : Current(f)[k] # None /\ (Call(f).op = "upsert" \/ ~Current(f)[k].del)}

ChildrenOf(table, ks) == {c \in Child : table[c] # None /\ table[c].par \in ks}
Unlisted(f) == {c \in ChildrenOf(Current(f), fl[f].ids) \ Call(f).list : ~Current(f)[c].del}
Owners(f) == IF fl[f].ids = {} THEN Call(f).ids ELSE fl[f].ids
RowsByConflict(f) == {k \in Call(f).ids : ReadForWrite(f)[k] # None}
Missing(f) == IF Call(f).op = "upsert" THEN Call(f).ids \ fl[f].ids ELSE Call(f).ids
Doomed(f) ==
    FirstOf({k \in Call(f).ids : LET row == ReadForWrite(f)[k]
                                 IN  IF Call(f).hard THEN Asked(Call(f), row) ELSE Matches(Call(f), row)}, Call(f).limit)
Restorable(f) == {k \in Call(f).ids : Current(f)[k] # None /\ Current(f)[k].del}

\* The rows the statement a flow is at must have for itself.
Needs(f) ==
    IF Ended(f) THEN {}
    ELSE LET step == Head(fl[f].todo)
         IN  CASE step = "begin" -> IF plan.engine = "begin" THEN Key ELSE {}
               [] step = "settle" -> Held(f, SettleIds(f))
               [] step = "find" -> Held(f, RowsByConflict(f))
               [] step = "doom" -> Held(f, Doomed(f))
               [] step = "match" -> Written({k \in Call(f).ids : LockVersion(f, k)})
               [] step = "found" -> Written(FoundRows(f))
               [] step = "where" -> Written(Filtered(f, Current(f)))
               [] step = "columns" -> Written(Updatable(f, Batch(f)))
               [] step = "drop" -> Written(Unlisted(f))
               [] step = "save" -> Written(Call(f).list \cup Owners(f))
               [] step = "insert" -> Written(Missing(f))
               [] step = "merge" -> Written(Call(f).ids)
               [] step = "children" -> Written(ChildrenOf(Current(f), Batch(f)))
               [] step = "remove" -> Written(Batch(f))
               [] step = "restore" -> Written(Restorable(f))
               [] OTHER -> {}

Free(f) == \A g \in Flow : ~Waits(f, g, Needs(f))
Ready(f, step) == At(f, step) /\ Free(f)

-----------------------------------------------------------------------------
(* What a statement leaves behind.                                         *)

\* `kept` is what the call keeps of it, `new` the rows it wrote, `locked` those it keeps from others.
Sends(f, kept, new, locked) ==
    /\ rows' = Put(rows, new)
    /\ base' = IF fl[f].inTx THEN base ELSE Put(base, new)
    /\ lock' = IF fl[f].inTx THEN [k \in Key |-> IF k \in locked THEN f ELSE lock[k]] ELSE lock
    /\ fl' = [fl EXCEPT ![f] = kept]
    /\ Lands(f)
    /\ UNCHANGED <<plan, faults>>

Reads(f, kept, held) == Sends(f, [kept EXCEPT !.snap = Snapshot(f, ~Locking(f))], <<>>, Held(f, held))
Writes(f, kept, new) ==
    /\ ~Overtaken(f)
    /\ Sends(f, [kept EXCEPT !.snap = Snapshot(f, FALSE)], new, Written(DOMAIN new))

Then(f, next) == [fl[f] EXCEPT !.todo = next \o Tail(@)]
Goes(f) == Then(f, <<>>)

\* A variation: the transaction is left open behind the error.
ThrownOpen(f, why) == [fl[f] EXCEPT !.todo = <<>>, !.queue = <<>>, !.out = why]

\* An error leaves every function up to the one that opened the transaction, which rolls it back.
Thrown(f, why) == [fl[f] EXCEPT !.todo = IF fl[f].inTx THEN <<"rollback">> ELSE <<>>, !.queue = <<>>, !.out = why]
Throw(f, why) == fl' = [fl EXCEPT ![f] = Thrown(f, why)] /\ UNCHANGED <<plan, store, faults>>

\* The keys of a list in turn, in lists of `n`.
InLists(ks, n) ==
    [i \in 1..((Cardinality(ks) + n - 1) \div n) |-> {k \in ks : Cardinality({j \in ks : j < k}) \div n = i - 1}]
Chunks(ks) == InLists(ks, Capacity)

Touched(f, row) == [row EXCEPT !.val = f]
Bumped(f, row) == [Touched(f, row) EXCEPT !.ver = @ + 1]

-----------------------------------------------------------------------------
(* The transaction and the hooks.                                          *)

Begin(f) ==
    /\ Ready(f, "begin")
    /\ fl' = [fl EXCEPT ![f] = [Goes(f) EXCEPT !.inTx = TRUE]]
    /\ lock' = IF plan.engine = "begin" THEN [k \in Key |-> f] ELSE lock
    /\ UNCHANGED <<plan, rows, base, landed, faults>>

\* A variation: the scope outlives its transaction.
ClosedNot(f) == [fl[f] EXCEPT !.todo = Tail(@), !.snap = None]

Closed(f) == [fl[f] EXCEPT !.todo = Tail(@), !.inTx = FALSE, !.snap = None]

Commit(f) ==
    /\ At(f, "commit")
    /\ base' = Current(f)
    /\ lock' = [k \in Key |-> IF lock[k] = f THEN None ELSE lock[k]]
    /\ fl' = [fl EXCEPT ![f] = Closed(f)]
    /\ Lands(f)
    /\ UNCHANGED <<plan, rows, faults>>

Rollback(f) ==
    /\ At(f, "rollback")
    /\ rows' = [k \in Key |-> IF lock[k] = f THEN base[k] ELSE rows[k]]
    /\ lock' = [k \in Key |-> IF lock[k] = f THEN None ELSE lock[k]]
    /\ fl' = [fl EXCEPT ![f] = Closed(f)]
    /\ UNCHANGED <<plan, base, landed, faults>>

Hook(f) ==
    /\ At(f, "hook")
    /\ fl' = [fl EXCEPT ![f] = Goes(f)]
    /\ UNCHANGED <<plan, store, faults>>

\* The after hook of a call whose transaction is over, or that had none, is too late to undo it.
Late(f) == ~fl[f].inTx /\ Len(fl[f].todo) = 1
HookThrows(f) ==
    /\ At(f, "hook") /\ faults < plan.faults
    /\ fl' = [fl EXCEPT ![f] = Thrown(f, IF Late(f) THEN "late" ELSE "hook")]
    /\ faults' = faults + 1
    /\ UNCHANGED <<plan, store>>

-----------------------------------------------------------------------------
(* The application's own read of the rows it is about to write.            *)

Load(f) ==
    /\ At(f, "load")
    /\ LET found == [k \in Call(f).ids |-> IF Live(View(f)[k]) THEN View(f)[k] ELSE None]
           none == Call(f).op = "update" /\ \A k \in Call(f).ids : found[k] = None
           kept == [Goes(f) EXCEPT !.seen = found,
                                   !.todo = IF ~none THEN @ ELSE IF Call(f).outer THEN <<"commit">> ELSE <<>>]
       IN  Sends(f, [kept EXCEPT !.snap = Snapshot(f, TRUE)], <<>>, {})

-----------------------------------------------------------------------------
(* Updates.                                                                *)

\* The UPDATE a version is held by; `throwStaleVersion` asks why it matched nothing.
WriteAtVersion(f, k) ==
    IF LockVersion(f, k)
    THEN Writes(f, [Goes(f) EXCEPT !.queue = Behind(f)], [j \in {k} |-> Bumped(f, Current(f)[j])])
    ELSE LET row == Current(f)[k]
             gone == row = None \/ (row.del /\ Call(f).op = "update")
         IN  Writes(f, [Then(f, <<"reread">>) EXCEPT
                           !.miss = IF gone THEN "gone" ELSE IF row.ver # Expected(f, k) THEN "stale" ELSE "excluded"],
                    <<>>)

Match(f) == Ready(f, "match") /\ \E k \in Call(f).ids : WriteAtVersion(f, k)

\* A variation: any lock error of a conditional upsert is taken for its `$where`.
KeepsFoundStale(f, actual) == Call(f).op = "upsert" /\ Call(f).cond /\ actual # "gone"

\* The one lock error an upsert goes on past: the row it found is still at its version, so its `$where` excluded it.
KeepsFound(f, actual) == Call(f).op = "upsert" /\ Call(f).cond /\ actual = "excluded"

ThrowStaleVersion(f) ==
    /\ At(f, "reread")
    /\ LET k == IF fl[f].queue = <<>> THEN CHOOSE k \in Call(f).ids : TRUE ELSE CHOOSE k \in Batch(f) : TRUE
           row == View(f)[k]
           gone == row = None \/ (row.del /\ Call(f).op = "update")
           actual == IF gone THEN "gone" ELSE IF row.ver # Expected(f, k) THEN "stale" ELSE "excluded"
       IN  IF KeepsFound(f, actual)
           THEN Sends(f, [Goes(f) EXCEPT !.queue = Behind(f), !.kept = @ \cup {fl[f].miss}, !.snap = Snapshot(f, TRUE)],
                      <<>>, {})
           ELSE Throw(f, actual)

Where(f) ==
    /\ Ready(f, "where")
    /\ Writes(f, Goes(f), [k \in Filtered(f, Current(f)) |-> Touched(f, Current(f)[k])])

Settle(f) ==
    /\ Ready(f, "settle")
    /\ LET ids == SettleIds(f)
           writes == IF ids = {} \/ plan.versioned THEN <<>> ELSE SettledWrite(Call(f))
       IN  Reads(f, [Then(f, writes) EXCEPT !.ids = ids, !.queue = Chunks(ids)], ids)

Columns(f) ==
    /\ Ready(f, "columns")
    /\ LET more == Len(fl[f].queue) > 1
           hit == Updatable(f, Batch(f))
       IN  Writes(f, [(IF more THEN fl[f] ELSE Goes(f)) EXCEPT !.queue = Behind(f)],
                  [k \in hit |-> Touched(f, Current(f)[k])])

\* The rows the parents own and the payload does not list go, the listed ones are saved.
DropUnlisted(f) ==
    /\ Ready(f, "drop")
    /\ Writes(f, Goes(f), [c \in Unlisted(f) |->
                              IF plan.childSoft THEN [Current(f)[c] EXCEPT !.del = TRUE] ELSE None])

SaveChildren(f) ==
    /\ Ready(f, "save")
    /\ LET owner == CHOOSE p \in Owners(f) : TRUE
           now == Current(f)
           saved(c) == [val |-> f, ver |-> 1, par |-> owner, del |-> now[c] # None /\ now[c].del]
       IN  IF now[owner] = None
           THEN Throw(f, "foreignKey")
           ELSE Writes(f, Goes(f), [c \in Call(f).list |-> saved(c)])

\* A variation: the filter is read again, not the rows it settled.
WrittenIdsByFilter(f) == Call(f).ids

WrittenIds(f) == fl[f].ids

ReadBack(f) ==
    /\ At(f, "readBack")
    /\ Sends(f, [Goes(f) EXCEPT !.told = {<<k, View(f)[k]>> : k \in WrittenIds(f)}, !.snap = Snapshot(f, TRUE)], <<>>, {})

-----------------------------------------------------------------------------
(* Upserts and inserts.                                                    *)

\* The rows the conflict names are read, those found updated one by one, the rest inserted.
ReadThenUpsert(f) ==
    /\ Ready(f, "find")
    /\ LET found == RowsByConflict(f)
           update == IF WritesRelations(Call(f)) /\ ~plan.versioned THEN "settle" ELSE "found"
           updates == [i \in 1..Cardinality(found) |-> update]
           inserts == IF found = Call(f).ids THEN <<>>
                      ELSE <<"insert">> \o (IF WritesRelations(Call(f)) THEN <<"save">> ELSE <<>>)
       IN  Reads(f, [Then(f, updates \o inserts) EXCEPT !.ids = found, !.queue = InLists(found, 1)], found)

\* The update of a row the upsert found: at the version the payload must carry, which no relation is written at.
Found(f) ==
    /\ Ready(f, "found")
    /\ \E k \in Batch(f) :
           IF plan.versioned
           THEN IF fl[f].seen[k] = None \/ WritesRelations(Call(f)) THEN Throw(f, "unversioned") ELSE WriteAtVersion(f, k)
           ELSE Writes(f, [Goes(f) EXCEPT !.queue = Behind(f)],
                       [j \in FoundRows(f) |-> Touched(f, Current(f)[j])])

\* The version a row is inserted with: the payload's, or the first.
Fresh(f, k) ==
    [val |-> f, del |-> FALSE, par |-> None, ver |-> IF fl[f].seen[k] = None THEN 1 ELSE fl[f].seen[k].ver]

InsertRows(f) ==
    /\ Ready(f, "insert")
    /\ IF \E k \in Missing(f) : Current(f)[k] # None
       THEN Throw(f, "duplicate")
       ELSE Writes(f, Goes(f), [k \in Missing(f) |-> Fresh(f, k)])

\* INSERT ... ON CONFLICT DO UPDATE, one statement.
Merge(f) ==
    /\ Ready(f, "merge")
    /\ LET now == Current(f)
           hit == {k \in Call(f).ids : now[k] = None \/ (Call(f).cond => now[k].val = Seed)}
       IN  Writes(f, Goes(f), [k \in hit |-> IF now[k] = None THEN Fresh(f, k) ELSE Touched(f, now[k])])

-----------------------------------------------------------------------------
(* Deletes and restores.                                                   *)

\* One batch of a delete: the children first, where they go with their parents.
Cascade(c) == IF c.hard \/ plan.childSoft THEN <<"children", "remove">> ELSE <<"remove">>

\* The rows as they are read are what the delete hooks are given, and what `returning` reports.
Doom(f) ==
    /\ Ready(f, "doom")
    /\ LET ids == Doomed(f)
       IN  Reads(f, [Then(f, IF ids = {} THEN <<>> ELSE Hooked(Cascade(Call(f)))) EXCEPT
                         !.ids = ids, !.queue = Chunks(ids), !.told = {<<k, ReadForWrite(f)[k]>> : k \in ids}], ids)

Gone(f, k) == IF Call(f).hard THEN None ELSE [Current(f)[k] EXCEPT !.del = TRUE]

DeleteChildren(f) ==
    /\ Ready(f, "children")
    /\ Writes(f, Goes(f), [c \in ChildrenOf(Current(f), Batch(f)) |-> Gone(f, c)])

\* A key a child still points at is the database's to refuse.
InternalDelete(f) ==
    /\ Ready(f, "remove")
    /\ LET batch == {k \in Batch(f) : Current(f)[k] # None /\ (Call(f).hard \/ ~Current(f)[k].del)}
           more == Len(fl[f].queue) > 1
       IN  IF Call(f).hard /\ ChildrenOf(Current(f), batch) # {}
           THEN Throw(f, "foreignKey")
           ELSE Writes(f, [Then(f, IF more THEN Cascade(Call(f)) ELSE <<>>) EXCEPT !.queue = Behind(f)],
                       [k \in batch |-> Gone(f, k)])

\* A restore takes no version: it undoes the stamp and writes no content.
Restore(f) ==
    /\ Ready(f, "restore")
    /\ Writes(f, Goes(f), [k \in Restorable(f) |-> [Current(f)[k] EXCEPT !.del = FALSE]])

-----------------------------------------------------------------------------
(* What goes wrong below: a statement refused, one of two transactions that *)
(* wait for each other, a write the snapshot of its transaction misses.     *)

Refused(f) ==
    /\ ~Ended(f) /\ Head(fl[f].todo) \notin {"hook", "rollback", "load"}
    /\ faults < plan.faults
    /\ fl' = [fl EXCEPT ![f] = Thrown(f, "refused")]
    /\ faults' = faults + 1
    /\ UNCHANGED <<plan, store>>

Deadlocked(f) ==
    /\ fl[f].inTx
    /\ \E g \in Flow : Waits(f, g, Needs(f)) /\ Waits(g, f, Needs(g))
    /\ Throw(f, "deadlock")

Racer(f) == ~Ended(f) /\ Overtaken(f) /\ Needs(f) # {} /\ Free(f) /\ Throw(f, "refused")

Statement(f) ==
    \/ Load(f) \/ Match(f) \/ ThrowStaleVersion(f) \/ Where(f) \/ Settle(f) \/ Columns(f) \/ DropUnlisted(f)
    \/ SaveChildren(f) \/ ReadBack(f) \/ ReadThenUpsert(f) \/ Found(f) \/ InsertRows(f) \/ Merge(f)
    \/ Doom(f) \/ DeleteChildren(f) \/ InternalDelete(f) \/ Restore(f)

Proceeds(f) == Begin(f) \/ Commit(f) \/ Rollback(f) \/ Hook(f) \/ Statement(f) \/ Deadlocked(f) \/ Racer(f)

Write(f) == Proceeds(f) \/ HookThrows(f) \/ Refused(f)

Next == \E f \in Flow : Write(f)

Spec == Init /\ [][Next]_vars
FairSpec == Spec /\ \A f \in Flow : WF_vars(Proceeds(f))

-----------------------------------------------------------------------------
(* Properties.                                                             *)

\* What a flow keeps is of its own call: its statements name its own rows, and a lock is held in a transaction.
TypeOK ==
    /\ rows \in [Key -> Row \cup {None}] /\ base \in [Key -> Row \cup {None}]
    /\ \A k \in Key : lock[k] # None => lock[k] \in Flow /\ fl[lock[k]].inTx
    /\ \A k \in Key : lock[k] = None => rows[k] = base[k]
    /\ \A f \in Flow : /\ fl[f].ids \subseteq Call(f).ids
                       /\ fl[f].out \in Failure \cup {None}
                       /\ Ended(f) => ~fl[f].inTx
    /\ faults \in 0..plan.faults

\* A versioned write replaces the very content its writer read, and no write that came in between
\* (`lockVersion`: the version is matched and moved on by the statement that writes).
NoLostUpdate ==
    [][\A f \in Flow, k \in Parent :
          /\ plan.versioned
          /\ At(f, "match") \/ At(f, "found")
          /\ fl'[f] # fl[f] /\ rows'[k] # rows[k]
          => rows[k] # None /\ rows[k].val = fl[f].seen[k].val]_vars

\* An upsert that goes on past a row it found has had the row excluded by its own `$where`, at the version it
\* carries: a stale payload is never taken for that.  (On InnoDB the second read of a transaction its caller
\* opened and read in is of that transaction's snapshot, which this leaves out.)
KeptWasExcluded ==
    \A f \in Flow : (plan.engine = "repeatable" /\ Call(f).outer) \/ fl[f].kept \subseteq {"excluded"}

\* An update that settles the rows its filter names writes none that another flow has changed into one the
\* filter does not name: two flows claiming rows never claim the same (`settleIds`, `readForWrite`).
WritesOnlyMatching ==
    [][\A f \in Flow, k \in Parent :
          At(f, "columns") /\ Call(f).op = "update" /\ fl'[f] # fl[f] /\ rows'[k] # rows[k]
          => Matches(Call(f), rows[k])]_vars

Commits(f) == At(f, "commit") /\ fl[f].inTx /\ ~fl'[f].inTx

\* What a call commits: rows it inserts, or those it settled. An upsert whose `$where` excludes its row settles none.
WritesParents(f) ==
    \/ Call(f).op = "insert"
    \/ Call(f).op = "upsert" /\ \E k \in Call(f).ids : base[k] = None /\ base'[k] # None
    \/ Call(f).op \in {"update", "upsert"} /\ fl[f].ids # {}

\* A call that writes a parent's relation leaves the parent with exactly the children it lists, whatever other
\* replacements, deletes and inserts ran meanwhile: never a mix of two lists (`replaceChildren`).  Where the
\* children are soft-deleted a listed one may stay so: a save by its key does not undo the stamp.  It rests on the
\* parent's lock keeping a foreign key's check out, which SQL Server's does not (`Engine`).
ReplaceIsWhole ==
    [][\A f \in Flow :
          Commits(f) /\ WritesRelations(Call(f)) /\ WritesParents(f)
          => LET children == ChildrenOf(base', Owners(f))
             IN  /\ {c \in children : ~base'[c].del} \subseteq Call(f).list
                 /\ Call(f).list \subseteq children
                 /\ \A c \in Call(f).list : base'[c].val = f]_vars

\* A delete that cascades removes what points at its rows first, and nothing new can point at them before
\* they go: the database never refuses it over a child (`deleteRows`, `deleteChildren`).  On SQL Server, which is
\* not among the engines here, a child can come under a row that is held, and the delete is refused.
CascadeReaches == \A f \in Flow : Call(f).op = "delete" => fl[f].out # "foreignKey"

\* The rows a delete gave its hooks are the rows it removed, as they were; the rows an update of columns reports
\* are the rows it wrote, as they are (`deleteRows`, `updateWhere`, `readBack`).
ReportsAreTrue ==
    [][\A f \in Flow : Commits(f) =>
          /\ \A told \in fl[f].told :
                IF Call(f).op = "delete" THEN told[2] = base[told[1]] /\ ~Live(base'[told[1]])
                ELSE Call(f).columns => told[2] = base'[told[1]] /\ told[2].val = f
          /\ Call(f).op = "delete" =>
                \A k \in Parent : base'[k] # base[k] => <<k, base[k]>> \in fl[f].told]_vars

\* A call that fails has changed nothing, however many statements had gone through: no row it wrote, moved,
\* stamped, restored or took away, its children's among them, is other than it was for good.  An after hook with
\* no transaction around it is the one that comes too late (`atomically`, `deleteRows`).
FailedLeftNothing == \A f \in Flow : fl[f].out \notin {None, "late"} => landed[f] = {}

\* Every call ends, whatever waits for whatever.
CallsEnd == \A f \in Flow : <>Ended(f)
=============================================================================
