----------------------------- MODULE SchemaSync -----------------------------
(***************************************************************************)
(* The schema the entities declare against the one a database holds: the   *)
(* difference, the statements that close it in an order the engine takes,  *)
(* what a safe sync leaves out, a generated migration and its rollback, and *)
(* the session that runs them one by one, with rows arriving meanwhile and  *)
(* statements that fail.                                                   *)
(*                                                                         *)
(* src/packages/orm/src/schema/schemaASTDiffer.ts and dependencyGraph.ts,  *)
(* src/packages/orm/src/migrate/migrator.ts, schemaGenerator.ts,           *)
(* schemaChange.ts, migrationTarget.ts and ddl/tableRebuild.ts.            *)
(***************************************************************************)
EXTENDS Naturals, Sequences, FiniteSets, SequencesExt

CONSTANTS
    None,
    Plan,       \* the engine, the entities in turn, what they want, what the database has, its rows, the mode
    MaxRuns     \* how often a sync is run until it goes through

\* "atomic": DDL in a transaction, DROP ... CASCADE (Postgres); "autocommit": no DDL in a transaction (MySQL);
\* "rebuild": DDL in a transaction, and a table changed by another in its place (SQLite).
Engine == {"atomic", "autocommit", "rebuild"}
\* What a sync may do besides adding, a forced one, and a migration generated, run and rolled back.
Mode == {"safe", "additive", "full", "force", "migration"}

\* A column besides the key, which every table has and no plan changes. An index, [name, on], and a foreign key,
\* [name, col, to, act], are of one column each and named for it where uql makes them.
Column == [type : {"int", "text"}, req : BOOLEAN, def : BOOLEAN]
Name == {"x", "x_", "y", "ref"}
Alike(c, d) == {c, d} = {"x", "x_"}
ASSUME MaxRunsAssumption == MaxRuns \in Nat \ {0}

VARIABLES
    plan,
    db,         \* [table -> [cols, idx, fks] or None], as the session's last statement left it
    rows,       \* [table -> the one row it may hold, a value for each column, or None]
    fresh,      \* the new table of a rebuild and its row, or None
    saved,      \* what a rollback restores, or None outside a transaction
    fkOn,       \* whether the session's connection enforces foreign keys
    todo,       \* the statements left
    stage,      \* "plan", "up" or "down" while its statements run, "failed", "done"
    back,       \* the rollback a generated migration holds
    out,        \* how the last run ended
    runs, faults

vars == <<plan, db, rows, fresh, saved, fkOn, todo, stage, back, out, runs, faults>>

Table == ToSet(plan.entities)
Rebuilds == plan.engine = "rebuild"
Running == stage \in {"up", "down"}

\* Each column, index and foreign key of a set in some order.
All(changes, statement(_)) == LET list == SetToSeq(changes) IN [i \in DOMAIN list |-> statement(list[i])]
ByTable(tables, statements(_)) == FlattenSeq([i \in DOMAIN tables |-> statements(tables[i])])
Do(what, table, arg) == [do |-> what, table |-> table, arg |-> arg]

-----------------------------------------------------------------------------
(* The difference between a table the entities declare and the database's. *)

Changed(f, g) == {c \in DOMAIN f \cup DOMAIN g : c \notin DOMAIN f \/ c \notin DOMAIN g \/ f[c] # g[c]}
ValueAt(f, c) == IF c \in DOMAIN f THEN f[c] ELSE None

RenamedTo(rens, c) == IF \E r \in rens : r.from = c THEN (CHOOSE r \in rens : r.from = c).to ELSE c
Under(table, rens) ==
    [cols |-> [c \in {RenamedTo(rens, d) : d \in DOMAIN table.cols} |->
                  table.cols[CHOOSE d \in DOMAIN table.cols : RenamedTo(rens, d) = c]],
     idx |-> {[i EXCEPT !.on = RenamedTo(rens, @)] : i \in table.idx},
     fks |-> {[k EXCEPT !.col = RenamedTo(rens, @)] : k \in table.fks}]

\* A new column spelled as one the entity no longer names.
ColumnRenames(want, have) ==
    {[from |-> d, to |-> c] : <<d, c>> \in
        {p \in (DOMAIN have.cols \ DOMAIN want.cols) \X (DOMAIN want.cols \ DOMAIN have.cols) : Alike(p[1], p[2])}}

DiffColumns(want, have) ==
    {[name |-> c, from |-> ValueAt(have.cols, c), to |-> ValueAt(want.cols, c)] : c \in Changed(want.cols, have.cols)}

\* Paired by what it indexes. One uql did not make, which its name tells, is neither dropped nor made again.
Apart(i, indexes) == \A j \in indexes : j.on # i.on
Owned(i) == i.name = i.on
IndexChanges(want, have) ==
    {[from |-> None, to |-> i] : i \in {i \in want.idx : Apart(i, have.idx)}}
    \cup {[from |-> i, to |-> None] : i \in {i \in have.idx : Owned(i) /\ Apart(i, want.idx)}}
Kept(want, have) == {i \in have.idx : ~Owned(i) /\ Apart(i, want.idx)}

SameKey(k, l) == k.col = l.col /\ k.to = l.to
DiffRelationships(want, have) ==
    LET lacking(k, fks) == \A l \in fks : ~SameKey(k, l)
    IN  {[from |-> None, to |-> k] : k \in {k \in want.fks : lacking(k, have.fks)}}
        \cup {[from |-> k, to |-> None] : k \in {k \in have.fks : lacking(k, want.fks)}}
        \cup {[from |-> p[1], to |-> p[2]] :
                 p \in {p \in have.fks \X want.fks : SameKey(p[1], p[2]) /\ p[1].act # p[2].act}}

Altering(change) == change.from # None /\ change.to # None
NeedsRebuild(diff) == diff.fks # {} \/ \E change \in diff.columns : Altering(change)

NoDiff == [columns |-> {}, indexes |-> {}, fks |-> {}, renames |-> {}, rebuild |-> None]
DiffTable(want, have, renames) ==
    LET now == Under(have, renames)
        diff == [NoDiff EXCEPT !.columns = DiffColumns(want, now), !.indexes = IndexChanges(want, now),
                               !.fks = DiffRelationships(want, now), !.renames = renames]
    IN  IF Rebuilds /\ NeedsRebuild(diff)
        THEN [diff EXCEPT !.rebuild = [from |-> have, to |-> [want EXCEPT !.idx = @ \cup Kept(want, now)]]]
        ELSE diff

\* Each table both sides name, in the order of the entities, and those only the entities do.
Diff(t, renaming) ==
    DiffTable(plan.want[t], db[t], IF renaming THEN ColumnRenames(plan.want[t], db[t]) ELSE {})
Altered(renaming) == SelectSeq(plan.entities, LAMBDA t : db[t] # None /\ Diff(t, renaming) # NoDiff)
Created == {t \in Table : db[t] = None}

-----------------------------------------------------------------------------
(* What a diff requires of the rows, what a safe sync holds back, and what  *)
(* its rollback is.                                                        *)

NewlyRequired(columns) == {c \in columns : c.to # None /\ c.to.req /\ (c.from = None \/ ~c.from.req)}
LacksValue(column) == column.req /\ ~column.def
Unfilled(t, diff) ==
    \E change \in NewlyRequired(diff.columns) :
        LacksValue(change.to) /\ rows[t] # None /\ (change.from = None \/ rows[t][change.name] = None)

Added(changes) == {c \in changes : c.from = None}
Dropped(changes) == {c \in changes : c.to = None}

WithoutRebuild(diff) == [diff EXCEPT !.rebuild = None, !.fks = {}, !.columns = {c \in @ : ~Altering(c)}]

\* A variation: a rebuild goes ahead though part of its diff is held.
FilterDiffRebuilding(diff, safe, drop) ==
    [diff EXCEPT !.columns = {c \in (IF safe THEN Added(@) ELSE @) : drop \/ c.to # None},
                 !.indexes = IF safe THEN Added(@) ELSE @,
                 !.fks = IF safe THEN Added(@) ELSE @]

FilterDiff(diff, safe, drop) ==
    LET columns == IF safe THEN Added(diff.columns) ELSE diff.columns
        held == \/ safe /\ \E change \in diff.columns \cup diff.indexes \cup diff.fks : change.from # None
                \/ ~drop /\ Dropped(columns) # {}
        filtered == [diff EXCEPT !.columns = IF drop THEN columns ELSE columns \ Dropped(columns),
                                 !.indexes = IF safe THEN Added(@) ELSE @,
                                 !.fks = IF safe THEN Added(@) ELSE @]
    IN  IF diff.rebuild = None \/ ~held THEN filtered ELSE WithoutRebuild(filtered)

Swap(change) == [change EXCEPT !.from = change.to, !.to = change.from]
ReverseDiff(diff) ==
    LET names(c) == IF \E r \in diff.renames : r.to = c THEN (CHOOSE r \in diff.renames : r.to = c).from ELSE c
    IN  [columns |-> {Swap(c) : c \in diff.columns},
         indexes |-> {[from |-> i.to, to |-> IF i.from = None THEN None ELSE [i.from EXCEPT !.on = names(@)]] : i \in diff.indexes},
         fks |-> {[from |-> k.to, to |-> IF k.from = None THEN None ELSE [k.from EXCEPT !.col = names(@)]] : k \in diff.fks},
         renames |-> {[from |-> r.to, to |-> r.from] : r \in diff.renames},
         rebuild |-> IF diff.rebuild = None THEN None ELSE Swap(diff.rebuild)]

UnfillableRestores(diff) == IF diff.rebuild # None THEN {} ELSE {c \in Dropped(diff.columns) : LacksValue(c.from)}
RollbackDiff(diff) ==
    [ReverseDiff(diff) EXCEPT !.columns =
        {IF Swap(c) \in UnfillableRestores(diff) THEN [c EXCEPT !.to.req = FALSE] ELSE c : c \in @}]

-----------------------------------------------------------------------------
(* The statements of a diff and of a set of tables.                        *)

DefaultFills(columns) == {c \in NewlyRequired(columns) : c.from # None /\ c.to.def}

\* A variation: what goes with the table it replaces is not made again.
RebuildTableBare(t, diff) ==
    <<Do("guard", t, None), Do("createNew", t, [diff.rebuild.to EXCEPT !.idx = {}]), Do("copy", t, diff),
      Do("dropOld", t, None), Do("renameNew", t, None)>>

RebuildTable(t, diff) ==
    <<Do("guard", t, None), Do("createNew", t, [diff.rebuild.to EXCEPT !.idx = {}]), Do("copy", t, diff),
      Do("dropOld", t, None), Do("renameNew", t, None)>>
    \o All(diff.rebuild.to.idx, LAMBDA i : Do("addIndex", t, i))

\* A variation: the columns go before what stands on them.
GenerateAlterTableColumnsFirst(t, diff) ==
    All(Dropped(diff.columns), LAMBDA c : Do("dropColumn", t, c.name))
    \o All({k \in diff.fks : k.from # None}, LAMBDA k : Do("dropFk", t, k.from.name))
    \o All({i \in diff.indexes : i.from # None}, LAMBDA i : Do("dropIndex", t, i.from.name))
    \o All(Added(diff.columns), LAMBDA c : Do("addColumn", t, c))

GenerateAlterTable(t, diff) ==
    IF diff.rebuild # None THEN RebuildTable(t, diff)
    ELSE All({k \in diff.fks : k.from # None}, LAMBDA k : Do("dropFk", t, k.from.name))
         \o All({i \in diff.indexes : i.from # None}, LAMBDA i : Do("dropIndex", t, i.from.name))
         \o All(diff.renames, LAMBDA r : Do("renameColumn", t, r))
         \o All(Added(diff.columns), LAMBDA c : Do("addColumn", t, c))
         \o All(DefaultFills(diff.columns), LAMBDA c : Do("fill", t, c.name))
         \o All({c \in diff.columns : Altering(c)}, LAMBDA c : Do("alterColumn", t, c))
         \o All(Dropped(diff.columns), LAMBDA c : Do("dropColumn", t, c.name))
         \o All({i \in diff.indexes : i.to # None}, LAMBDA i : Do("addIndex", t, i.to))
         \o All({k \in diff.fks : k.to # None}, LAMBDA k : Do("addFk", t, k.to))

\* Tables after those they point at; in a cycle, as they come.
Dependencies(t) == SelectSeq(plan.entities, LAMBDA u : \E k \in plan.want[t].fks : k.to = u)
RECURSIVE Visit(_, _)
Visit(state, t) ==
    IF t \in state.visited THEN state
    ELSE LET after == FoldLeft(Visit, [state EXCEPT !.visited = @ \cup {t}], Dependencies(t))
         IN  [after EXCEPT !.ordered = Append(@, t)]
CreateOrder == FoldLeft(Visit, [visited |-> {}, ordered |-> <<>>], plan.entities).ordered

GenerateCreateSchema(only) ==
    LET tables == SelectSeq(CreateOrder, LAMBDA t : t \in only)
    IN  ByTable(tables, LAMBDA t : <<Do("createTable", t, IF Rebuilds THEN plan.want[t] ELSE [plan.want[t] EXCEPT !.fks = {}])>>)
        \o (IF Rebuilds THEN <<>>
            ELSE ByTable(tables, LAMBDA t : All(plan.want[t].fks, LAMBDA k : Do("addFk", t, k))))

GenerateDropSchema(only, cascade) ==
    LET tables == SelectSeq(Reverse(CreateOrder), LAMBDA t : t \in only)
        keysFirst == cascade /\ plan.engine = "autocommit"
    IN  (IF keysFirst
         THEN ByTable(tables, LAMBDA t : IF db[t] = None THEN <<>> ELSE All(db[t].fks, LAMBDA k : Do("dropFk", t, k.name)))
         ELSE <<>>)
        \o ByTable(tables, LAMBDA t : <<Do("dropTable", t, cascade /\ plan.engine = "atomic")>>)

\* A variation: nothing is checked before it commits.
SessionUnchecked(statements) ==
    <<Do("fksOff", None, None), Do("begin", None, None)>> \o statements
    \o <<Do("commit", None, None), Do("fksOn", None, None)>>

\* Foreign keys off before the transaction, every reference checked before it commits, and on again after it.
Session(statements) ==
    IF Rebuilds
    THEN <<Do("fksOff", None, None), Do("begin", None, None)>> \o statements
         \o <<Do("check", None, None), Do("commit", None, None), Do("fksOn", None, None)>>
    ELSE <<Do("begin", None, None)>> \o statements \o <<Do("commit", None, None)>>

-----------------------------------------------------------------------------
(* The engine: what it refuses, and what a statement leaves.               *)

References(t) == {u \in Table : db[u] # None /\ \E k \in db[u].fks : k.to = t}
Dangles(t, k) == rows[t] # None /\ rows[t][k.col] # None /\ rows[k.to] = None
Unresolved(keys(_)) == \E t \in Table : db[t] # None /\ \E k \in keys(t) : Dangles(t, k)

SchemaRefuses(s) ==
    LET now == db[s.table]
        has(c) == c \in DOMAIN now.cols
        indexed(c) == \E i \in now.idx : i.on = c
    IN  \/ s.do = "createTable" /\ (now # None \/ (~Rebuilds /\ \E k \in s.arg.fks : db[k.to] = None))
        \/ s.do = "dropTable" /\ ~Rebuilds /\ ~s.arg /\ References(s.table) \ {s.table} # {}
        \/ s.do = "addColumn" /\ has(s.arg.name)
        \/ s.do = "alterColumn" /\ ~has(s.arg.name)
        \/ s.do = "fill" /\ ~has(s.arg)
        \/ s.do = "dropColumn" /\ (~has(s.arg) \/ (Rebuilds /\ indexed(s.arg)) \/ \E k \in now.fks : k.col = s.arg)
        \/ s.do = "renameColumn" /\ (~has(s.arg.from) \/ has(s.arg.to))
        \/ s.do = "addIndex" /\ (~has(s.arg.on) \/ \E i \in now.idx : i.name = s.arg.name)
        \/ s.do = "dropIndex" /\ \A i \in now.idx : i.name # s.arg
        \/ s.do = "addFk" /\ (~has(s.arg.col) \/ db[s.arg.to] = None \/ \E k \in now.fks : k.name = s.arg.name)
        \/ s.do = "dropFk" /\ \A k \in now.fks : k.name # s.arg

\* What the new table of a rebuild takes from the row it copies: columns both sides have, renamed or with a null filled.
Copied(t, diff) ==
    LET source(c) == IF \E r \in diff.renames : r.to = c THEN (CHOOSE r \in diff.renames : r.to = c).from ELSE c
        filled == {c.name : c \in DefaultFills(diff.columns)}
        default(col) == IF col.def THEN "default" ELSE None
    IN  [c \in DOMAIN diff.rebuild.to.cols |->
            IF source(c) \notin DOMAIN diff.rebuild.from.cols THEN default(diff.rebuild.to.cols[c])
            ELSE IF c \in filled /\ rows[t][source(c)] = None THEN "default"
            ELSE rows[t][source(c)]]

\* MySQL puts a zero where a required column has no value.
DataRefuses(s) ==
    \/ s.do = "addColumn" /\ plan.engine # "autocommit" /\ LacksValue(s.arg.to) /\ rows[s.table] # None
    \/ s.do = "alterColumn" /\ s.arg.to.req /\ rows[s.table] # None /\ rows[s.table][s.arg.name] = None
    \/ s.do = "addFk" /\ Dangles(s.table, s.arg)
    \/ s.do = "copy" /\ rows[s.table] # None
        /\ \E c \in DOMAIN s.arg.rebuild.to.cols :
               s.arg.rebuild.to.cols[c].req /\ Copied(s.table, s.arg)[c] = None
    \/ s.do = "check" /\ Unresolved(LAMBDA t : db[t].fks)

GuardRefuses(s) == s.do = "guard" /\ fkOn /\ References(s.table) # {}

Without(f, c) == [d \in DOMAIN f \ {c} |-> f[d]]
With(f, c, v) == [d \in DOMAIN f \cup {c} |-> IF d = c THEN v ELSE f[d]]
Shape(s) ==
    LET now == db[s.table]
    IN  CASE s.do = "createTable" -> s.arg
          [] s.do \in {"dropTable", "dropOld"} -> None
          [] s.do \in {"addColumn", "alterColumn"} -> [now EXCEPT !.cols = With(@, s.arg.name, s.arg.to)]
          [] s.do = "dropColumn" -> [now EXCEPT !.cols = Without(@, s.arg), !.idx = {i \in @ : i.on # s.arg}]
          [] s.do = "renameColumn" -> Under(now, {s.arg})
          [] s.do = "addIndex" -> [now EXCEPT !.idx = @ \cup {s.arg}]
          [] s.do = "dropIndex" -> [now EXCEPT !.idx = {i \in @ : i.name # s.arg}]
          [] s.do = "addFk" -> [now EXCEPT !.fks = @ \cup {s.arg}]
          [] s.do = "dropFk" -> [now EXCEPT !.fks = {k \in @ : k.name # s.arg}]
          [] s.do = "renameNew" -> fresh.shape
          [] OTHER -> now
RowAfter(s) ==
    LET row == rows[s.table]
    IN  IF s.do = "renameNew" THEN fresh.row ELSE IF row = None THEN None ELSE
        CASE s.do \in {"dropTable", "dropOld"} -> None
          [] s.do = "addColumn" -> With(row, s.arg.name, IF s.arg.to.def THEN "default"
                                                         ELSE IF s.arg.to.req THEN "zero" ELSE None)
          [] s.do = "dropColumn" -> Without(row, s.arg)
          [] s.do = "renameColumn" -> With(Without(row, s.arg.from), s.arg.to, row[s.arg.from])
          [] s.do = "fill" -> [row EXCEPT ![s.arg] = IF @ = None THEN "default" ELSE @]
          [] OTHER -> row

\* A cascading drop takes the keys at the table along; one under foreign keys takes the rows that point at it.
Execute(s) ==
    /\ db' = [t \in Table |->
                 IF t = s.table THEN Shape(s)
                 ELSE IF s.do = "dropTable" /\ s.arg /\ db[t] # None
                 THEN [db[t] EXCEPT !.fks = {k \in @ : k.to # s.table}]
                 ELSE db[t]]
    /\ rows' = [t \in Table |->
                   IF t = s.table THEN RowAfter(s)
                   ELSE IF s.do = "dropOld" /\ fkOn /\ t \in References(s.table) THEN None
                   ELSE rows[t]]
    /\ fresh' = CASE s.do = "createNew" -> [shape |-> s.arg, row |-> None]
                  [] s.do = "copy" -> [fresh EXCEPT !.row = IF rows[s.table] = None THEN None ELSE Copied(s.table, s.arg)]
                  [] s.do = "renameNew" -> None
                  [] OTHER -> fresh
    /\ saved' = CASE s.do = "begin" /\ plan.engine # "autocommit" -> [db |-> db, rows |-> rows]
                  [] s.do = "commit" -> None
                  [] OTHER -> saved
    /\ fkOn' = CASE s.do = "fksOff" -> plan.remote
                 [] s.do = "fksOn" -> TRUE
                 [] OTHER -> fkOn

-----------------------------------------------------------------------------
Init ==
    /\ plan \in Plan
    /\ db = plan.have /\ rows = plan.rows
    /\ fresh = None /\ saved = None /\ fkOn = TRUE
    /\ todo = <<>> /\ back = <<>>
    /\ stage = "plan" /\ out = None /\ runs = 0 /\ faults = 0

Creating == IF Created = {} THEN <<>> ELSE GenerateCreateSchema(Created)
Alter(diffs) == FlattenSeq([i \in DOMAIN diffs |-> GenerateAlterTable(diffs[i].table, diffs[i].diff)])

Filtered == [i \in DOMAIN Altered(FALSE) |->
                [table |-> Altered(FALSE)[i],
                 diff |-> FilterDiff(Diff(Altered(FALSE)[i], FALSE), plan.mode = "safe", plan.mode = "full")]]
Fillable(diffs) == \A i \in DOMAIN diffs : ~Unfilled(diffs[i].table, diffs[i].diff)
PlannedSync ==
    IF plan.mode = "force" THEN GenerateDropSchema(Table, TRUE) \o GenerateCreateSchema(Table)
    ELSE Creating \o Alter(Filtered)

\* The statements run in a session, where there are any.
Take(statements) ==
    IF statements = <<>> THEN stage' = "done" /\ out' = "ok" /\ todo' = <<>>
    ELSE stage' = "up" /\ out' = None /\ todo' = Session(statements)

Stay == UNCHANGED <<db, rows, fresh, saved, fkOn>>
PlanSync ==
    /\ stage = "plan" /\ plan.mode # "migration"
    /\ runs' = runs + 1
    /\ \/ /\ plan.mode # "force" /\ ~Fillable(Filtered)
          /\ stage' = "failed" /\ out' = "unfillable" /\ todo' = <<>>
       \/ /\ plan.mode = "force" \/ Fillable(Filtered)
          /\ Take(PlannedSync)
    /\ Stay /\ UNCHANGED <<plan, back, faults>>

\* A migration written from the same differences, renames included, with the rollback of each, last first.
GenerateFromEntities ==
    /\ stage = "plan" /\ plan.mode = "migration"
    /\ runs' = runs + 1
    /\ LET diffs == [i \in DOMAIN Altered(TRUE) |-> [table |-> Altered(TRUE)[i], diff |-> Diff(Altered(TRUE)[i], TRUE)]]
           undone == [i \in DOMAIN diffs |-> [diffs[i] EXCEPT !.diff = RollbackDiff(@)]]
           up == Creating \o Alter(diffs)
       IN  \/ /\ ~Fillable(diffs)
              /\ stage' = "failed" /\ out' = "unfillable" /\ UNCHANGED <<todo, back>>
           \/ /\ Fillable(diffs)
              /\ Take(up)
              /\ back' = (IF up = <<>> THEN <<>>
                          ELSE Session(Alter(Reverse(undone)) \o GenerateDropSchema(Created, FALSE)))
    /\ Stay /\ UNCHANGED <<plan, faults>>

Refused(s) == (s.table # None /\ SchemaRefuses(s)) \/ DataRefuses(s) \/ GuardRefuses(s)
Run ==
    /\ Running /\ todo # <<>> /\ ~Refused(Head(todo))
    /\ Execute(Head(todo))
    /\ todo' = Tail(todo)
    /\ stage' = (IF Tail(todo) = <<>> THEN "done" ELSE stage)
    /\ out' = (IF Tail(todo) = <<>> THEN "ok" ELSE out)
    /\ UNCHANGED <<plan, back, runs, faults>>

RollBack ==
    /\ db' = (IF saved = None THEN db ELSE saved.db)
    /\ rows' = (IF saved = None THEN rows ELSE saved.rows)
    /\ fresh' = None /\ saved' = None
    /\ todo' = <<>> /\ stage' = "failed"

\* A variation: what was switched off comes back on only where everything went well.
FailedKeysOff(why) ==
    /\ RollBack /\ out' = why
    /\ UNCHANGED <<plan, fkOn, back, runs>>

Failed(why) ==
    /\ RollBack /\ out' = why /\ fkOn' = TRUE
    /\ UNCHANGED <<plan, back, runs>>

Fail ==
    /\ Running /\ todo # <<>> /\ Refused(Head(todo))
    /\ Failed(IF GuardRefuses(Head(todo)) THEN "guard" ELSE IF DataRefuses(Head(todo)) THEN "data" ELSE "schema")
    /\ UNCHANGED faults

\* A statement fails on its own: a lock wait, a full disk, a connection that goes.
Fault ==
    /\ Running /\ todo # <<>> /\ faults < plan.faults
    /\ Head(todo).do \notin {"fksOff", "begin", "fksOn"}
    /\ faults' = faults + 1
    /\ Failed("fault")

\* A sync is planned again from whatever the last one left.
Again ==
    /\ stage = "failed" /\ plan.mode # "migration" /\ runs < MaxRuns
    /\ stage' = "plan"
    /\ Stay /\ UNCHANGED <<plan, todo, back, out, runs, faults>>

Down ==
    /\ stage = "done" /\ back # <<>>
    /\ stage' = "down" /\ todo' = back /\ back' = <<>> /\ out' = None
    /\ Stay /\ UNCHANGED <<plan, runs, faults>>

\* A row from another connection, or from another flow of a shared handle: while no session runs, or while one that
\* locks no whole database has changed no table yet.  One that comes later, to a table it leaves alone, is as if it had come then.
Insert(t) ==
    LET committed == IF saved = None THEN [db |-> db, rows |-> rows] ELSE saved
        resolves(k) == committed.rows[k.to] # None \/ (plan.shared /\ ~fkOn)
        full == [c \in DOMAIN committed.db[t].cols |->
                    IF \A k \in committed.db[t].fks : k.col = c => resolves(k) THEN "value" ELSE None]
        bare == [c \in DOMAIN committed.db[t].cols |->
                    IF committed.db[t].cols[c].def THEN "default" ELSE IF committed.db[t].cols[c].req THEN "value" ELSE None]
    IN  /\ stage \notin {"plan", "failed"}
        /\ committed.db[t] # None /\ committed.rows[t] = None /\ rows[t] = None
        /\ saved # None => ~Rebuilds /\ plan.mode # "force" /\ \A u \in Table : db[u] = saved.db[u]
        /\ \E row \in {full, bare} :
              /\ rows' = [rows EXCEPT ![t] = row]
              /\ saved' = (IF saved = None THEN None ELSE [saved EXCEPT !.rows[t] = row])
        /\ UNCHANGED <<plan, db, fresh, fkOn, todo, stage, back, out, runs, faults>>

Next ==
    \/ PlanSync \/ GenerateFromEntities
    \/ Run \/ Fail \/ Fault \/ Again \/ Down
    \/ \E t \in Table : Insert(t)

Spec == Init /\ [][Next]_vars

-----------------------------------------------------------------------------
(* Properties.                                                             *)

\* Schemas, rows and the session keep their shape: a row has a value for each column of its table and none for
\* another, nothing of a rebuild or a transaction is left when no session runs, and its connection enforces
\* foreign keys again, a session that failed included.
TypeOK ==
    /\ \A t \in Table :
          /\ db[t] # None =>
                /\ \A c \in DOMAIN db[t].cols : c \in Name /\ db[t].cols[c] \in Column
                /\ {i.on : i \in db[t].idx} \cup {k.col : k \in db[t].fks} \subseteq DOMAIN db[t].cols
          /\ rows[t] # None => db[t] # None /\ DOMAIN rows[t] = DOMAIN db[t].cols
    /\ stage \in {"plan", "up", "down", "failed", "done"}
    /\ out \in {None, "ok", "unfillable", "guard", "data", "schema", "fault"}
    /\ runs \in 0 .. MaxRuns /\ faults \in 0 .. plan.faults
    /\ ~Running => fresh = None /\ saved = None /\ fkOn /\ todo = <<>>

\* No statement asks the engine for what its schema cannot do: the order of generateAlterTable takes down what stands
\* on a column or a key before it and puts it back after, new tables and their keys come before what points at
\* them, and a sync planned again from where a failed one stopped, with no transaction to undo it, says only what is
\* left. The guard of a rebuild refuses only where foreign keys could not be turned off.
PlansRun == out # "schema" /\ (out = "guard" => plan.remote)

\* No step loses a committed row, nor a value of one, that the caller did not ask to lose: outside a forced sync a
\* row stays, a column goes only from a full sync or a migration whose entity does not name it, and one only
\* spelled otherwise carries its value over. Neither a rebuild nor a failure halfway takes more.
Stored == IF saved = None THEN rows ELSE saved.rows
Asked(t, c) ==
    \/ plan.mode = "full" /\ c \notin DOMAIN plan.want[t].cols
    \/ plan.mode = "migration" /\ stage = "up" /\ c \notin DOMAIN plan.want[t].cols
    \/ plan.mode = "migration" /\ stage = "down" /\ c \notin DOMAIN plan.have[t].cols
Carried(c, row, after) ==
    \E d \in DOMAIN after :
        (d = c \/ (plan.mode = "migration" /\ Alike(c, d)))
        /\ (after[d] = row[c] \/ (row[c] = None /\ after[d] = "default"))
Survives(t, row, after) ==
    IF after = None THEN stage = "down" /\ plan.have[t] = None
    ELSE \A c \in DOMAIN row :
            \/ Carried(c, row, after)
            \/ Asked(t, c) /\ ~\E d \in DOMAIN after : plan.mode = "migration" /\ Alike(c, d)
RowsSurvive ==
    [][plan.mode # "force" => \A t \in Table : Stored[t] # None => Survives(t, Stored[t], Stored'[t])]_vars

\* A sync that went through has nothing left to say; a full or a forced one, and a migration, leave what the entities
\* declare, and its rollback what was there, but for required columns that come back nullable.
Restored(t) ==
    IF plan.have[t] = None THEN db[t] = None
    ELSE /\ db[t].idx = plan.have[t].idx /\ db[t].fks = plan.have[t].fks
         /\ DOMAIN db[t].cols = DOMAIN plan.have[t].cols
         /\ \A c \in DOMAIN db[t].cols :
               \/ db[t].cols[c] = plan.have[t].cols[c]
               \/ /\ c \notin DOMAIN plan.want[t].cols /\ LacksValue(plan.have[t].cols[c])
                  /\ db[t].cols[c] = [plan.have[t].cols[c] EXCEPT !.req = FALSE]
ReachesTarget ==
    stage = "done" /\ out = "ok" =>
        CASE plan.mode \in {"safe", "additive"} -> Creating \o Alter(Filtered) = <<>>
          [] plan.mode \in {"full", "force"} -> Created = {} /\ Altered(FALSE) = <<>>
          [] plan.mode = "migration" ->
                IF back # <<>> THEN Created = {} /\ Altered(FALSE) = <<>>
                ELSE \A t \in Table : Restored(t)

\* What a session commits, every foreign key of it resolves, whatever rows came in while they were not enforced.
ReferencesHold ==
    [][saved # None /\ saved' = None /\ stage' # "failed" =>
        \A t \in Table : db'[t] # None => \A k \in db'[t].fks :
            rows'[t] # None /\ rows'[t][k.col] # None => rows'[k.to] # None]_vars
=============================================================================
