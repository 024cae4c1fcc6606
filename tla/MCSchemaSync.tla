---------------------------- MODULE MCSchemaSync ----------------------------
(* One table whose columns change, two with keys between them, new tables  *)
(* in a cycle, and a column spelled anew, with a key on it or without.     *)
EXTENDS SchemaSync

Number(req, def) == [type |-> "int", req |-> req, def |-> def]
Text(req) == [type |-> "text", req |-> req, def |-> FALSE]
Nullable == Number(FALSE, FALSE)
TableOf(cols, idx, fks) == [cols |-> cols, idx |-> idx, fks |-> fks]
Index(c) == [name |-> c, on |-> c]
Foreign(c) == [name |-> "mine", on |-> c]
Key(c, t, act) == [name |-> c, col |-> c, to |-> t, act |-> act]

One(engine, mode, want, have, row) ==
    [entities |-> <<"A">>, engine |-> engine, mode |-> mode, want |-> [A |-> want], have |-> [A |-> have],
     rows |-> [A |-> row], remote |-> FALSE, shared |-> FALSE, faults |-> 1]

\* A column x there or not, nullable, required, with a default or of another type, indexed or not, next to one that
\* comes, goes or stays under an index uql did not make.
Bare == [c \in {"y"} |-> Nullable]
Versions == {Bare, [c \in {"x"} |-> Text(FALSE)]} \cup
    {[c \in {"x", "y"} |-> IF c = "x" THEN x ELSE Nullable] :
        x \in {Nullable, Number(TRUE, TRUE), Number(TRUE, FALSE), Text(FALSE)}}
OnX(cols) == {{}} \cup (IF "x" \in DOMAIN cols THEN {{Index("x")}} ELSE {})
Seed(cols) == {[c \in DOMAIN cols |-> "value"], [c \in DOMAIN cols |-> IF cols[c].req THEN "value" ELSE None], None}
Beside(want, have) == {Foreign(c) : c \in {"y"} \cap DOMAIN want \cap DOMAIN have}
Columns ==
    UNION {UNION {
        {One(engine, mode, TableOf(want, wi, {}), TableOf(have, hi \cup Beside(want, have), {}), row) :
            engine \in Engine, mode \in {"safe", "additive", "full", "migration"},
            wi \in OnX(want), hi \in OnX(have), row \in Seed(have)}
        : want \in Versions} : have \in Versions}

\* B points at A: the key added, dropped or its action changed, a row that points nowhere, A changed meanwhile.
RefCols == [c \in {"ref"} |-> Nullable]
ACols == {Bare, [c \in {"y"} |-> Text(FALSE)], [c \in {"x", "y"} |-> Nullable]}
Keys == {{}, {Key("ref", "A", "cascade")}, {Key("ref", "A", "none")}}
Keyed ==
    {[entities |-> e, engine |-> engine, mode |-> mode,
      remote |-> where = "remote", shared |-> where = "shared", faults |-> 1,
      want |-> [A |-> TableOf(a, {}, {}), B |-> TableOf(RefCols, {}, wk)],
      have |-> [A |-> TableOf(Bare, {}, {}), B |-> TableOf(RefCols, {}, hk)],
      rows |-> [A |-> IF dangling THEN None ELSE [y |-> "value"], B |-> [ref |-> "value"]]] :
        e \in {<<"A", "B">>, <<"B", "A">>}, engine \in Engine, mode \in {"safe", "full", "migration"},
        where \in {"own", "remote", "shared"}, a \in ACols, wk \in Keys, hk \in Keys, dangling \in BOOLEAN}
Referring == {p \in Keyed : /\ (p.remote \/ p.shared) => p.engine = "rebuild"
                            /\ p.rows.A = None => p.have.B.fks = {} \/ p.engine = "rebuild"}

\* Two tables new or there, each pointing at the other.
Cyclic ==
    {[entities |-> <<"A", "B">>, engine |-> engine, mode |-> mode, remote |-> FALSE, shared |-> FALSE, faults |-> 1,
      want |-> [A |-> TableOf(RefCols, {}, {Key("ref", "B", "none")}), B |-> TableOf(RefCols, {}, bk)],
      have |-> [A |-> a, B |-> b], rows |-> [A |-> None, B |-> None]] :
        engine \in Engine, mode \in {"safe", "full", "force", "migration"},
        bk \in {{}, {Key("ref", "A", "none")}},
        a \in {None, TableOf(RefCols, {}, {Key("ref", "B", "none")}), TableOf(RefCols, {}, {})},
        b \in {None, TableOf(RefCols, {}, {}), TableOf(RefCols, {}, {Key("ref", "A", "none")})}}
Cycles == {p \in Cyclic : /\ p.have.B = None => p.have.A = None \/ p.have.A.fks = {}
                          /\ p.have.A = None => p.have.B = None \/ p.have.B.fks = {}
                          /\ p.mode = "migration" => p.want.B.fks = {} \/ p.have.A # None \/ p.have.B # None}

\* A column spelled otherwise, indexed or not, next to one that changes so that the table is rebuilt, or not.
Renames ==
    {One(engine, "migration",
         TableOf([c \in {"x", "y"} |-> IF c = "y" THEN y ELSE Nullable], wi, {}),
         TableOf([c \in {"x_", "y"} |-> Nullable], hi, {}), row) :
        engine \in Engine, y \in {Nullable, Text(FALSE), Number(TRUE, TRUE)},
        wi \in {{}, {Index("x")}}, hi \in {{}, {Index("x_")}, {Foreign("x_")}},
        row \in {None, [c \in {"x_", "y"} |-> "value"], [c \in {"x_", "y"} |-> None]}}

\* The same of a column with a key on it, kept, changed or gone.
RenamedKeys ==
    {[entities |-> <<"A", "B">>, engine |-> engine, mode |-> "migration",
      remote |-> FALSE, shared |-> FALSE, faults |-> 1,
      want |-> [A |-> TableOf([c \in {"x"} |-> Nullable], {}, wk), B |-> TableOf(b, {}, {})],
      have |-> [A |-> TableOf([c \in {"x_"} |-> Nullable], {}, hk), B |-> TableOf(Bare, {}, {})],
      rows |-> [A |-> [x_ |-> "value"], B |-> [y |-> "value"]]] :
        engine \in Engine, b \in {Bare, [c \in {"y"} |-> Text(FALSE)]},
        wk \in {{}, {Key("x", "B", "none")}, {Key("x", "B", "cascade")}}, hk \in {{}, {Key("x_", "B", "none")}}}

Plans == Columns \cup Referring \cup Cycles \cup Renames \cup RenamedKeys
=============================================================================
