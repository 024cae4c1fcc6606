--------------------------- MODULE MCPersistence ---------------------------
(***************************************************************************)
(* Two flows race, each with one call, over the engines and over families  *)
(* of calls; and a reader pages through five rows while they write.        *)
(***************************************************************************)
EXTENDS Paging

CONSTANTS a, b, c1, c2, c3

NoCall == [op |-> "idle", ids |-> {}, cond |-> FALSE, list |-> None, columns |-> TRUE, hard |-> TRUE,
           limit |-> None, returning |-> FALSE, outer |-> FALSE]
Doing(op, ids) == [NoCall EXCEPT !.op = op, !.ids = ids]
If(call) == [call EXCEPT !.cond = TRUE]
Listing(call, list) == [call EXCEPT !.list = list]
Unwritten(call) == [call EXCEPT !.columns = FALSE]
Limited(call) == [call EXCEPT !.limit = 1]
Reporting(call) == [call EXCEPT !.returning = TRUE]
Soft(call) == [call EXCEPT !.hard = FALSE]
Outer(call) == [call EXCEPT !.outer = TRUE]

SeedRow == [val |-> Seed, ver |-> 1, del |-> FALSE, par |-> None]
Deleted == [SeedRow EXCEPT !.del = TRUE]
Of(p) == [SeedRow EXCEPT !.par = p]
Seeded(some) == [k \in Key |-> IF k \in DOMAIN some THEN some[k] ELSE None]

Race(engine, versioned, childSoft, seed, first, second) ==
    [engine |-> engine, versioned |-> versioned, childSoft |-> childSoft, seed |-> Seeded(seed),
     call |-> (a :> first @@ b :> second), pages |-> FALSE, faults |-> 1]

\* One row held by its version, another to insert: updates, upserts kept by their `$where`, deletes.
Versioned ==
    LET calls == {Doing("update", {1}), If(Doing("update", {1})), Doing("upsert", {1}), If(Doing("upsert", {1})),
                  Doing("upsert", {1, 2}), Outer(Doing("update", {1})), Outer(If(Doing("upsert", {1}))),
                  Doing("delete", {1}), Soft(Doing("delete", {1})), Reporting(If(Doing("update", {1}))),
                  Listing(Doing("upsert", {1}), {c1})}
        others == {Doing("update", {1}), Doing("upsert", {1, 2}), Outer(If(Doing("upsert", {1}))), Doing("delete", {1})}
    IN  {Race(e, TRUE, FALSE, (1 :> SeedRow), x, y) : e \in Engine, x \in calls, y \in others}

\* Two rows claimed by a filter on what they hold.
Claims ==
    LET both == Doing("update", {1, 2})
        calls == {Limited(If(both)), Reporting(If(both)), If(both), Limited(If(Soft(Doing("delete", {1, 2})))),
                  Doing("delete", {1, 2}), If(Doing("upsert", {1, 2})), Doing("restore", {1, 2}),
                  Outer(Limited(If(both)))}
        others == {Limited(If(both)), If(both), Doing("delete", {1, 2}), If(Doing("upsert", {1, 2}))}
    IN  {Race(e, FALSE, FALSE, (1 :> SeedRow @@ 2 :> SeedRow), x, y) : e \in Engine, x \in calls, y \in others}

\* Parents and the children they own.
Families ==
    LET parent(p) == Doing("update", {p})
        calls == {Unwritten(Listing(parent(1), {c1})), Listing(parent(1), {c2, c3}), Unwritten(Listing(parent(1), {c3})),
                  Listing(parent(2), {c1}), Doing("delete", {1}), Doing("delete", {1, 2}), Soft(Doing("delete", {1})),
                  Listing(Doing("upsert", {1}), {c1}), Listing(If(Doing("upsert", {1})), {c3}),
                  Listing(Doing("saveChild", {1}), {c3}), Outer(Listing(Doing("saveChild", {1}), {c3}))}
        others == {Unwritten(Listing(parent(1), {c2})), Listing(parent(2), {c1, c3}), Doing("delete", {1}),
                   Listing(Doing("upsert", {1}), {c3}), Outer(Listing(Doing("saveChild", {1}), {c2}))}
    IN  {Race(e, FALSE, soft, (1 :> SeedRow @@ 2 :> SeedRow @@ c1 :> Of(1) @@ c2 :> Of(2)), x, y) :
            <<e, soft>> \in (Engine \X {FALSE}) \cup {<<"committed", TRUE>>}, x \in calls, y \in others}

\* A key not there yet, and one soft-deleted.
Arrivals ==
    LET calls == {Doing("insert", {1}), Listing(Doing("insert", {1}), {c1}), Doing("upsert", {1, 2}),
                  Listing(Doing("upsert", {1}), {c2}), Listing(Doing("upsert", {2}), {c2}), Doing("restore", {2}),
                  Doing("delete", {1, 2})}
    IN  {Race(e, FALSE, FALSE, (2 :> Deleted), x, y) : e \in Engine, x \in calls, y \in calls}

\* A walk over five rows, two of them without a value and two with the same, while rows come and go.
Walks ==
    LET sortBy(d1, n, d2) == <<[key |-> "col", desc |-> d1, nulls |-> n], [key |-> IdColumn, desc |-> d2, nulls |-> "unset"]>>
        sorts == {sortBy(d1, n, d2) : d1 \in BOOLEAN, n \in {"unset", "first", "last"}, d2 \in BOOLEAN}
                 \cup {<<[key |-> IdColumn, desc |-> TRUE, nulls |-> "unset"]>>,
                       <<[key |-> IdColumn, desc |-> FALSE, nulls |-> "unset"], [key |-> "col", desc |-> TRUE, nulls |-> "unset"]>>}
        col == (1 :> Null @@ 2 :> 1 @@ 3 :> 1 @@ 4 :> Null @@ 5 :> 2)
        seed == Seeded(1 :> SeedRow @@ 2 :> SeedRow @@ 4 :> SeedRow @@ 5 :> SeedRow)
        calls == {(a :> Doing("insert", {3}) @@ b :> Soft(Doing("delete", {2}))),
                  (a :> Doing("delete", {4, 5}) @@ b :> Doing("update", {1}))}
    IN  {[engine |-> "committed", versioned |-> FALSE, childSoft |-> FALSE, seed |-> seed, call |-> calling, faults |-> 0, pages |-> TRUE,
          col |-> col, sort |-> sort, lowest |-> low, limit |-> n] :
            calling \in calls, sort \in sorts, low \in BOOLEAN, n \in 1..2}

Everything == Versioned \cup Claims \cup Families \cup Arrivals \cup Walks
=============================================================================
