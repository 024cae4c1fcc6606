------------------------------- MODULE Keyset -------------------------------
(***************************************************************************)
(* A page of rows read past a cursor: the sort resolved to keys, the       *)
(* cursor turned into a filter for the rows past it, and the page built    *)
(* from one row more than it holds.                                        *)
(*                                                                         *)
(* A row is a function from its columns to numbers or Null.  The engine's  *)
(* own order, which the filter must agree with, is `Sorted`.               *)
(*                                                                         *)
(* src/packages/orm/src/querier/keyset.ts and cursor.ts.                   *)
(***************************************************************************)
EXTENDS Naturals, Sequences, FiniteSets, SequencesExt

CONSTANTS
    Null,
    IdColumn    \* the primary key, the one column here that is unique and never null

ASSUME KeysetAssumption == Null \notin Nat

\* The `$sort` of a query: its columns in turn, each ascending or not, its nulls placed or not.
SortKey(columns) == [key : columns, desc : BOOLEAN, nulls : {"unset", "first", "last"}]

-----------------------------------------------------------------------------
(* The engine, which sorts nulls as the lowest values or not.              *)

Ahead(s, lowest, a, b) ==
    /\ a # b
    /\ CASE a = Null -> IF s.nulls = "unset" THEN s.desc # lowest ELSE s.nulls = "first"
         [] b = Null -> IF s.nulls = "unset" THEN s.desc = lowest ELSE s.nulls = "last"
         [] OTHER -> IF s.desc THEN a > b ELSE a < b

Before(sort, lowest, r1, r2) ==
    \E i \in DOMAIN sort :
        /\ \A j \in 1..(i - 1) : r1[sort[j].key] = r2[sort[j].key]
        /\ Ahead(sort[i], lowest, r1[sort[i].key], r2[sort[i].key])

\* SELECT ... ORDER BY sort LIMIT n
Sorted(found, sort, lowest, n) ==
    LET Rank(r) == 1 + Cardinality({q \in found : Before(sort, lowest, q, r)})
    IN  [i \in 1..(IF Cardinality(found) < n THEN Cardinality(found) ELSE n) |-> CHOOSE r \in found : Rank(r) = i]

-----------------------------------------------------------------------------
(* The keys of a page.                                                     *)

PageOrder(sort, lowest) ==
    [i \in DOMAIN sort |->
        [key |-> sort[i].key,
         desc |-> sort[i].desc,
         nullsFirst |-> IF sort[i].nulls = "unset" THEN sort[i].desc # lowest ELSE sort[i].nulls = "first",
         placed |-> sort[i].nulls # "unset",
         nullable |-> sort[i].key # IdColumn]]

Pageable(sort) == \E i \in DOMAIN sort : sort[i].key = IdColumn

TotalPrefix(order) ==
    SubSeq(order, 1, CHOOSE i \in DOMAIN order :
                        order[i].key = IdColumn /\ \A j \in 1..(i - 1) : order[j].key # IdColumn)

Inverted(order) == [i \in DOMAIN order |-> [order[i] EXCEPT !.desc = ~@, !.nullsFirst = ~@]]

Spelling(order) ==
    [i \in DOMAIN order |->
        [key |-> order[i].key,
         desc |-> order[i].desc,
         nulls |-> IF ~order[i].placed THEN "unset" ELSE IF order[i].nullsFirst THEN "first" ELSE "last"]]

-----------------------------------------------------------------------------
(* The filter for the rows past a cursor, evaluated on a row's value `x`:  *)
(* a comparison with a null is never true.                                 *)

\* A variation: a null column is past no cursor.
NullsAheadNever(k, x) == FALSE

NullsAhead(k, x) == k.nullable /\ ~k.nullsFirst /\ x = Null

PastOf(k, v, x) ==
    IF v = Null
    THEN k.nullsFirst /\ x # Null
    ELSE \/ x # Null /\ IF k.desc THEN x < v ELSE x > v
         \/ NullsAhead(k, x)

\* A variation: the bound leaves out the rows that tie with the cursor.
AtOrPastOfStrict(k, v, x) == PastOf(k, v, x)

AtOrPastOf(k, v, x) ==
    IF v = Null
    THEN k.nullsFirst \/ x = Null
    ELSE \/ x # Null /\ IF k.desc THEN x <= v ELSE x >= v
         \/ NullsAhead(k, x)

\* The bounded chain `a <= x AND (a < x OR (b <= y AND (b < y OR ...)))`, unfolded: past the cursor on some key,
\* within the bound of that key and of each before it.  The last key has no bound.
KeysetClauses(keys, cursor, row) ==
    LET Bound(i) == i = Len(keys) \/ AtOrPastOf(keys[i], cursor[i], row[keys[i].key])
    IN  \E i \in DOMAIN keys :
            /\ PastOf(keys[i], cursor[i], row[keys[i].key])
            /\ \A j \in 1..i : Bound(j)

-----------------------------------------------------------------------------
(* One read of a page: `dir` says whether the cursor is `$after` or        *)
(* `$before`, and NoCursor stands for neither.                             *)

NoCursor == <<>>
MintCursor(keys, row) == [i \in DOMAIN keys |-> row[keys[i].key]]

KeysetRead(found, sort, lowest, limit, dir, cursor) ==
    LET order == PageOrder(sort, lowest)
        keys == TotalPrefix(order)
        backward == dir = "before"
        read == Sorted({r \in found :
                            cursor # NoCursor => KeysetClauses(IF backward THEN Inverted(keys) ELSE keys, cursor, r)},
                       IF backward THEN Spelling(Inverted(order)) ELSE sort,
                       lowest, limit + 1)
        more == Len(read) > limit
        kept == SubSeq(read, 1, IF more THEN limit ELSE Len(read))
        items == IF backward THEN Reverse(kept) ELSE kept
    IN  [items |-> items,
         hasNextPage |-> backward \/ more,
         hasPrevPage |-> IF backward THEN more ELSE cursor # NoCursor,
         startCursor |-> IF items = <<>> THEN NoCursor ELSE MintCursor(keys, items[1]),
         endCursor |-> IF items = <<>> THEN NoCursor ELSE MintCursor(keys, Last(items))]
=============================================================================
