------------------------------- MODULE Paging -------------------------------
(***************************************************************************)
(* A reader that walks a table page by page, forward to the end and back   *)
(* to the start, while flows insert, update, delete and restore its rows.  *)
(* Each page is a query of its own, which sees what is committed by then.  *)
(*                                                                         *)
(* `findManyPage` of src/packages/orm/src/querier/abstractQuerier.ts, over *)
(* the rows of Persistence and the pages of Keyset.                        *)
(***************************************************************************)
EXTENDS Persistence, Keyset

\* A page is of a sort that contains the key, and holds a positive number of rows (`assertPageable`).
ASSUME PageAssumption ==
    /\ IsFiniteSet(Parent) /\ IdColumn # "col"
    /\ \A p \in Plan :
          /\ p.pages \in BOOLEAN
          /\ p.pages => /\ p.sort \in Seq(SortKey({IdColumn, "col"})) /\ Pageable(p.sort)
                        /\ p.lowest \in BOOLEAN /\ p.limit \in Nat \ {0}
                        /\ p.col \in [Parent -> Nat \cup {Null}]

VARIABLES
    pager,      \* the walk: its direction and cursor, the rows seen either way
    steady      \* the rows that have been there since the walk began

pagingVars == <<vars, pager, steady>>

\* A row of the table as the page sees it: its key, and a column no call writes.
RowOf(p) == [c \in {IdColumn, "col"} |-> IF c = IdColumn THEN p ELSE plan.col[p]]
LiveIn(table) == {p \in Parent : Live(table[p])}
Follows(p, q) == Before(plan.sort, plan.lowest, RowOf(p), RowOf(q))

PagingInit ==
    /\ Init
    /\ pager = [on |-> plan.pages, dir |-> "after", cursor |-> NoCursor, after |-> <<>>, turn |-> None, before |-> <<>>]
    /\ steady = IF plan.pages THEN LiveIn(base) ELSE {}

FindManyPage ==
    /\ pager.on
    /\ LET page == KeysetRead({RowOf(p) : p \in LiveIn(base)}, plan.sort, plan.lowest, plan.limit,
                              pager.dir, pager.cursor)
           items == [i \in DOMAIN page.items |-> page.items[i][IdColumn]]
       IN  pager' = IF pager.dir = "after"
                    THEN [pager EXCEPT
                            !.after = @ \o items,
                            !.on = items # <<>>,
                            !.dir = IF page.hasNextPage THEN @ ELSE "before",
                            !.turn = IF page.hasNextPage \/ items = <<>> THEN @ ELSE items[1],
                            !.cursor = IF page.hasNextPage THEN page.endCursor ELSE page.startCursor]
                    ELSE [pager EXCEPT
                            !.before = items \o @,
                            !.on = page.hasPrevPage,
                            !.cursor = page.startCursor]
    /\ UNCHANGED <<vars, steady>>

Writing == Next /\ steady' = steady \cap LiveIn(base') /\ UNCHANGED pager

PagingNext == Writing \/ FindManyPage
PagingSpec == PagingInit /\ [][PagingNext]_pagingVars
FairPaging == PagingSpec /\ \A f \in Flow : WF_pagingVars(Proceeds(f) /\ steady' = steady \cap LiveIn(base')
                                                                     /\ UNCHANGED pager)

-----------------------------------------------------------------------------
InOrder(seen) == \A i, j \in DOMAIN seen : i < j => Follows(seen[i], seen[j])

\* A walk reads every row that is there all along exactly once each way, in the order of the sort, whatever
\* comes and goes around it and wherever nulls sort: no page skips a row, none repeats one.
WalkSeesStable ==
    LET forth == pager.after
        back == pager.before
        reached == pager.dir = "before" \/ ~pager.on
        returned == pager.dir = "before" /\ ~pager.on
    IN  /\ InOrder(forth) /\ InOrder(back)
        /\ \A p \in steady : reached \/ (forth # <<>> /\ ~Follows(Last(forth), p)) => \E i \in DOMAIN forth : forth[i] = p
        /\ pager.turn # None =>
              \A p \in steady :
                  Follows(p, pager.turn) /\ (returned \/ (back # <<>> /\ ~Follows(p, Head(back))))
                  => \E i \in DOMAIN back : back[i] = p

\* A page is the rows next to its cursor, as many as it holds, and says there are more exactly when there are.
PageIsExact ==
    [][pager' # pager =>
        LET forth == pager.dir = "after"
            ahead == {p \in LiveIn(base) :
                        IF forth THEN pager.after = <<>> \/ Follows(Last(pager.after), p)
                        ELSE Follows(p, IF pager.before = <<>> THEN pager.turn ELSE Head(pager.before))}
            seen == IF forth THEN pager.after ELSE pager.before
            seenNext == IF forth THEN pager'.after ELSE pager'.before
            items == {p \in ahead : \E i \in DOMAIN seenNext : seenNext[i] = p}
        IN  /\ Len(seenNext) = Len(seen) + Cardinality(items)
            /\ \A p \in items, q \in ahead \ items : IF forth THEN Follows(p, q) ELSE Follows(q, p)
            /\ Cardinality(items) = IF Cardinality(ahead) < plan.limit THEN Cardinality(ahead) ELSE plan.limit
            /\ (IF forth THEN pager'.dir = "after" ELSE pager'.on) <=> Cardinality(ahead) > plan.limit]_pagingVars
=============================================================================
