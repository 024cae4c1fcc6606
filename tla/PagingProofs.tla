---------------------------- MODULE PagingProofs ----------------------------
(***************************************************************************)
(* Pages, over any rows and sort, and the walk that reads them.            *)
(*                                                                         *)
(* For a sort of any length over any columns, in any directions and with   *)
(* nulls placed or left to the engine: the rows the filter of a cursor     *)
(* finds are those the engine sorts after the cursor's row, and, read      *)
(* backward, those it sorts before it; and that order is total.  So a page *)
(* is the rows next to its cursor, and a walk that goes on from the last   *)
(* row of each skips none that stays and repeats none.                     *)
(***************************************************************************)
EXTENDS Paging, WellFoundedInduction, FiniteSetTheorems, SequenceTheorems, TLAPS

\* What a page may be asked to sort: some columns, of which one is the key.
Sort(columns) == {sort \in Seq(SortKey(columns)) : Pageable(sort)}

\* Rows of one table: no null in the key, and no two rows with the same.
Table(columns) ==
    {table \in SUBSET [columns -> Nat \cup {Null}] :
        /\ \A r \in table : r[IdColumn] # Null
        /\ \A q, r \in table : q[IdColumn] = r[IdColumn] => q = r}

Keys(sort, lowest) == TotalPrefix(PageOrder(sort, lowest))
Cursor(sort, lowest, row) == MintCursor(Keys(sort, lowest), row)

\* The filter of a cursor minted from `q` keeps `r`, reading forward or backward.
KeptAfter(sort, lowest, q, r) == KeysetClauses(Keys(sort, lowest), Cursor(sort, lowest, q), r)
KeptBefore(sort, lowest, q, r) == KeysetClauses(Inverted(Keys(sort, lowest)), Cursor(sort, lowest, q), r)

LEMMA LeastNatural ==
    ASSUME NEW S \in SUBSET Nat, S # {}
    PROVE  \E m \in S : \A k \in S : m <= k
<1>1. PICK m \in S : \A k \in S : ~ (<<k, m>> \in OpToRel(<, Nat))
      BY NatLessThanWellFounded, WFMin
<1>2. \A k \in S : ~ (k < m)
      BY <1>1 DEF OpToRel
<1> QED BY <1>2

-----------------------------------------------------------------------------
(***************************************************************************)
(* One key.                                                                *)
(***************************************************************************)
KeyOf(s, lowest) ==
    [key |-> s.key, desc |-> s.desc,
     nullsFirst |-> IF s.nulls = "unset" THEN s.desc # lowest ELSE s.nulls = "first",
     placed |-> s.nulls # "unset", nullable |-> s.key # IdColumn]

Back(k) == [k EXCEPT !.desc = ~@, !.nullsFirst = ~@]

LEMMA AheadIsStrict ==
    ASSUME NEW columns, NEW s \in SortKey(columns), NEW lowest \in BOOLEAN,
           NEW a \in Nat \cup {Null}, NEW b \in Nat \cup {Null}, a # b
    PROVE  Ahead(s, lowest, a, b) <=> ~ Ahead(s, lowest, b, a)
BY KeysetAssumption DEF Ahead, SortKey

LEMMA PastIsAhead ==
    ASSUME NEW columns, NEW s \in SortKey(columns), NEW lowest \in BOOLEAN,
           NEW v \in Nat \cup {Null}, NEW x \in Nat \cup {Null}, s.key = IdColumn => x # Null
    PROVE  /\ PastOf(KeyOf(s, lowest), v, x) <=> Ahead(s, lowest, v, x)
           /\ AtOrPastOf(KeyOf(s, lowest), v, x) <=> v = x \/ Ahead(s, lowest, v, x)
<1> DEFINE k == KeyOf(s, lowest)
           Agree == /\ PastOf(k, v, x) <=> Ahead(s, lowest, v, x)
                    /\ AtOrPastOf(k, v, x) <=> v = x \/ Ahead(s, lowest, v, x)
           first == IF s.nulls = "unset" THEN s.desc # lowest ELSE s.nulls = "first"
<1>1. s.desc \in BOOLEAN /\ s.nulls \in {"unset", "first", "last"}
      BY DEF SortKey
<1>2. (k.desc <=> s.desc) /\ (k.nullsFirst <=> first) /\ (k.nullable <=> s.key # IdColumn)
      BY <1>1 DEF KeyOf
<1> HIDE DEF k
<1>3. ASSUME v = Null, x = Null PROVE Agree
      BY <1>2, <1>3 DEF PastOf, AtOrPastOf, Ahead
<1>4. ASSUME v = Null, x # Null PROVE Agree
      BY <1>1, <1>2, <1>4 DEF PastOf, AtOrPastOf, Ahead
<1>5. ASSUME v # Null, x = Null PROVE Agree
      BY <1>1, <1>2, <1>5 DEF PastOf, AtOrPastOf, NullsAhead, Ahead
<1>6. ASSUME v \in Nat, x \in Nat PROVE Agree
      BY <1>1, <1>2, <1>6, KeysetAssumption DEF PastOf, AtOrPastOf, NullsAhead, Ahead
<1> QED BY <1>3, <1>4, <1>5, <1>6 DEF k

LEMMA BackIsAhead ==
    ASSUME NEW columns, NEW s \in SortKey(columns), NEW lowest \in BOOLEAN,
           NEW v \in Nat \cup {Null}, NEW x \in Nat \cup {Null}, s.key = IdColumn => x # Null
    PROVE  /\ PastOf(Back(KeyOf(s, lowest)), v, x) <=> Ahead(s, lowest, x, v)
           /\ AtOrPastOf(Back(KeyOf(s, lowest)), v, x) <=> v = x \/ Ahead(s, lowest, x, v)
<1> DEFINE k == Back(KeyOf(s, lowest))
           Agree == /\ PastOf(k, v, x) <=> Ahead(s, lowest, x, v)
                    /\ AtOrPastOf(k, v, x) <=> v = x \/ Ahead(s, lowest, x, v)
           first == IF s.nulls = "unset" THEN s.desc # lowest ELSE s.nulls = "first"
<1>1. s.desc \in BOOLEAN /\ s.nulls \in {"unset", "first", "last"}
      BY DEF SortKey
<1>2. (k.desc <=> ~ s.desc) /\ (k.nullsFirst <=> ~ first) /\ (k.nullable <=> s.key # IdColumn)
      BY <1>1 DEF KeyOf, Back
<1> HIDE DEF k
<1>3. ASSUME v = Null, x = Null PROVE Agree
      BY <1>2, <1>3 DEF PastOf, AtOrPastOf, Ahead
<1>4. ASSUME v = Null, x # Null PROVE Agree
      BY <1>1, <1>2, <1>4 DEF PastOf, AtOrPastOf, Ahead
<1>5. ASSUME v # Null, x = Null PROVE Agree
      BY <1>1, <1>2, <1>5 DEF PastOf, AtOrPastOf, NullsAhead, Ahead
<1>6. ASSUME v \in Nat, x \in Nat PROVE Agree
      BY <1>1, <1>2, <1>6, KeysetAssumption DEF PastOf, AtOrPastOf, NullsAhead, Ahead
<1> QED BY <1>3, <1>4, <1>5, <1>6 DEF k

-----------------------------------------------------------------------------
(***************************************************************************)
(* The prefix that is total.                                               *)
(***************************************************************************)
LEMMA PrefixIsTotal ==
    ASSUME NEW columns, NEW sort \in Sort(columns), NEW lowest \in BOOLEAN
    PROVE  \E n \in DOMAIN sort :
              /\ sort[n].key = IdColumn
              /\ Keys(sort, lowest) = [i \in 1..n |-> KeyOf(sort[i], lowest)]
              /\ Len(Keys(sort, lowest)) = n
<1> DEFINE order == PageOrder(sort, lowest)
           ids == {i \in DOMAIN sort : sort[i].key = IdColumn}
           IsFirst(i) == order[i].key = IdColumn /\ \A j \in 1..(i - 1) : order[j].key # IdColumn
           n == CHOOSE i \in DOMAIN order : IsFirst(i)
<1>1. DOMAIN sort = 1..Len(sort) /\ Len(sort) \in Nat /\ \A i \in DOMAIN sort : sort[i] \in SortKey(columns)
      BY DEF Sort
<1>2. order = [i \in 1..Len(sort) |-> KeyOf(sort[i], lowest)]
      BY <1>1 DEF PageOrder, KeyOf
<1>3. \A i \in DOMAIN sort : order[i].key = sort[i].key
      BY <1>1, <1>2 DEF KeyOf
<1>4. ids # {} /\ ids \subseteq Nat
      BY <1>1 DEF Sort, Pageable
<1>5. \E m \in ids : \A k \in ids : m <= k
      BY <1>4, LeastNatural
<1>6. \E i \in DOMAIN order : IsFirst(i)
  <2>1. PICK m \in ids : \A k \in ids : m <= k
        BY <1>5
  <2>2. m \in DOMAIN order /\ order[m].key = IdColumn
        BY <1>1, <1>2, <1>3, <2>1
  <2>3. ASSUME NEW j \in 1..(m - 1) PROVE order[j].key # IdColumn
        BY <1>1, <1>3, <2>1
  <2> QED BY <2>2, <2>3
<1>7. n \in DOMAIN order /\ IsFirst(n)
      BY <1>6
<1> HIDE DEF n
<1>8. n \in 1..Len(sort) /\ sort[n].key = IdColumn
      BY <1>1, <1>2, <1>3, <1>7
<1>9. Keys(sort, lowest) = SubSeq(order, 1, n)
      BY DEF Keys, TotalPrefix, n
<1>10. order \in Seq({KeyOf(sort[i], lowest) : i \in 1..Len(sort)}) /\ Len(order) = Len(sort)
       BY <1>1, <1>2
<1>11. SubSeq(order, 1, n) = [i \in 1..n |-> order[i]]
       BY <1>8, <1>10
<1>12. Keys(sort, lowest) = [i \in 1..n |-> KeyOf(sort[i], lowest)]
       BY <1>2, <1>8, <1>9, <1>11
<1> QED BY <1>1, <1>8, <1>12

-----------------------------------------------------------------------------
(***************************************************************************)
(* The chain: of keys 1..n, `same` are those on which two rows are equal,  *)
(* `ahead` those on which the first is ahead.                              *)
(***************************************************************************)
LEMMA ChainIsLexicographic ==
    ASSUME NEW n \in Nat, NEW same \in SUBSET (1..n), NEW ahead \in SUBSET (1..n), same \cap ahead = {}
    PROVE  (\E i \in ahead : \A j \in 1..i : j = n \/ j \in same \cup ahead)
               <=> (\E i \in ahead : \A j \in 1..(i - 1) : j \in same)
<1>1. ASSUME NEW i \in ahead, \A j \in 1..i : j = n \/ j \in same \cup ahead
      PROVE  \E m \in ahead : \A j \in 1..(m - 1) : j \in same
  <2> DEFINE others == {j \in 1..i : j \notin same}
  <2>1. i \in others /\ others \in SUBSET Nat
        OBVIOUS
  <2>2. PICK m \in others : \A k \in others : m <= k
        BY <2>1, LeastNatural
  <2>3. m \in ahead
        BY <1>1, <2>1, <2>2
  <2>4. \A j \in 1..(m - 1) : j \in same
        BY <2>2
  <2> QED BY <2>3, <2>4
<1>2. ASSUME NEW i \in ahead, \A j \in 1..(i - 1) : j \in same
      PROVE  \A j \in 1..i : j = n \/ j \in same \cup ahead
      BY <1>2
<1> QED BY <1>1, <1>2

LEMMA OrderWithinPrefix ==
    ASSUME NEW columns, IdColumn \in columns, NEW sort \in Sort(columns), NEW lowest \in BOOLEAN,
           NEW table \in Table(columns), NEW q \in table, NEW r \in table,
           NEW n \in DOMAIN sort, sort[n].key = IdColumn
    PROVE  Before(sort, lowest, q, r)
               <=> \E i \in 1..n : /\ Ahead(sort[i], lowest, q[sort[i].key], r[sort[i].key])
                                   /\ \A j \in 1..(i - 1) : q[sort[j].key] = r[sort[j].key]
<1>1. DOMAIN sort = 1..Len(sort) /\ Len(sort) \in Nat
      BY DEF Sort
<1>2. ASSUME NEW i \in DOMAIN sort, Ahead(sort[i], lowest, q[sort[i].key], r[sort[i].key]),
             \A j \in 1..(i - 1) : q[sort[j].key] = r[sort[j].key]
      PROVE  i \in 1..n
  <2>1. q # r
        BY <1>2 DEF Ahead
  <2>2. q[IdColumn] # r[IdColumn]
        BY <2>1 DEF Table
  <2>3. ~ (n \in 1..(i - 1))
        BY <1>2, <2>2
  <2> QED BY <1>1, <2>3
<1>3. 1..n \subseteq DOMAIN sort
      BY <1>1
<1> QED BY <1>2, <1>3 DEF Before

AgreeOn(keys, sort, lowest, q, r, a, b, i) ==
    LET k == sort[i].key
        past == Ahead(sort[i], lowest, a[k], b[k])
    IN  /\ PastOf(keys[i], q[k], r[k]) <=> past
        /\ AtOrPastOf(keys[i], q[k], r[k]) <=> q[k] = r[k] \/ past

Agree(keys, cursor, sort, lowest, q, r, a, b, n) ==
    /\ sort[n].key = IdColumn
    /\ DOMAIN keys = 1..n /\ Len(keys) = n
    /\ \A i \in 1..n : /\ keys[i].key = sort[i].key
                      /\ cursor[i] = q[sort[i].key]
                      /\ AgreeOn(keys, sort, lowest, q, r, a, b, i)

\* Filter and order agree once they agree key by key; `a` and `b` are the cursor's row and the row read, or the
\* other way round.
LEMMA ClausesAreOrder ==
    ASSUME NEW columns, IdColumn \in columns, NEW sort \in Sort(columns), NEW lowest \in BOOLEAN,
           NEW table \in Table(columns), NEW q \in table, NEW r \in table, NEW a \in table, NEW b \in table,
           {a, b} = {q, r},
           NEW keys, NEW cursor, NEW n \in DOMAIN sort, Agree(keys, cursor, sort, lowest, q, r, a, b, n)
    PROVE  KeysetClauses(keys, cursor, r) <=> Before(sort, lowest, a, b)
<1> USE DEF Agree
<1> DEFINE same == {i \in 1..n : q[sort[i].key] = r[sort[i].key]}
           ahead == {i \in 1..n : Ahead(sort[i], lowest, a[sort[i].key], b[sort[i].key])}
<1>1. n \in Nat
      BY DEF Sort
<1>2. same \in SUBSET (1..n) /\ ahead \in SUBSET (1..n)
      OBVIOUS
<1>3. same \cap ahead = {}
      BY DEF Ahead
<1>4. ASSUME NEW i \in 1..n
      PROVE  /\ PastOf(keys[i], cursor[i], r[keys[i].key]) <=> i \in ahead
             /\ AtOrPastOf(keys[i], cursor[i], r[keys[i].key]) <=> i \in same \cup ahead
      BY DEF AgreeOn
<1>5. \A i \in 1..n : a[sort[i].key] = b[sort[i].key] <=> i \in same
      OBVIOUS
<1>6. Before(sort, lowest, a, b) <=> \E i \in ahead : \A j \in 1..(i - 1) : j \in same
  <2>1. Before(sort, lowest, a, b)
            <=> \E i \in 1..n : /\ Ahead(sort[i], lowest, a[sort[i].key], b[sort[i].key])
                                /\ \A j \in 1..(i - 1) : a[sort[j].key] = b[sort[j].key]
        BY OrderWithinPrefix
  <2>2. \A i \in 1..n, j \in Int : j \in 1..(i - 1) => j \in 1..n
        BY <1>1
  <2> QED BY <2>1, <2>2, <1>5
<1> HIDE DEF same, ahead
<1>7. KeysetClauses(keys, cursor, r) <=> \E i \in ahead : \A j \in 1..i : j = n \/ j \in same \cup ahead
      BY <1>1, <1>2, <1>4 DEF KeysetClauses
<1> QED BY <1>1, <1>2, <1>3, <1>6, <1>7, ChainIsLexicographic

LEMMA KeyTypes ==
    ASSUME NEW columns, NEW sort \in Sort(columns), NEW i \in DOMAIN sort,
           NEW table \in Table(columns), NEW r \in table
    PROVE  /\ sort[i] \in SortKey(columns)
           /\ r[sort[i].key] \in Nat \cup {Null}
           /\ sort[i].key = IdColumn => r[sort[i].key] # Null
<1>1. sort[i] \in SortKey(columns)
      BY DEF Sort
<1> QED BY <1>1 DEF SortKey, Table

\* Past a cursor is after its row: no row is skipped and none is read again, whatever ties and nulls there are.
THEOREM FilterReadsOn ==
    ASSUME NEW columns, IdColumn \in columns, NEW sort \in Sort(columns), NEW lowest \in BOOLEAN,
           NEW table \in Table(columns), NEW q \in table, NEW r \in table
    PROVE  KeptAfter(sort, lowest, q, r) <=> Before(sort, lowest, q, r)
<1> DEFINE keys == Keys(sort, lowest)
<1>1. PICK n \in DOMAIN sort : /\ sort[n].key = IdColumn
                               /\ keys = [i \in 1..n |-> KeyOf(sort[i], lowest)]
                               /\ Len(keys) = n
      BY PrefixIsTotal
<1>2. n \in Nat /\ 1..n \subseteq DOMAIN sort
      BY DEF Sort
<1>3. \A i \in 1..n : keys[i].key = sort[i].key /\ Cursor(sort, lowest, q)[i] = q[sort[i].key]
      BY <1>1 DEF Cursor, MintCursor, KeyOf
<1>4. ASSUME NEW i \in 1..n
      PROVE  AgreeOn(keys, sort, lowest, q, r, q, r, i)
  <2>1. keys[i] = KeyOf(sort[i], lowest)
        BY <1>1
  <2>2. /\ sort[i] \in SortKey(columns)
        /\ q[sort[i].key] \in Nat \cup {Null} /\ r[sort[i].key] \in Nat \cup {Null}
        /\ sort[i].key = IdColumn => r[sort[i].key] # Null
        BY <1>2, KeyTypes
  <2> HIDE DEF keys
  <2> QED BY <2>1, <2>2, PastIsAhead DEF AgreeOn
<1>5. DOMAIN keys = 1..n /\ Len(keys) = n
      BY <1>1
<1> HIDE DEF keys
<1>6. KeysetClauses(keys, Cursor(sort, lowest, q), r) <=> Before(sort, lowest, q, r)
  <2>1. Agree(keys, Cursor(sort, lowest, q), sort, lowest, q, r, q, r, n)
        BY <1>1, <1>3, <1>4, <1>5 DEF Agree
  <2> QED BY <2>1, ClausesAreOrder
<1> QED BY <1>6 DEF KeptAfter, keys

\* And with the order inverted it is before its row, so a page read backward ends right where its cursor is.
THEOREM FilterReadsBack ==
    ASSUME NEW columns, IdColumn \in columns, NEW sort \in Sort(columns), NEW lowest \in BOOLEAN,
           NEW table \in Table(columns), NEW q \in table, NEW r \in table
    PROVE  KeptBefore(sort, lowest, q, r) <=> Before(sort, lowest, r, q)
<1> DEFINE keys == Inverted(Keys(sort, lowest))
<1>1. PICK n \in DOMAIN sort : /\ sort[n].key = IdColumn
                               /\ Keys(sort, lowest) = [i \in 1..n |-> KeyOf(sort[i], lowest)]
                               /\ Len(Keys(sort, lowest)) = n
      BY PrefixIsTotal
<1>2. n \in Nat /\ 1..n \subseteq DOMAIN sort
      BY DEF Sort
<1>3. keys = [i \in 1..n |-> Back(KeyOf(sort[i], lowest))]
      BY <1>1 DEF Inverted, Back
<1>4. \A i \in 1..n : keys[i].key = sort[i].key /\ Cursor(sort, lowest, q)[i] = q[sort[i].key]
  <2>1. ASSUME NEW i \in 1..n PROVE keys[i].key = sort[i].key
    <3>1. keys[i] = Back(KeyOf(sort[i], lowest))
          BY <1>3
    <3> HIDE DEF keys
    <3> QED BY <3>1 DEF KeyOf, Back
  <2>2. \A i \in 1..n : Cursor(sort, lowest, q)[i] = q[sort[i].key]
        BY <1>1 DEF Cursor, MintCursor, KeyOf
  <2> QED BY <2>1, <2>2
<1>5. ASSUME NEW i \in 1..n
      PROVE  AgreeOn(keys, sort, lowest, q, r, r, q, i)
  <2>1. keys[i] = Back(KeyOf(sort[i], lowest))
        BY <1>3
  <2>2. /\ sort[i] \in SortKey(columns)
        /\ q[sort[i].key] \in Nat \cup {Null} /\ r[sort[i].key] \in Nat \cup {Null}
        /\ sort[i].key = IdColumn => r[sort[i].key] # Null
        BY <1>2, KeyTypes
  <2> HIDE DEF keys
  <2> QED BY <2>1, <2>2, BackIsAhead DEF AgreeOn
<1>6. DOMAIN keys = 1..n /\ Len(keys) = n
      BY <1>2, <1>3
<1> HIDE DEF keys
<1>7. KeysetClauses(keys, Cursor(sort, lowest, q), r) <=> Before(sort, lowest, r, q)
  <2>1. Agree(keys, Cursor(sort, lowest, q), sort, lowest, q, r, r, q, n)
        BY <1>1, <1>4, <1>5, <1>6 DEF Agree
  <2> QED BY <2>1, ClausesAreOrder
<1> QED BY <1>7 DEF KeptBefore, keys

-----------------------------------------------------------------------------
(***************************************************************************)
(* The order itself.                                                       *)
(***************************************************************************)
LEMMA AheadIsTransitive ==
    ASSUME NEW columns, NEW s \in SortKey(columns), NEW lowest \in BOOLEAN,
           NEW a \in Nat \cup {Null}, NEW b \in Nat \cup {Null}, NEW c \in Nat \cup {Null},
           Ahead(s, lowest, a, b), Ahead(s, lowest, b, c)
    PROVE  Ahead(s, lowest, a, c)
<1>1. s.desc \in BOOLEAN /\ s.nulls \in {"unset", "first", "last"}
      BY DEF SortKey
<1>2. a # Null \/ c # Null
      BY <1>1, KeysetAssumption DEF Ahead
<1> QED BY <1>1, <1>2, KeysetAssumption DEF Ahead

\* Where two rows first differ.
DiffersAt(sort, q, r, i) ==
    /\ q[sort[i].key] # r[sort[i].key]
    /\ \A j \in 1..(i - 1) : q[sort[j].key] = r[sort[j].key]

LEMMA RowsDiffer ==
    ASSUME NEW columns, IdColumn \in columns, NEW sort \in Sort(columns),
           NEW table \in Table(columns), NEW q \in table, NEW r \in table, q # r
    PROVE  \E i \in DOMAIN sort : DiffersAt(sort, q, r, i)
<1> DEFINE others == {i \in DOMAIN sort : q[sort[i].key] # r[sort[i].key]}
<1>1. DOMAIN sort = 1..Len(sort) /\ Len(sort) \in Nat
      BY DEF Sort
<1>2. PICK n \in DOMAIN sort : sort[n].key = IdColumn
      BY DEF Sort, Pageable
<1>3. n \in others /\ others \in SUBSET Nat
      BY <1>1, <1>2 DEF Table
<1>4. PICK m \in others : \A k \in others : m <= k
      BY <1>3, LeastNatural
<1>5. \A j \in 1..(m - 1) : q[sort[j].key] = r[sort[j].key]
      BY <1>1, <1>4
<1> QED BY <1>4, <1>5 DEF DiffersAt

LEMMA FirstDifferenceDecides ==
    ASSUME NEW columns, NEW sort \in Sort(columns), NEW lowest \in BOOLEAN, NEW q, NEW r,
           NEW i \in DOMAIN sort, DiffersAt(sort, q, r, i)
    PROVE  Before(sort, lowest, q, r) <=> Ahead(sort[i], lowest, q[sort[i].key], r[sort[i].key])
<1>1. DOMAIN sort = 1..Len(sort) /\ Len(sort) \in Nat
      BY DEF Sort
<1>2. ASSUME NEW k \in DOMAIN sort, Ahead(sort[k], lowest, q[sort[k].key], r[sort[k].key]),
             \A j \in 1..(k - 1) : q[sort[j].key] = r[sort[j].key]
      PROVE  k = i
  <2>1. q[sort[k].key] # r[sort[k].key]
        BY <1>2 DEF Ahead
  <2> QED BY <1>1, <1>2, <2>1 DEF DiffersAt
<1> QED BY <1>1, <1>2 DEF Before, DiffersAt

\* Of two rows exactly one comes first, so each page has one next row and one row before it.
THEOREM OrderIsTotal ==
    ASSUME NEW columns, IdColumn \in columns, NEW sort \in Sort(columns), NEW lowest \in BOOLEAN,
           NEW table \in Table(columns), NEW q \in table, NEW r \in table, q # r
    PROVE  Before(sort, lowest, q, r) <=> ~ Before(sort, lowest, r, q)
<1>1. PICK i \in DOMAIN sort : DiffersAt(sort, q, r, i)
      BY RowsDiffer
<1>2. DiffersAt(sort, r, q, i)
      BY <1>1 DEF DiffersAt
<1>3. /\ sort[i] \in SortKey(columns)
      /\ q[sort[i].key] \in Nat \cup {Null} /\ r[sort[i].key] \in Nat \cup {Null}
      BY KeyTypes
<1>4. Before(sort, lowest, q, r) <=> Ahead(sort[i], lowest, q[sort[i].key], r[sort[i].key])
      BY <1>1, FirstDifferenceDecides
<1>5. Before(sort, lowest, r, q) <=> Ahead(sort[i], lowest, r[sort[i].key], q[sort[i].key])
      BY <1>2, FirstDifferenceDecides
<1>6. q[sort[i].key] # r[sort[i].key]
      BY <1>1 DEF DiffersAt
<1>7. \A a, b \in Nat \cup {Null} : a # b => (Ahead(sort[i], lowest, a, b) <=> ~ Ahead(sort[i], lowest, b, a))
      BY <1>3, AheadIsStrict
<1> QED BY <1>3, <1>4, <1>5, <1>6, <1>7

\* What follows a row that follows the cursor follows the cursor: a walk that goes on from the last row of a
\* page leaves nothing behind it.
THEOREM OrderIsTransitive ==
    ASSUME NEW columns, IdColumn \in columns, NEW sort \in Sort(columns), NEW lowest \in BOOLEAN,
           NEW table \in Table(columns), NEW p \in table, NEW q \in table, NEW r \in table,
           Before(sort, lowest, p, q), Before(sort, lowest, q, r)
    PROVE  Before(sort, lowest, p, r)
<1>1. DOMAIN sort = 1..Len(sort) /\ Len(sort) \in Nat
      BY DEF Sort
<1>2. PICK i \in DOMAIN sort : /\ Ahead(sort[i], lowest, p[sort[i].key], q[sort[i].key])
                               /\ \A j \in 1..(i - 1) : p[sort[j].key] = q[sort[j].key]
      BY DEF Before
<1>3. PICK k \in DOMAIN sort : /\ Ahead(sort[k], lowest, q[sort[k].key], r[sort[k].key])
                               /\ \A j \in 1..(k - 1) : q[sort[j].key] = r[sort[j].key]
      BY DEF Before
<1>0. PICK m \in DOMAIN sort : m = IF i < k THEN i ELSE k
      OBVIOUS
<1>4. \A j \in 1..(m - 1) : p[sort[j].key] = r[sort[j].key]
  <2>1. \A j \in 1..(m - 1) : j \in 1..(i - 1) /\ j \in 1..(k - 1)
        BY <1>0, <1>1
  <2> QED BY <2>1, <1>2, <1>3
<1>5. /\ sort[m] \in SortKey(columns)
      /\ p[sort[m].key] \in Nat \cup {Null} /\ q[sort[m].key] \in Nat \cup {Null} /\ r[sort[m].key] \in Nat \cup {Null}
      BY KeyTypes
<1>6. Ahead(sort[m], lowest, p[sort[m].key], r[sort[m].key])
  <2>1. CASE i < k
    <3>1. m = i /\ q[sort[m].key] = r[sort[m].key]
          BY <1>0, <1>1, <1>3, <2>1
    <3> QED BY <1>2, <3>1
  <2>2. CASE k < i
    <3>1. m = k /\ p[sort[m].key] = q[sort[m].key]
          BY <1>0, <1>1, <1>2, <2>2
    <3> QED BY <1>3, <3>1
  <2>3. CASE i = k
    <3>1. m = i /\ m = k
          BY <1>0, <1>1, <2>3
    <3>2. /\ Ahead(sort[m], lowest, p[sort[m].key], q[sort[m].key])
          /\ Ahead(sort[m], lowest, q[sort[m].key], r[sort[m].key])
          BY <1>2, <1>3, <3>1
    <3> DEFINE a == p[sort[m].key]
               b == q[sort[m].key]
               c == r[sort[m].key]
    <3>3. /\ a \in Nat \cup {Null} /\ b \in Nat \cup {Null} /\ c \in Nat \cup {Null}
          /\ Ahead(sort[m], lowest, a, b) /\ Ahead(sort[m], lowest, b, c)
          BY <1>5, <3>2
    <3> HIDE DEF a, b, c
    <3>4. Ahead(sort[m], lowest, a, c)
          BY <1>5, <3>3, AheadIsTransitive
    <3> QED BY <3>4 DEF a, c
  <2> QED BY <1>1, <2>1, <2>2, <2>3
<1> QED BY <1>4, <1>6 DEF Before

Spelled(s) ==
    [key |-> s.key, desc |-> ~ s.desc,
     nulls |-> IF s.nulls = "unset" THEN "unset" ELSE IF s.nulls = "first" THEN "last" ELSE "first"]

LEMMA SpelledIsReversed ==
    ASSUME NEW columns, NEW s \in SortKey(columns), NEW lowest \in BOOLEAN,
           NEW a \in Nat \cup {Null}, NEW b \in Nat \cup {Null}
    PROVE  Ahead(Spelled(s), lowest, a, b) <=> Ahead(s, lowest, b, a)
<1> DEFINE k == Spelled(s)
           Reversed == Ahead(k, lowest, a, b) <=> Ahead(s, lowest, b, a)
<1>1. s.desc \in BOOLEAN /\ s.nulls \in {"unset", "first", "last"}
      BY DEF SortKey
<1>2. /\ k.desc \in BOOLEAN /\ (k.desc <=> ~ s.desc)
      /\ k.nulls = "unset" <=> s.nulls = "unset"
      /\ k.nulls = "first" <=> s.nulls = "last"
      /\ k.nulls = "last" <=> s.nulls = "first"
      BY <1>1 DEF Spelled
<1>3. (k.desc # lowest) <=> (s.desc = lowest)
      BY <1>1, <1>2
<1> HIDE DEF k
<1>4. ASSUME a = b PROVE Reversed
      BY <1>4 DEF Ahead
<1>5. ASSUME a # b, a = Null PROVE Reversed
      BY <1>1, <1>2, <1>3, <1>5 DEF Ahead
<1>6. ASSUME a # b, b = Null PROVE Reversed
      BY <1>1, <1>2, <1>3, <1>6 DEF Ahead
<1>7. ASSUME a # b, a \in Nat, b \in Nat PROVE Reversed
      BY <1>2, <1>7, KeysetAssumption DEF Ahead
<1> QED BY <1>4, <1>5, <1>6, <1>7 DEF k

\* The `$sort` a page back is read with is the one of the page, reversed, placed nulls and unplaced ones alike.
THEOREM BackwardReadIsReversed ==
    ASSUME NEW columns, NEW sort \in Sort(columns), NEW lowest \in BOOLEAN, NEW table \in Table(columns),
           NEW q \in table, NEW r \in table
    PROVE  Before(Spelling(Inverted(PageOrder(sort, lowest))), lowest, q, r) <=> Before(sort, lowest, r, q)
<1> DEFINE back == Spelling(Inverted(PageOrder(sort, lowest)))
<1>1. DOMAIN sort = 1..Len(sort) /\ Len(sort) \in Nat
      BY DEF Sort
<1>2. DOMAIN back = DOMAIN sort
      BY DEF Spelling, Inverted, PageOrder
<1>3. ASSUME NEW i \in DOMAIN sort PROVE back[i] = Spelled(sort[i])
  <2>1. sort[i].desc \in BOOLEAN /\ sort[i].nulls \in {"unset", "first", "last"}
        BY KeyTypes DEF SortKey
  <2>2. PageOrder(sort, lowest)[i] = KeyOf(sort[i], lowest)
        BY DEF PageOrder, KeyOf
  <2>3. DOMAIN PageOrder(sort, lowest) = DOMAIN sort
        BY DEF PageOrder
  <2>4. Inverted(PageOrder(sort, lowest))[i] = Back(KeyOf(sort[i], lowest))
        BY <2>2, <2>3 DEF Inverted, Back
  <2>5. DOMAIN Inverted(PageOrder(sort, lowest)) = DOMAIN sort
        BY <2>3 DEF Inverted
  <2> DEFINE k == Back(KeyOf(sort[i], lowest))
  <2>6. back[i] = [key |-> k.key, desc |-> k.desc,
                   nulls |-> IF ~ k.placed THEN "unset" ELSE IF k.nullsFirst THEN "first" ELSE "last"]
        BY <2>4, <2>5 DEF Spelling
  <2>7. /\ k.key = sort[i].key /\ k.desc = ~ sort[i].desc
        /\ k.placed <=> sort[i].nulls # "unset"
        /\ sort[i].nulls # "unset" => (k.nullsFirst <=> ~ (sort[i].nulls = "first"))
        BY <2>1 DEF Back, KeyOf
  <2> HIDE DEF k
  <2> QED BY <2>1, <2>6, <2>7 DEF Spelled
<1> HIDE DEF back
<1>4. ASSUME NEW i \in DOMAIN sort
      PROVE  /\ back[i].key = sort[i].key
             /\ Ahead(back[i], lowest, q[back[i].key], r[back[i].key])
                    <=> Ahead(sort[i], lowest, r[sort[i].key], q[sort[i].key])
  <2>1. /\ sort[i] \in SortKey(columns)
        /\ q[sort[i].key] \in Nat \cup {Null} /\ r[sort[i].key] \in Nat \cup {Null}
        BY KeyTypes
  <2>2. back[i].key = sort[i].key
    <3>1. back[i] = Spelled(sort[i])
          BY <1>3
    <3> QED BY <3>1 DEF Spelled
  <2>3. Ahead(Spelled(sort[i]), lowest, q[sort[i].key], r[sort[i].key])
            <=> Ahead(sort[i], lowest, r[sort[i].key], q[sort[i].key])
        BY <2>1, SpelledIsReversed
  <2> QED BY <1>3, <2>2, <2>3
<1>5. \A i \in DOMAIN sort, j \in Int : j \in 1..(i - 1) => j \in DOMAIN sort
      BY <1>1
<1> QED BY <1>2, <1>4, <1>5 DEF Before, back

-----------------------------------------------------------------------------
(***************************************************************************)
(* The first rows in an order.                                             *)
(***************************************************************************)
\* A strict order that decides between any two rows of a table.
Orders(found, sort, lowest) ==
    /\ \A q \in found : ~Before(sort, lowest, q, q)
    /\ \A q, r \in found : q # r => (Before(sort, lowest, q, r) <=> ~Before(sort, lowest, r, q))
    /\ \A p, q, r \in found : Before(sort, lowest, p, q) /\ Before(sort, lowest, q, r) => Before(sort, lowest, p, r)

\* ORDER BY and LIMIT give the first rows of such an order, in it.
LEMMA SortedRows ==
    ASSUME NEW found, IsFiniteSet(found), NEW sort, NEW lowest, Orders(found, sort, lowest), NEW n \in Nat
    PROVE  LET s == Sorted(found, sort, lowest, n)
           IN  /\ s \in Seq(found) /\ Len(s) = IF Cardinality(found) < n THEN Cardinality(found) ELSE n
               /\ \A i, j \in 1..Len(s) : i < j => Before(sort, lowest, s[i], s[j])
               /\ \A i \in 1..Len(s), r \in found : (\A j \in 1..Len(s) : s[j] # r) => Before(sort, lowest, s[i], r)
  <1> DEFINE N == Cardinality(found)
             below(r) == {q \in found : Before(sort, lowest, q, r)}
             rank == [r \in found |-> 1 + Cardinality(below(r))]
             m == IF N < n THEN N ELSE n
             s == Sorted(found, sort, lowest, n)
             B(q, r) == Before(sort, lowest, q, r)
  <1>1. N \in Nat /\ m \in Nat /\ m <= N
    BY FS_CardinalityType
  <1>2. \A q \in found : ~B(q, q)
    BY DEF Orders
  <1>3. \A q, r \in found : q # r => (B(q, r) <=> ~B(r, q))
    BY DEF Orders
  <1>4. \A p, q, r \in found : B(p, q) /\ B(q, r) => B(p, r)
    BY DEF Orders
  <1>5. s = [i \in 1..m |-> CHOOSE r \in found : 1 + Cardinality(below(r)) = i]
    BY DEF Sorted
  <1>6. \A r \in found : below(r) = {q \in found : B(q, r)}
    OBVIOUS
  <1> HIDE DEF B, below, N, m, s
  <1>7. \A r \in found : IsFiniteSet(below(r)) /\ Cardinality(below(r)) \in Nat
    BY <1>6, FS_Subset, FS_CardinalityType
  <1>8. ASSUME NEW r \in found
        PROVE  rank[r] \in 1..N
    <2>1. below(r) \subseteq found \ {r}
      BY <1>2, <1>6
    <2>2. IsFiniteSet(found \ {r}) /\ Cardinality(found \ {r}) = N - 1
      BY FS_RemoveElement DEF N
    <2>3. Cardinality(below(r)) <= N - 1
      BY <2>1, <2>2, FS_Subset
    <2> QED
      BY <1>1, <1>7, <2>3
  <1>9. ASSUME NEW q \in found, NEW r \in found, B(q, r)
        PROVE  rank[q] < rank[r]
    <2>1. below(q) \cup {q} \subseteq below(r)
      BY <1>4, <1>6, <1>9
    <2>2. q \notin below(q)
      BY <1>2, <1>6
    <2>3. IsFiniteSet(below(q) \cup {q}) /\ Cardinality(below(q) \cup {q}) = Cardinality(below(q)) + 1
      BY <1>7, <2>2, FS_AddElement
    <2>4. Cardinality(below(q) \cup {q}) <= Cardinality(below(r))
      BY <1>7, <2>1, FS_Subset
    <2> QED
      BY <1>7, <2>3, <2>4
  <1>10. rank \in Injection(found, 1..N)
    <2>1. rank \in [found -> 1..N]
      BY <1>8
    <2>2. \A q, r \in found : q # r => rank[q] # rank[r]
      <3>1. ASSUME NEW q \in found, NEW r \in found, q # r
            PROVE  rank[q] # rank[r]
        <4>1. B(q, r) \/ B(r, q)
          BY <1>3, <3>1
        <4>2. rank[q] \in Int /\ rank[r] \in Int
          BY <1>8
        <4> HIDE DEF rank
        <4> QED
          BY <1>9, <4>1, <4>2
      <3> QED
        BY <3>1
    <2> HIDE DEF rank
    <2> QED
      BY <2>1, <2>2 DEF Injection, IsInjective
  <1>11. rank \in Surjection(found, 1..N)
    <2>1. IsFiniteSet(1..N) /\ Cardinality(1..N) = N
      <3>1. 1 \in Int /\ N \in Int
        BY <1>1
      <3> QED
        BY <1>1, <3>1, FS_Interval
    <2> HIDE DEF rank
    <2> QED
      BY <1>10, <2>1, FS_Injection DEF N
  <1>12. \A i \in 1..N : \E r \in found : rank[r] = i
    <2> HIDE DEF rank
    <2> QED
      BY <1>11 DEF Surjection
  <1>13. \A i \in 1..m : s[i] \in found /\ rank[s[i]] = i
    <2> TAKE i \in 1..m
    <2>1. i \in 1..N
      BY <1>1
    <2>2. \E r \in found : 1 + Cardinality(below(r)) = i
      BY <1>12, <2>1
    <2>3. s[i] = CHOOSE r \in found : 1 + Cardinality(below(r)) = i
      BY <1>5
    <2>4. s[i] \in found /\ 1 + Cardinality(below(s[i])) = i
      BY <2>2, <2>3
    <2> QED
      BY <2>4
  <1> HIDE DEF rank
  <1>14. s \in Seq(found) /\ Len(s) = m
    <2>1. \A i \in 1..m : s[i] \in found
      BY <1>13
    <2> DEFINE pick(i) == CHOOSE r \in found : 1 + Cardinality(below(r)) = i
    <2>2. s = [i \in 1..m |-> pick(i)]
      BY <1>5
    <2> HIDE DEF pick
    <2>3. s \in [1..m -> found]
      BY <2>1, <2>2
    <2> QED
      BY <1>1, <2>3
  <1>15. ASSUME NEW i \in 1..m, NEW j \in 1..m, i < j
         PROVE  B(s[i], s[j])
    <2>1. s[i] # s[j]
      BY <1>1, <1>13, <1>15
    <2>2. ~B(s[j], s[i])
      <3>1. rank[s[j]] = j /\ rank[s[i]] = i /\ s[i] \in found /\ s[j] \in found
        BY <1>13
      <3> QED
        BY <1>1, <1>9, <1>15, <3>1
    <2> QED
      BY <1>3, <1>13, <2>1, <2>2
  <1>16. ASSUME NEW i \in 1..m, NEW r \in found, \A j \in 1..m : s[j] # r
         PROVE  B(s[i], r)
    <2>1. rank[r] \in 1..N
      BY <1>8
    <2>2. rank[r] \notin 1..m
      <3>1. SUFFICES ASSUME rank[r] \in 1..m PROVE FALSE
        OBVIOUS
      <3>2. s[rank[r]] \in found /\ rank[s[rank[r]]] = rank[r]
        BY <1>13, <3>1
      <3>3. s[rank[r]] = r
        <4>1. \A p, q \in found : rank[p] = rank[q] => p = q
          BY <1>10 DEF Injection, IsInjective
        <4> QED
          BY <3>2, <4>1
      <3> QED
        BY <1>16, <3>1, <3>3
    <2>3. rank[s[i]] = i /\ s[i] \in found
      BY <1>13
    <2>4. ~B(r, s[i])
      BY <1>1, <1>9, <2>1, <2>2, <2>3
    <2>5. s[i] # r
      BY <1>16
    <2> QED
      BY <1>3, <2>3, <2>4, <2>5
  <1> QED
    BY <1>14, <1>15, <1>16 DEF s, m, N, B

-----------------------------------------------------------------------------
(***************************************************************************)
(* A page.                                                                 *)
(***************************************************************************)
LEMMA TableOrders ==
    ASSUME NEW columns, IdColumn \in columns, NEW sort \in Sort(columns), NEW lowest \in BOOLEAN,
           NEW table \in Table(columns), NEW found \in SUBSET table
    PROVE  /\ Orders(found, sort, lowest)
           /\ Orders(found, Spelling(Inverted(PageOrder(sort, lowest))), lowest)
  <1> DEFINE back == Spelling(Inverted(PageOrder(sort, lowest)))
             B(q, r) == Before(sort, lowest, q, r)
  <1>1. \A q \in found : ~B(q, q)
    BY DEF Before, Ahead
  <1>2. \A q, r \in found : q # r => (B(q, r) <=> ~B(r, q))
    BY OrderIsTotal
  <1>3. \A p, q, r \in found : B(p, q) /\ B(q, r) => B(p, r)
    BY OrderIsTransitive
  <1>4. \A q, r \in found : Before(back, lowest, q, r) <=> B(r, q)
    BY BackwardReadIsReversed
  <1> HIDE DEF back
  <1>5. Orders(found, sort, lowest)
    BY <1>1, <1>2, <1>3 DEF Orders
  <1> HIDE DEF B
  <1> QED
    BY <1>1, <1>2, <1>3, <1>4, <1>5 DEF Orders, back

\* The rows a page is read from: those past its cursor, or all of them.
Past(found, sort, lowest, dir, cursor) ==
    LET keys == Keys(sort, lowest)
    IN  {r \in found : cursor # NoCursor =>
                          KeysetClauses(IF dir = "before" THEN Inverted(keys) ELSE keys, cursor, r)}

\* What a page of `limit` rows of `past` is: as many as there are up to the limit, in order, and none left out
\* between them and where the page was read from.
IsPage(items, past, sort, lowest, limit, dir) ==
    /\ items \in Seq(past) /\ Len(items) = IF Cardinality(past) < limit THEN Cardinality(past) ELSE limit
    /\ \A i, j \in 1..Len(items) : i < j => Before(sort, lowest, items[i], items[j])
    /\ \A i \in 1..Len(items), r \in past :
          (\A j \in 1..Len(items) : items[j] # r) =>
              IF dir = "before" THEN Before(sort, lowest, r, items[i]) ELSE Before(sort, lowest, items[i], r)

ReadsPage(page, past, sort, lowest, limit, dir) ==
    /\ page.hasNextPage \in BOOLEAN /\ page.hasPrevPage \in BOOLEAN
    /\ IsPage(page.items, past, sort, lowest, limit, dir)
    /\ dir # "before" => (page.hasNextPage <=> Cardinality(past) > limit)
    /\ dir = "before" => (page.hasPrevPage <=> Cardinality(past) > limit)
    /\ page.items # <<>> => /\ page.startCursor = Cursor(sort, lowest, page.items[1])
                            /\ page.endCursor = Cursor(sort, lowest, page.items[Len(page.items)])

LEMMA PageRows ==
    ASSUME NEW columns, IdColumn \in columns, NEW sort \in Sort(columns), NEW lowest \in BOOLEAN,
           NEW table \in Table(columns), NEW found \in SUBSET table, IsFiniteSet(found),
           NEW limit \in Nat \ {0}, NEW dir, NEW cursor
    PROVE  ReadsPage(KeysetRead(found, sort, lowest, limit, dir, cursor), Past(found, sort, lowest, dir, cursor),
                     sort, lowest, limit, dir)
  <1> DEFINE page == KeysetRead(found, sort, lowest, limit, dir, cursor)
             past == Past(found, sort, lowest, dir, cursor)
             used == IF dir = "before" THEN Spelling(Inverted(PageOrder(sort, lowest))) ELSE sort
             read == Sorted(past, used, lowest, limit + 1)
             more == Len(read) > limit
             kept == SubSeq(read, 1, IF more THEN limit ELSE Len(read))
             items == IF dir = "before" THEN Reverse(kept) ELSE kept
             N == Cardinality(past)
             n == IF N < limit THEN N ELSE limit
  <1>1. past \subseteq found /\ IsFiniteSet(past) /\ N \in Nat
    BY FS_Subset, FS_CardinalityType DEF Past
  <1>2. past \in SUBSET table
    BY <1>1
  <1>3. page = [items |-> items,
                hasNextPage |-> dir = "before" \/ more,
                hasPrevPage |-> IF dir = "before" THEN more ELSE cursor # NoCursor,
                startCursor |-> IF items = <<>> THEN NoCursor ELSE Cursor(sort, lowest, items[1]),
                endCursor |-> IF items = <<>> THEN NoCursor ELSE Cursor(sort, lowest, items[Len(items)])]
    BY DEF KeysetRead, Past, Keys, Cursor, Last
  <1>4. Orders(past, used, lowest)
    <2> HIDE DEF past
    <2> QED
      BY <1>2, TableOrders
  <1>5. /\ read \in Seq(past) /\ Len(read) = IF N < limit + 1 THEN N ELSE limit + 1
        /\ \A i, j \in 1..Len(read) : i < j => Before(used, lowest, read[i], read[j])
        /\ \A i \in 1..Len(read), r \in past : (\A j \in 1..Len(read) : read[j] # r) => Before(used, lowest, read[i], r)
    <2>1. limit + 1 \in Nat
      OBVIOUS
    <2> HIDE DEF past, used
    <2> QED
      BY <1>1, <1>4, <2>1, SortedRows
  <1>6. \A q, r \in past : Before(used, lowest, q, r) <=> IF dir = "before" THEN Before(sort, lowest, r, q) ELSE Before(sort, lowest, q, r)
    <2>1. \A q, r \in past : Before(Spelling(Inverted(PageOrder(sort, lowest))), lowest, q, r) <=> Before(sort, lowest, r, q)
      <3> HIDE DEF past
      <3> QED
        BY <1>2, BackwardReadIsReversed
    <2> HIDE DEF past
    <2> QED
      BY <2>1
  <1> HIDE DEF past, used, read, N, page
  <1>7. (more <=> N > limit) /\ (IF more THEN limit ELSE Len(read)) = n /\ n <= Len(read) /\ n \in Nat
    BY <1>1, <1>5
  <1>8. kept = [i \in 1..n |-> read[i]]
    BY <1>5, <1>7
  <1>9. kept \in Seq(past) /\ Len(kept) = n /\ \A i \in 1..n : kept[i] = read[i] /\ i \in 1..Len(read)
    BY <1>5, <1>7, <1>8
  <1>10. \A i, j \in 1..n : i < j => Before(used, lowest, kept[i], kept[j])
    BY <1>5, <1>9
  <1>11. \A i \in 1..n, r \in past : (\A j \in 1..n : kept[j] # r) => Before(used, lowest, kept[i], r)
    <2> TAKE i \in 1..n, r \in past
    <2> HAVE \A j \in 1..n : kept[j] # r
    <2>1. CASE \A j \in 1..Len(read) : read[j] # r
      BY <1>5, <1>9, <2>1
    <2>2. CASE \E j \in 1..Len(read) : read[j] = r
      <3>1. PICK j \in 1..Len(read) : read[j] = r
        BY <2>2
      <3>2. j \notin 1..n
        BY <1>9, <3>1
      <3>3. i < j
        BY <1>5, <1>7, <3>2
      <3> QED
        BY <1>5, <1>9, <3>1, <3>3
    <2> QED
      BY <2>1, <2>2
  <1>n. n = IF N < limit THEN N ELSE limit
    OBVIOUS
  <1> HIDE DEF kept, n, more
  <1>12. IsPage(items, past, sort, lowest, limit, dir)
    <2>1. CASE dir = "before"
      <3>1. items = [i \in 1..n |-> kept[(n - i) + 1]]
        BY <1>9, <2>1 DEF Reverse
      <3>2. \A i \in 1..n : (n - i) + 1 \in 1..n
        BY <1>7
      <3>3. \A i \in 1..n : kept[i] \in past
        BY <1>9
      <3> HIDE DEF items
      <3>4. items \in Seq(past) /\ Len(items) = n /\ \A i \in 1..n : items[i] = kept[(n - i) + 1]
        BY <1>7, <3>1, <3>2, <3>3
      <3>5. \A i, j \in 1..n : i < j => Before(sort, lowest, items[i], items[j])
        <4> TAKE i \in 1..n, j \in 1..n
        <4> HAVE i < j
        <4>1. Before(used, lowest, kept[(n - j) + 1], kept[(n - i) + 1])
          <5>1. (n - j) + 1 \in 1..n /\ (n - i) + 1 \in 1..n /\ (n - j) + 1 < (n - i) + 1
            BY <1>7, <3>2
          <5> QED
            BY <1>10, <5>1
        <4> QED
          BY <1>6, <2>1, <3>2, <3>3, <3>4, <4>1
      <3>6. \A i \in 1..n, r \in past : (\A j \in 1..n : items[j] # r) => Before(sort, lowest, r, items[i])
        <4> TAKE i \in 1..n, r \in past
        <4> HAVE \A j \in 1..n : items[j] # r
        <4>1. \A j \in 1..n : kept[j] # r
          <5> TAKE j \in 1..n
          <5>1. (n - j) + 1 \in 1..n /\ (n - ((n - j) + 1)) + 1 = j
            BY <1>7
          <5> QED
            BY <3>4, <5>1
        <4>2. Before(used, lowest, kept[(n - i) + 1], r)
          BY <1>11, <3>2, <4>1
        <4> QED
          BY <1>6, <2>1, <3>2, <3>3, <3>4, <4>2
      <3> QED
        BY <2>1, <3>4, <3>5, <3>6, <1>n DEF IsPage, N
    <2>2. CASE dir # "before"
      <3>1. items = kept
        BY <2>2
      <3>2. \A i \in 1..n : kept[i] \in past
        BY <1>9
      <3> HIDE DEF items
      <3> QED
        BY <1>6, <1>9, <1>10, <1>11, <2>2, <3>1, <3>2, <1>n DEF IsPage, N
    <2> QED
      BY <2>1, <2>2
  <1> HIDE DEF items
  <1>13. /\ page.items = items /\ page.hasNextPage \in BOOLEAN /\ page.hasPrevPage \in BOOLEAN
         /\ dir # "before" => (page.hasNextPage <=> more)
         /\ dir = "before" => (page.hasPrevPage <=> more)
         /\ items # <<>> => /\ page.startCursor = Cursor(sort, lowest, items[1])
                           /\ page.endCursor = Cursor(sort, lowest, items[Len(items)])
    <2>1. more \in BOOLEAN
      BY DEF more
    <2> QED
      BY <1>3, <2>1
  <1>14. more <=> N > limit
    BY <1>7
  <1> QED
    BY <1>12, <1>13, <1>14 DEF ReadsPage, page, past, N

-----------------------------------------------------------------------------
(***************************************************************************)
(* The rows of the walk.                                                   *)
(***************************************************************************)
RowColumns == {IdColumn, "col"}
RowTable == {RowOf(p) : p \in Parent}
CursorOf(p) == Cursor(plan.sort, plan.lowest, RowOf(p))

LEMMA RowsOfParents ==
    ASSUME plan \in Plan, plan.pages
    PROVE  /\ plan.sort \in Sort(RowColumns) /\ plan.lowest \in BOOLEAN /\ plan.limit \in Nat \ {0}
           /\ RowTable \in Table(RowColumns)
           /\ \A p \in Parent : RowOf(p) \in RowTable /\ RowOf(p)[IdColumn] = p
  <1>1. /\ plan.sort \in Sort(RowColumns) /\ plan.lowest \in BOOLEAN /\ plan.limit \in Nat \ {0}
        /\ plan.col \in [Parent -> Nat \cup {Null}] /\ IdColumn # "col"
    BY PageAssumption DEF Sort, RowColumns
  <1>2. \A p \in Parent : RowOf(p)[IdColumn] = p /\ RowOf(p) \in [RowColumns -> Nat \cup {Null}]
    <2> TAKE p \in Parent
    <2>1. RowOf(p) = [c \in RowColumns |-> IF c = IdColumn THEN p ELSE plan.col[p]]
      BY DEF RowOf, RowColumns
    <2>2. p \in Nat /\ plan.col[p] \in Nat \cup {Null}
      BY <1>1, KeyAssumption
    <2> QED
      BY <2>1, <2>2 DEF RowColumns
  <1>3. \A p \in Parent : p # Null
    BY KeyAssumption, KeysetAssumption
  <1>4. RowTable \in Table(RowColumns)
    <2>1. RowTable \in SUBSET [RowColumns -> Nat \cup {Null}]
      BY <1>2 DEF RowTable
    <2>2. \A r \in RowTable : r[IdColumn] \in Parent /\ r = RowOf(r[IdColumn])
      BY <1>2 DEF RowTable
    <2>3. \A r \in RowTable : r[IdColumn] # Null
      BY <1>3, <2>2
    <2>4. \A q, r \in RowTable : q[IdColumn] = r[IdColumn] => q = r
      BY <2>2
    <2> QED
      BY <2>1, <2>3, <2>4 DEF Table
  <1> QED
    BY <1>1, <1>2, <1>4 DEF RowTable

LEMMA FollowsOrders ==
    ASSUME plan \in Plan, plan.pages
    PROVE  /\ \A p \in Parent : ~Follows(p, p)
           /\ \A p, q \in Parent : p # q => (Follows(p, q) <=> ~Follows(q, p))
           /\ \A p, q, r \in Parent : Follows(p, q) /\ Follows(q, r) => Follows(p, r)
  <1>1. IdColumn \in RowColumns /\ plan.sort \in Sort(RowColumns) /\ plan.lowest \in BOOLEAN /\ RowTable \in Table(RowColumns)
    BY RowsOfParents DEF RowColumns
  <1>2. \A p \in Parent : RowOf(p) \in RowTable /\ RowOf(p)[IdColumn] = p
    BY RowsOfParents
  <1>3. Orders(RowTable, plan.sort, plan.lowest)
    BY <1>1, TableOrders
  <1> QED
    BY <1>2, <1>3 DEF Orders, Follows

\* What the filter of a row's cursor keeps.
LEMMA CursorReads ==
    ASSUME plan \in Plan, plan.pages, NEW p \in Parent, NEW q \in Parent
    PROVE  /\ CursorOf(q) # NoCursor
           /\ KeysetClauses(Keys(plan.sort, plan.lowest), CursorOf(q), RowOf(p)) <=> Follows(q, p)
           /\ KeysetClauses(Inverted(Keys(plan.sort, plan.lowest)), CursorOf(q), RowOf(p)) <=> Follows(p, q)
  <1>1. IdColumn \in RowColumns /\ plan.sort \in Sort(RowColumns) /\ plan.lowest \in BOOLEAN /\ RowTable \in Table(RowColumns)
    BY RowsOfParents DEF RowColumns
  <1>2. RowOf(p) \in RowTable /\ RowOf(q) \in RowTable
    BY RowsOfParents
  <1>3. CursorOf(q) # NoCursor
    <2>1. PICK n \in DOMAIN plan.sort : Len(Keys(plan.sort, plan.lowest)) = n
                /\ Keys(plan.sort, plan.lowest) = [i \in 1..n |-> KeyOf(plan.sort[i], plan.lowest)]
      BY <1>1, PrefixIsTotal
    <2>2. n \in Nat \ {0}
      BY <1>1 DEF Sort
    <2>3. 1 \in DOMAIN CursorOf(q)
      BY <2>1, <2>2 DEF CursorOf, Cursor, MintCursor
    <2> QED
      BY <2>3 DEF NoCursor
  <1>4. KeptAfter(plan.sort, plan.lowest, RowOf(q), RowOf(p)) <=> Follows(q, p)
    BY <1>1, <1>2, FilterReadsOn DEF Follows
  <1>5. KeptBefore(plan.sort, plan.lowest, RowOf(q), RowOf(p)) <=> Follows(p, q)
    BY <1>1, <1>2, FilterReadsBack DEF Follows
  <1> QED
    BY <1>3, <1>4, <1>5 DEF KeptAfter, KeptBefore, CursorOf

\* A page of keys: those past the row the walk stands at, or all of them when it stands nowhere yet.
AheadIn(live, dir, from) ==
    {p \in live : from # None => IF dir = "before" THEN Follows(p, from) ELSE Follows(from, p)}

IsPageOfKeys(items, ahead, dir) ==
    /\ IsFiniteSet(ahead) /\ items \in Seq(ahead)
    /\ Len(items) = IF Cardinality(ahead) < plan.limit THEN Cardinality(ahead) ELSE plan.limit
    /\ \A i, j \in 1..Len(items) : i < j => Follows(items[i], items[j])
    /\ \A i \in 1..Len(items), p \in ahead :
          (\A j \in 1..Len(items) : items[j] # p) => IF dir = "before" THEN Follows(p, items[i]) ELSE Follows(items[i], p)

KeysOf(page) == [i \in DOMAIN page.items |-> page.items[i][IdColumn]]

ReadsKeys(page, ahead, dir) ==
    LET items == KeysOf(page)
    IN  /\ page.hasNextPage \in BOOLEAN /\ page.hasPrevPage \in BOOLEAN
        /\ IsPageOfKeys(items, ahead, dir)
        /\ dir # "before" => (page.hasNextPage <=> Cardinality(ahead) > plan.limit)
        /\ dir = "before" => (page.hasPrevPage <=> Cardinality(ahead) > plan.limit)
        /\ items # <<>> => page.startCursor = CursorOf(items[1]) /\ page.endCursor = CursorOf(items[Len(items)])

LEMMA PageOfKeys ==
    ASSUME plan \in Plan, plan.pages, NEW live \in SUBSET Parent, NEW dir, NEW from \in Parent \cup {None}, NEW cursor,
           cursor = IF from = None THEN NoCursor ELSE CursorOf(from),
           NEW page, page = KeysetRead({RowOf(p) : p \in live}, plan.sort, plan.lowest, plan.limit, dir, cursor)
    PROVE  ReadsKeys(page, AheadIn(live, dir, from), dir)
  <1> DEFINE found == {RowOf(p) : p \in live}
             read == page.items
             items == [i \in DOMAIN read |-> read[i][IdColumn]]
             ahead == AheadIn(live, dir, from)
             past == Past(found, plan.sort, plan.lowest, dir, cursor)
             size == Cardinality(ahead)
  <1>1. /\ plan.sort \in Sort(RowColumns) /\ plan.lowest \in BOOLEAN /\ plan.limit \in Nat \ {0}
        /\ RowTable \in Table(RowColumns) /\ IdColumn \in RowColumns
        /\ \A p \in Parent : RowOf(p) \in RowTable /\ RowOf(p)[IdColumn] = p
    BY RowsOfParents DEF RowColumns
  <1>2. found \in SUBSET RowTable
    BY DEF RowTable
  <1>3. ahead \in SUBSET Parent /\ IsFiniteSet(ahead) /\ size \in Nat
    <2>1. ahead \in SUBSET Parent
      BY DEF AheadIn
    <2> HIDE DEF ahead
    <2> QED
      BY <2>1, PageAssumption, FS_Subset, FS_CardinalityType
  <1>4. IsFiniteSet(found)
    <2>1. IsFiniteSet(live)
      BY PageAssumption, FS_Subset
    <2> DEFINE f == [p \in live |-> RowOf(p)]
    <2>2. f \in Surjection(live, found)
      BY DEF Surjection
    <2> HIDE DEF f
    <2> QED
      BY <2>1, <2>2, FS_Surjection
  <1>5. None \notin Parent
    BY KeyAssumption DEF Key
  <1>6. past = {RowOf(p) : p \in ahead}
    <2>1. ASSUME NEW p \in live
          PROVE  RowOf(p) \in past <=> p \in ahead
      <3>1. RowOf(p) \in past <=> (cursor # NoCursor =>
              KeysetClauses(IF dir = "before" THEN Inverted(Keys(plan.sort, plan.lowest)) ELSE Keys(plan.sort, plan.lowest),
                            cursor, RowOf(p)))
        BY DEF Past
      <3>2. CASE from = None
        BY <3>1, <3>2 DEF AheadIn
      <3>3. CASE from \in Parent
        <4>1. cursor = CursorOf(from)
          BY <1>5, <3>3
        <4>2. /\ CursorOf(from) # NoCursor
              /\ KeysetClauses(Keys(plan.sort, plan.lowest), CursorOf(from), RowOf(p)) <=> Follows(from, p)
              /\ KeysetClauses(Inverted(Keys(plan.sort, plan.lowest)), CursorOf(from), RowOf(p)) <=> Follows(p, from)
          BY <3>3, CursorReads
        <4>3. p \in ahead <=> IF dir = "before" THEN Follows(p, from) ELSE Follows(from, p)
          BY <1>5, <3>3 DEF AheadIn
        <4> HIDE DEF ahead, past
        <4> QED
          BY <3>1, <4>1, <4>2, <4>3
      <3> QED
        BY <3>2, <3>3
    <2>2. past \subseteq found
      BY DEF Past
    <2>3. ahead \subseteq live
      BY DEF AheadIn
    <2> HIDE DEF past, ahead
    <2> QED
      BY <2>1, <2>2, <2>3
  <1>7. Cardinality(past) = size
    <2> DEFINE f == [p \in ahead |-> RowOf(p)]
    <2>1. \A p, q \in ahead : RowOf(p) = RowOf(q) => p = q
      <3> HIDE DEF ahead
      <3> QED
        BY <1>1, <1>3
    <2> HIDE DEF ahead, past
    <2>2. f \in Surjection(ahead, past)
      BY <1>6 DEF Surjection
    <2>3. f \in Injection(ahead, past)
      BY <1>6, <2>1 DEF Injection, IsInjective
    <2> HIDE DEF f
    <2> QED
      BY <1>3, <2>2, <2>3, FS_Surjection
  <1>8. /\ page.hasNextPage \in BOOLEAN /\ page.hasPrevPage \in BOOLEAN
        /\ IsPage(read, past, plan.sort, plan.lowest, plan.limit, dir)
        /\ dir # "before" => (page.hasNextPage <=> Cardinality(past) > plan.limit)
        /\ dir = "before" => (page.hasPrevPage <=> Cardinality(past) > plan.limit)
        /\ read # <<>> => /\ page.startCursor = Cursor(plan.sort, plan.lowest, read[1])
                          /\ page.endCursor = Cursor(plan.sort, plan.lowest, read[Len(read)])
    <2> HIDE DEF found
    <2>1. ReadsPage(KeysetRead(found, plan.sort, plan.lowest, plan.limit, dir, cursor), past,
                    plan.sort, plan.lowest, plan.limit, dir)
      BY <1>1, <1>2, <1>4, PageRows
    <2>2. ReadsPage(page, past, plan.sort, plan.lowest, plan.limit, dir)
      BY <2>1 DEF found
    <2> QED
      BY <2>2 DEF ReadsPage
  <1> HIDE DEF found, ahead, past, size, read
  <1>9. read \in Seq(past) /\ Len(read) \in Nat /\ DOMAIN read = 1..Len(read)
    BY <1>8 DEF IsPage
  <1>10. \A r \in past : r[IdColumn] \in ahead /\ r = RowOf(r[IdColumn])
    BY <1>1, <1>3, <1>6
  <1>11. /\ items \in Seq(ahead) /\ Len(items) = Len(read)
         /\ \A i \in 1..Len(read) : items[i] = read[i][IdColumn] /\ items[i] \in ahead /\ read[i] = RowOf(items[i])
    <2>1. \A i \in 1..Len(read) : read[i] \in past
      BY <1>9
    <2> QED
      BY <1>9, <1>10, <2>1
  <1> HIDE DEF items
  <1>12. IsPageOfKeys(items, ahead, dir)
    <2>1. \A i, j \in 1..Len(items) : i < j => Follows(items[i], items[j])
      BY <1>8, <1>11 DEF IsPage, Follows
    <2>2. \A i \in 1..Len(items), p \in ahead :
            (\A j \in 1..Len(items) : items[j] # p) => IF dir = "before" THEN Follows(p, items[i]) ELSE Follows(items[i], p)
      <3> TAKE i \in 1..Len(items), p \in ahead
      <3> HAVE \A j \in 1..Len(items) : items[j] # p
      <3>1. RowOf(p) \in past /\ RowOf(p)[IdColumn] = p
        BY <1>1, <1>3, <1>6
      <3>2. \A j \in 1..Len(read) : read[j] # RowOf(p)
        BY <1>11, <3>1
      <3>3. IF dir = "before" THEN Before(plan.sort, plan.lowest, RowOf(p), read[i])
                              ELSE Before(plan.sort, plan.lowest, read[i], RowOf(p))
        BY <1>8, <1>11, <3>1, <3>2 DEF IsPage
      <3> QED
        BY <1>11, <3>3 DEF Follows
    <2>3. Len(items) = IF Cardinality(ahead) < plan.limit THEN Cardinality(ahead) ELSE plan.limit
      BY <1>7, <1>8, <1>11 DEF IsPage, size
    <2> QED
      BY <1>3, <1>11, <2>1, <2>2, <2>3 DEF IsPageOfKeys
  <1>13. items # <<>> => /\ page.startCursor = CursorOf(items[1])
                         /\ page.endCursor = CursorOf(items[Len(items)])
    <2> HAVE items # <<>>
    <2>1. Len(items) \in Nat \ {0}
      BY <1>9, <1>11
    <2>2. read # <<>> /\ read[1] = RowOf(items[1]) /\ read[Len(read)] = RowOf(items[Len(items)])
      BY <1>9, <1>11, <2>1
    <2> QED
      BY <1>8, <1>11, <2>2 DEF CursorOf
  <1> QED
    BY <1>7, <1>8, <1>12, <1>13 DEF ReadsKeys, KeysOf, items, ahead, size, read

-----------------------------------------------------------------------------
(***************************************************************************)
(* The walk.  It stands at the last row it read, or nowhere yet; backward  *)
(* at the first it read, and to begin with at the first row of the last    *)
(* page forward.                                                           *)
(***************************************************************************)
StandingOf(walk) ==
    IF walk.dir = "after"
    THEN IF walk.after = <<>> THEN None ELSE Last(walk.after)
    ELSE IF walk.before = <<>> THEN walk.turn ELSE Head(walk.before)

Fits(walk) ==
    /\ walk = [on |-> walk.on, dir |-> walk.dir, cursor |-> walk.cursor, after |-> walk.after, turn |-> walk.turn,
               before |-> walk.before]
    /\ walk.on \in BOOLEAN /\ (walk.on => plan.pages)
    /\ walk.dir \in {"after", "before"}
    /\ walk.after \in Seq(Parent) /\ walk.before \in Seq(Parent) /\ walk.turn \in Parent \cup {None}

\* Forward comes first; a walk that is on carries the cursor of the row it stands at.
Stands(walk, kept) ==
    /\ walk.dir = "after" => walk.before = <<>> /\ walk.turn = None
    /\ walk.dir = "after" /\ ~walk.on => kept = {}
    /\ walk.on /\ walk.dir = "before" => walk.turn \in Parent
    /\ walk.on => walk.cursor = IF StandingOf(walk) = None THEN NoCursor ELSE CursorOf(StandingOf(walk))

Has(seen, p) == \E i \in DOMAIN seen : seen[i] = p

\* Each way, what the walk is past it has.
HasForth(walk, kept) ==
    \A p \in kept : walk.dir = "before" \/ ~walk.on \/ (walk.after # <<>> /\ ~Follows(Last(walk.after), p)) => Has(walk.after, p)
HasBack(walk, kept) ==
    walk.turn # None =>
        \A p \in kept : /\ Follows(p, walk.turn)
                        /\ (walk.dir = "before" /\ ~walk.on) \/ (walk.before # <<>> /\ ~Follows(p, Head(walk.before)))
                        => Has(walk.before, p)

SeesStable(walk, kept) ==
    InOrder(walk.after) /\ InOrder(walk.before) /\ HasForth(walk, kept) /\ HasBack(walk, kept)

WalkInv ==
    plan \in Plan /\ steady \subseteq LiveIn(base) /\ Fits(pager) /\ Stands(pager, steady) /\ SeesStable(pager, steady)

LEMMA WalkInvNext ==
    ASSUME plan \in Plan, plan' = plan, steady' \subseteq LiveIn(base'), Fits(pager'), Stands(pager', steady'),
           SeesStable(pager', steady')
    PROVE  WalkInv'
  <1>1. Fits(pager)'
    BY DEF Fits
  <1>2. Stands(pager, steady)'
    BY DEF Stands, StandingOf, CursorOf, Cursor, RowOf
  <1>3. SeesStable(pager, steady)'
    <2>1. InOrder(pager.after)' /\ InOrder(pager.before)'
      BY DEF SeesStable, InOrder, Follows, RowOf
    <2>2. HasForth(pager, steady)'
      BY DEF SeesStable, HasForth, Has, Follows, RowOf
    <2>3. HasBack(pager, steady)'
      BY DEF SeesStable, HasBack, Has, Follows, RowOf
    <2> QED
      BY <2>1, <2>2, <2>3 DEF SeesStable
  <1>4. steady' \subseteq LiveIn(base)'
    BY DEF LiveIn, Live
  <1> QED
    BY <1>1, <1>2, <1>3, <1>4 DEF WalkInv

LEMMA SeesStableIs == WalkSeesStable <=> SeesStable(pager, steady)
  BY DEF WalkSeesStable, SeesStable, HasForth, HasBack, Has

LEMMA PlanStands == ASSUME Next PROVE plan' = plan
  <1>1. PICK f \in Flow : Write(f)
    BY DEF Next
  <1>2. \A g, kept, new, locked : Sends(g, kept, new, locked) => plan' = plan
    BY DEF Sends
  <1>3. \A g, kept, new : Writes(g, kept, new) => plan' = plan
    BY <1>2 DEF Writes
  <1>4. \A g, kept, held : Reads(g, kept, held) => plan' = plan
    BY <1>2 DEF Reads
  <1>5. \A g, why : Throw(g, why) => plan' = plan
    BY DEF Throw
  <1>6. \A g, k : WriteAtVersion(g, k) => plan' = plan
    BY <1>3 DEF WriteAtVersion
  <1>7. CASE Begin(f) \/ Commit(f) \/ Rollback(f) \/ Hook(f) \/ HookThrows(f) \/ Refused(f)
    BY <1>7 DEF Begin, Commit, Rollback, Hook, HookThrows, Refused
  <1>8. CASE Deadlocked(f) \/ Racer(f)
    BY <1>5, <1>8 DEF Deadlocked, Racer
  <1>9. CASE Load(f) \/ ReadBack(f) \/ ThrowStaleVersion(f)
    BY <1>2, <1>5, <1>9 DEF Load, ReadBack, ThrowStaleVersion
  <1>10. CASE Settle(f) \/ ReadThenUpsert(f) \/ Doom(f)
    BY <1>4, <1>10 DEF Settle, ReadThenUpsert, Doom
  <1>11. CASE Match(f) \/ Found(f)
    BY <1>3, <1>5, <1>6, <1>11 DEF Match, Found
  <1>12. CASE Where(f) \/ Columns(f) \/ DropUnlisted(f) \/ SaveChildren(f) \/ InsertRows(f) \/ Merge(f)
    BY <1>3, <1>5, <1>12 DEF Where, Columns, DropUnlisted, SaveChildren, InsertRows, Merge
  <1>13. CASE DeleteChildren(f) \/ InternalDelete(f) \/ Restore(f)
    BY <1>3, <1>5, <1>13 DEF DeleteChildren, InternalDelete, Restore
  <1> QED
    BY <1>1, <1>7, <1>8, <1>9, <1>10, <1>11, <1>12, <1>13 DEF Write, Proceeds, Statement

\* A page read: the keys it adds, and where the walk goes on from.
LEMMA FindsPage ==
    ASSUME WalkInv, FindManyPage
    PROVE  \E items :
              LET ahead == AheadIn(LiveIn(base), pager.dir, StandingOf(pager))
                  more == Cardinality(ahead) > plan.limit
              IN  /\ IsPageOfKeys(items, ahead, pager.dir)
                  /\ pager.dir = "after" =>
                        /\ pager' = [on |-> items # <<>>, dir |-> IF more THEN "after" ELSE "before",
                                     cursor |-> pager'.cursor, after |-> pager.after \o items,
                                     turn |-> IF more \/ items = <<>> THEN None ELSE items[1], before |-> <<>>]
                        /\ items # <<>> => pager'.cursor = CursorOf(IF more THEN items[Len(items)] ELSE items[1])
                  /\ pager.dir = "before" =>
                        /\ pager' = [on |-> more, dir |-> "before", cursor |-> pager'.cursor, after |-> pager.after,
                                     turn |-> pager.turn, before |-> items \o pager.before]
                        /\ items # <<>> => pager'.cursor = CursorOf(items[1])
  <1> DEFINE live == LiveIn(base)
             found == {RowOf(p) : p \in live}
             page == KeysetRead(found, plan.sort, plan.lowest, plan.limit, pager.dir, pager.cursor)
             items == KeysOf(page)
             ahead == AheadIn(live, pager.dir, StandingOf(pager))
             more == Cardinality(ahead) > plan.limit
  <1> USE DEF WalkInv
  <1>1. pager.on /\ plan.pages /\ live \in SUBSET Parent
    BY DEF FindManyPage, Fits, LiveIn
  <1>2. StandingOf(pager) \in Parent \cup {None}
    <2>1. \A s \in Seq(Parent) : s # <<>> => Last(s) \in Parent /\ Head(s) \in Parent
      <3> TAKE s \in Seq(Parent)
      <3> HAVE s # <<>>
      <3>1. Len(s) \in 1..Len(s)
        OBVIOUS
      <3> QED
        BY <3>1 DEF Last
    <2> QED
      BY <2>1 DEF StandingOf, Fits
  <1>3. pager.cursor = IF StandingOf(pager) = None THEN NoCursor ELSE CursorOf(StandingOf(pager))
    BY <1>1 DEF Stands
  <1> HIDE DEF live
  <1>4. /\ page.hasNextPage \in BOOLEAN /\ page.hasPrevPage \in BOOLEAN
        /\ IsPageOfKeys(items, ahead, pager.dir)
        /\ pager.dir # "before" => (page.hasNextPage <=> more)
        /\ pager.dir = "before" => (page.hasPrevPage <=> more)
        /\ items # <<>> => page.startCursor = CursorOf(items[1]) /\ page.endCursor = CursorOf(items[Len(items)])
    <2> HIDE DEF page, items, more, ahead
    <2>1. page = KeysetRead({RowOf(p) : p \in live}, plan.sort, plan.lowest, plan.limit, pager.dir, pager.cursor)
      BY DEF page
    <2> QED
      <3>1. plan \in Plan
        BY DEF WalkInv
      <3>2. ReadsKeys(page, AheadIn(live, pager.dir, StandingOf(pager)), pager.dir)
        BY <1>1, <1>2, <1>3, <2>1, <3>1, PageOfKeys
      <3> QED
        BY <3>2 DEF ReadsKeys, items, more, ahead
  <1>5. pager' = IF pager.dir = "after"
                 THEN [pager EXCEPT
                         !.after = @ \o items,
                         !.on = items # <<>>,
                         !.dir = IF page.hasNextPage THEN @ ELSE "before",
                         !.turn = IF page.hasNextPage \/ items = <<>> THEN @ ELSE items[1],
                         !.cursor = IF page.hasNextPage THEN page.endCursor ELSE page.startCursor]
                 ELSE [pager EXCEPT !.before = items \o @, !.on = page.hasPrevPage, !.cursor = page.startCursor]
    BY DEF FindManyPage, live, KeysOf
  <1> HIDE DEF items, more, page
  <1>7. more \in BOOLEAN
    BY DEF more
  <1>8. CASE pager.dir = "after"
    <2>1. pager.turn = None /\ pager.before = <<>>
      BY <1>8 DEF Stands
    <2>2. page.hasNextPage = more
      BY <1>4, <1>7, <1>8
    <2>3. pager' = [on |-> items # <<>>, dir |-> IF more THEN "after" ELSE "before",
                    cursor |-> IF more THEN page.endCursor ELSE page.startCursor, after |-> pager.after \o items,
                    turn |-> IF more \/ items = <<>> THEN None ELSE items[1], before |-> <<>>]
      BY <1>5, <1>8, <2>1, <2>2 DEF Fits
    <2>4. pager'.cursor = IF more THEN page.endCursor ELSE page.startCursor
      BY <2>3
    <2> QED
      BY <1>4, <1>8, <2>3, <2>4 DEF items, more, page, live
  <1>9. CASE pager.dir = "before"
    <2>1. page.hasPrevPage = more
      BY <1>4, <1>7, <1>9
    <2>2. pager' = [on |-> more, dir |-> "before", cursor |-> page.startCursor, after |-> pager.after,
                    turn |-> pager.turn, before |-> items \o pager.before]
      BY <1>5, <1>9, <2>1 DEF Fits
    <2>3. pager'.cursor = page.startCursor
      BY <2>2
    <2> QED
      BY <1>4, <1>9, <2>2, <2>3 DEF items, more, page, live
  <1> QED
    BY <1>8, <1>9 DEF Fits

LEMMA Joined ==
    ASSUME NEW s \in Seq(Parent), NEW u \in Seq(Parent), InOrder(s), InOrder(u),
           \A i \in 1..Len(s), j \in 1..Len(u) : Follows(s[i], u[j])
    PROVE  s \o u \in Seq(Parent) /\ InOrder(s \o u) /\ \A p : Has(s \o u, p) <=> Has(s, p) \/ Has(u, p)
  <1> DEFINE m == Len(s)
             n == Len(u)
             c == s \o u
  <1>1. /\ m \in Nat /\ n \in Nat /\ c \in Seq(Parent) /\ Len(c) = m + n
        /\ DOMAIN s = 1..m /\ DOMAIN u = 1..n /\ DOMAIN c = 1..(m + n)
    OBVIOUS
  <1>2. /\ \A i \in 1..m : c[i] = s[i]
        /\ \A i \in (m + 1)..(m + n) : c[i] = u[i - m] /\ i - m \in 1..n
    OBVIOUS
  <1>3. \A j \in 1..n : j + m \in (m + 1)..(m + n) /\ (j + m) - m = j
    BY <1>1
  <1>4. \A i \in 1..(m + n) : i \in 1..m \/ i \in (m + 1)..(m + n)
    BY <1>1
  <1> HIDE DEF m, n, c
  <1>5. ASSUME NEW i \in 1..(m + n), NEW j \in 1..(m + n), i < j
        PROVE  Follows(c[i], c[j])
    <2>1. CASE i \in 1..m /\ j \in 1..m
      BY <1>1, <1>2, <1>5, <2>1 DEF InOrder
    <2>2. CASE i \in 1..m /\ j \in (m + 1)..(m + n)
      BY <1>2, <2>2 DEF m, n
    <2>3. CASE i \in (m + 1)..(m + n) /\ j \in (m + 1)..(m + n)
      <3>1. i - m < j - m
        BY <1>1, <1>5
      <3> QED
        BY <1>1, <1>2, <2>3, <3>1 DEF InOrder
    <2> QED
      BY <1>1, <1>4, <1>5, <2>1, <2>2, <2>3
  <1>6. \A p : Has(c, p) <=> Has(s, p) \/ Has(u, p)
    <2> TAKE p
    <2>1. ASSUME Has(c, p) PROVE Has(s, p) \/ Has(u, p)
      BY <1>1, <1>2, <1>4, <2>1 DEF Has
    <2>2. ASSUME Has(s, p) PROVE Has(c, p)
      <3>1. PICK i \in 1..m : s[i] = p
        BY <1>1, <2>2 DEF Has
      <3>2. i \in 1..(m + n)
        BY <1>1
      <3> QED
        BY <1>1, <1>2, <3>1, <3>2 DEF Has
    <2>3. ASSUME Has(u, p) PROVE Has(c, p)
      <3>1. PICK j \in 1..n : u[j] = p
        BY <1>1, <2>3 DEF Has
      <3>2. j + m \in (m + 1)..(m + n) /\ (j + m) - m = j /\ j + m \in 1..(m + n)
        BY <1>1, <1>3
      <3>3. c[j + m] = p
        BY <1>2, <3>1, <3>2
      <3> QED
        BY <1>1, <3>2, <3>3 DEF Has
    <2> QED
      BY <2>1, <2>2, <2>3
  <1> QED
    BY <1>1, <1>5, <1>6 DEF InOrder, c

LEMMA Ends ==
    ASSUME NEW s \in Seq(Parent), s # <<>>, plan \in Plan, plan.pages, InOrder(s)
    PROVE  /\ Len(s) \in Nat \ {0} /\ Head(s) = s[1] /\ Last(s) = s[Len(s)] /\ Head(s) \in Parent /\ Last(s) \in Parent
           /\ \A p \in Parent : Follows(Last(s), p) => \A i \in 1..Len(s) : Follows(s[i], p)
           /\ \A p \in Parent : Follows(p, Head(s)) => \A i \in 1..Len(s) : Follows(p, s[i])
  <1>1. Len(s) \in Nat \ {0} /\ Head(s) = s[1] /\ Last(s) = s[Len(s)] /\ DOMAIN s = 1..Len(s)
    BY DEF Last
  <1>2. \A i \in 1..Len(s) : s[i] \in Parent
    OBVIOUS
  <1>3. \A p, q, r \in Parent : Follows(p, q) /\ Follows(q, r) => Follows(p, r)
    BY FollowsOrders
  <1>4. ASSUME NEW p \in Parent, Follows(Last(s), p), NEW i \in 1..Len(s)
        PROVE  Follows(s[i], p)
    <2>1. CASE i = Len(s)
      BY <1>1, <1>4, <2>1
    <2>2. CASE i # Len(s)
      <3>1. Follows(s[i], s[Len(s)])
        <4>0. \A m \in Nat \ {0} : \A k \in 1..m : k # m => k < m /\ m \in 1..m
          OBVIOUS
        <4>1. i < Len(s) /\ i \in DOMAIN s /\ Len(s) \in DOMAIN s
          BY <1>1, <2>2, <4>0
        <4> QED
          BY <4>1 DEF InOrder
      <3> QED
        BY <1>1, <1>2, <1>3, <1>4, <3>1
    <2> QED
      BY <2>1, <2>2
  <1>5. ASSUME NEW p \in Parent, Follows(p, Head(s)), NEW i \in 1..Len(s)
        PROVE  Follows(p, s[i])
    <2>1. CASE i = 1
      BY <1>1, <1>5, <2>1
    <2>2. CASE i # 1
      <3>1. Follows(s[1], s[i])
        BY <1>1, <2>2 DEF InOrder
      <3> QED
        BY <1>1, <1>2, <1>3, <1>5, <3>1
    <2> QED
      BY <2>1, <2>2
  <1> QED
    BY <1>1, <1>2, <1>4, <1>5

\* A page of a walk: its rows are past those read, and there are no more of them than the page has room for, or
\* what is left is past them.
LEMMA PageGoesOn ==
    ASSUME WalkInv, plan.pages, NEW items,
           IsPageOfKeys(items, AheadIn(LiveIn(base), pager.dir, StandingOf(pager)), pager.dir)
    PROVE  LET ahead == AheadIn(LiveIn(base), pager.dir, StandingOf(pager))
           IN  /\ ahead \in SUBSET Parent /\ IsFiniteSet(ahead) /\ Cardinality(ahead) \in Nat /\ plan.limit \in Nat \ {0}
               /\ items \in Seq(Parent) /\ InOrder(items) /\ \A i \in 1..Len(items) : items[i] \in ahead
               /\ Cardinality(ahead) <= plan.limit => \A p \in ahead : Has(items, p)
               /\ Cardinality(ahead) > plan.limit => items # <<>>
               /\ items = <<>> => ahead = {}
  <1> DEFINE ahead == AheadIn(LiveIn(base), pager.dir, StandingOf(pager))
             n == Cardinality(ahead)
  <1>1. ahead \in SUBSET Parent
    BY DEF AheadIn, LiveIn
  <1>2. plan.limit \in Nat \ {0}
    BY RowsOfParents DEF WalkInv
  <1> HIDE DEF ahead
  <1>3. /\ IsFiniteSet(ahead) /\ items \in Seq(ahead) /\ Len(items) = IF n < plan.limit THEN n ELSE plan.limit
        /\ \A i, j \in 1..Len(items) : i < j => Follows(items[i], items[j])
    BY DEF ahead, IsPageOfKeys
  <1>4. n \in Nat
    BY <1>3, FS_CardinalityType
  <1>5. /\ Len(items) \in Nat /\ DOMAIN items = 1..Len(items)
        /\ \A i \in 1..Len(items) : items[i] \in ahead
    BY <1>3
  <1>6. items \in Seq(Parent)
    BY <1>1, <1>3
  <1>7. items = <<>> <=> Len(items) = 0
    BY <1>3
  <1>8. InOrder(items)
    BY <1>3, <1>5 DEF InOrder
  <1>9. ASSUME n <= plan.limit PROVE \A p \in ahead : Has(items, p)
    <2> DEFINE f == [i \in 1..Len(items) |-> items[i]]
    <2>1. Len(items) = n
      BY <1>2, <1>3, <1>4, <1>9
    <2>2. \A i, j \in 1..Len(items) : items[i] = items[j] => i = j
      <3>1. \A p \in ahead : ~Follows(p, p)
        BY <1>1, FollowsOrders DEF WalkInv
      <3> QED
        BY <1>3, <1>5, <3>1
    <2>3. f \in Injection(1..Len(items), ahead)
      BY <1>5, <2>2 DEF Injection, IsInjective
    <2>4. IsFiniteSet(1..Len(items)) /\ Cardinality(1..Len(items)) = n
      <3>1. 1 \in Int /\ n \in Int
        BY <1>4
      <3> QED
        BY <1>4, <2>1, <3>1, FS_Interval
    <2> HIDE DEF f
    <2>5. f \in Surjection(1..Len(items), ahead)
      BY <1>3, <2>3, <2>4, FS_Injection DEF n
    <2> QED
      BY <1>5, <2>5 DEF Surjection, f, Has
  <1>10. n = 0 => ahead = {}
    BY <1>3, FS_EmptySet
  <1>11. n > plan.limit => items # <<>>
    BY <1>2, <1>3, <1>4, <1>7
  <1>12. items = <<>> => ahead = {}
    BY <1>2, <1>3, <1>4, <1>7, <1>10
  <1> QED
    BY <1>1, <1>2, <1>3, <1>4, <1>5, <1>6, <1>8, <1>9, <1>11, <1>12 DEF ahead, n

\* A page read forward: what it adds comes after what was read, and what is left after both.
LEMMA PageForth ==
    ASSUME WalkInv, plan.pages, pager.on, pager.dir = "after", NEW items, NEW ahead,
           ahead = AheadIn(LiveIn(base), pager.dir, StandingOf(pager)), IsPageOfKeys(items, ahead, pager.dir)
    PROVE  /\ pager.after \o items \in Seq(Parent) /\ InOrder(pager.after \o items)
           /\ \A p : Has(pager.after \o items, p) <=> Has(pager.after, p) \/ Has(items, p)
           /\ items # <<>> => Last(pager.after \o items) = items[Len(items)]
           /\ items = <<>> => pager.after \o items = pager.after
           /\ \A p \in LiveIn(base) \ ahead : pager.after # <<>> /\ ~Follows(Last(pager.after), p)
           /\ \A p \in ahead : pager.after = <<>> \/ Follows(Last(pager.after), p)
  <1> DEFINE seen == pager.after
  <1>1. /\ ahead \in SUBSET Parent /\ items \in Seq(Parent) /\ InOrder(items)
        /\ \A i \in 1..Len(items) : items[i] \in ahead
    BY PageGoesOn
  <1>2. seen \in Seq(Parent) /\ InOrder(seen) /\ plan \in Plan
    BY DEF WalkInv, Fits, SeesStable
  <1>3. None \notin Parent
    BY KeyAssumption DEF Key
  <1>4. seen # <<>> => Last(seen) \in Parent
    BY <1>2, Ends
  <1>5. StandingOf(pager) = IF seen = <<>> THEN None ELSE Last(seen)
    BY DEF StandingOf
  <1>6. \A p \in LiveIn(base) : p \in ahead <=> seen = <<>> \/ Follows(Last(seen), p)
    BY <1>3, <1>4, <1>5 DEF AheadIn
  <1>7. ahead \subseteq LiveIn(base)
    BY DEF AheadIn
  <1>8. \A i \in 1..Len(seen), j \in 1..Len(items) : Follows(seen[i], items[j])
    <2> TAKE i \in 1..Len(seen), j \in 1..Len(items)
    <2>1. seen # <<>>
      BY <1>2
    <2>2. items[j] \in Parent /\ Follows(Last(seen), items[j])
      BY <1>1, <1>6, <1>7, <2>1
    <2> HIDE DEF seen
    <2> QED
      BY <1>2, <2>1, <2>2, Ends
  <1> HIDE DEF seen
  <1>9. seen \o items \in Seq(Parent) /\ InOrder(seen \o items) /\ \A p : Has(seen \o items, p) <=> Has(seen, p) \/ Has(items, p)
    BY <1>1, <1>2, <1>8, Joined
  <1>10. items # <<>> => Last(seen \o items) = items[Len(items)]
    BY <1>1, <1>2 DEF Last
  <1>11. items = <<>> => seen \o items = seen
    BY <1>2
  <1> QED
    BY <1>6, <1>7, <1>9, <1>10, <1>11 DEF seen

\* And one read backward, the other way round.
LEMMA PageBack ==
    ASSUME WalkInv, plan.pages, pager.on, pager.dir = "before", NEW items, NEW ahead,
           ahead = AheadIn(LiveIn(base), pager.dir, StandingOf(pager)), IsPageOfKeys(items, ahead, pager.dir)
    PROVE  /\ items \o pager.before \in Seq(Parent) /\ InOrder(items \o pager.before)
           /\ \A p : Has(items \o pager.before, p) <=> Has(items, p) \/ Has(pager.before, p)
           /\ items # <<>> => items \o pager.before # <<>> /\ Head(items \o pager.before) = items[1]
           /\ items = <<>> => items \o pager.before = pager.before
           /\ \A p \in LiveIn(base) : p \in ahead <=> Follows(p, IF pager.before = <<>> THEN pager.turn ELSE Head(pager.before))
  <1> DEFINE seen == pager.before
  <1>1. /\ ahead \in SUBSET Parent /\ items \in Seq(Parent) /\ InOrder(items)
        /\ \A i \in 1..Len(items) : items[i] \in ahead
    BY PageGoesOn
  <1>2. seen \in Seq(Parent) /\ InOrder(seen) /\ plan \in Plan /\ pager.turn \in Parent
    BY DEF WalkInv, Fits, Stands, SeesStable
  <1>3. None \notin Parent
    BY KeyAssumption DEF Key
  <1>4. seen # <<>> => Head(seen) \in Parent
    BY <1>2, Ends
  <1>5. StandingOf(pager) = IF seen = <<>> THEN pager.turn ELSE Head(seen)
    BY DEF StandingOf
  <1>6. \A p \in LiveIn(base) : p \in ahead <=> Follows(p, IF seen = <<>> THEN pager.turn ELSE Head(seen))
    <2>1. StandingOf(pager) # None
      BY <1>2, <1>3, <1>4, <1>5
    <2> QED
      BY <1>5, <2>1 DEF AheadIn
  <1>7. ahead \subseteq LiveIn(base)
    BY DEF AheadIn
  <1>8. \A i \in 1..Len(items), j \in 1..Len(seen) : Follows(items[i], seen[j])
    <2> TAKE i \in 1..Len(items), j \in 1..Len(seen)
    <2>1. seen # <<>>
      BY <1>2
    <2>2. items[i] \in Parent /\ Follows(items[i], Head(seen))
      BY <1>1, <1>6, <1>7, <2>1
    <2> HIDE DEF seen
    <2> QED
      BY <1>2, <2>1, <2>2, Ends
  <1> HIDE DEF seen
  <1>9. items \o seen \in Seq(Parent) /\ InOrder(items \o seen) /\ \A p : Has(items \o seen, p) <=> Has(items, p) \/ Has(seen, p)
    BY <1>1, <1>2, <1>8, Joined
  <1>10. items # <<>> => items \o seen # <<>> /\ Head(items \o seen) = items[1]
    BY <1>1, <1>2
  <1>11. items = <<>> => items \o seen = seen
    BY <1>2
  <1> QED
    BY <1>6, <1>7, <1>9, <1>10, <1>11 DEF seen

LEMMA PageKeepsWalk ==
    ASSUME WalkInv, FindManyPage
    PROVE  WalkInv'
  <1> DEFINE ahead == AheadIn(LiveIn(base), pager.dir, StandingOf(pager))
             more == Cardinality(ahead) > plan.limit
  <1>1. PICK items :
          /\ IsPageOfKeys(items, ahead, pager.dir)
          /\ pager.dir = "after" =>
                /\ pager' = [on |-> items # <<>>, dir |-> IF more THEN "after" ELSE "before",
                             cursor |-> pager'.cursor, after |-> pager.after \o items,
                             turn |-> IF more \/ items = <<>> THEN None ELSE items[1], before |-> <<>>]
                /\ items # <<>> => pager'.cursor = CursorOf(IF more THEN items[Len(items)] ELSE items[1])
          /\ pager.dir = "before" =>
                /\ pager' = [on |-> more, dir |-> "before", cursor |-> pager'.cursor, after |-> pager.after,
                             turn |-> pager.turn, before |-> items \o pager.before]
                /\ items # <<>> => pager'.cursor = CursorOf(items[1])
    BY FindsPage
  <1>2. plan' = plan /\ base' = base /\ steady' = steady /\ pager.on
    BY DEF FindManyPage, vars
  <1>3. plan \in Plan /\ plan.pages /\ steady \subseteq LiveIn(base)
    BY <1>2 DEF WalkInv, Fits
  <1>4. /\ ahead \in SUBSET Parent /\ items \in Seq(Parent) /\ \A i \in 1..Len(items) : items[i] \in ahead
        /\ ~more => \A p \in ahead : Has(items, p)
        /\ more => items # <<>>
        /\ items = <<>> => ahead = {}
    <2>1. /\ Cardinality(ahead) \in Nat /\ plan.limit \in Nat
          /\ ahead \in SUBSET Parent /\ items \in Seq(Parent) /\ \A i \in 1..Len(items) : items[i] \in ahead
          /\ Cardinality(ahead) <= plan.limit => \A p \in ahead : Has(items, p)
          /\ more => items # <<>>
          /\ items = <<>> => ahead = {}
      BY <1>1, <1>3, PageGoesOn
    <2> HIDE DEF ahead
    <2> QED
      BY <2>1
  <1>5. items # <<>> => Len(items) \in 1..Len(items) /\ 1 \in 1..Len(items) /\ items[1] \in Parent /\ items[Len(items)] \in Parent
    <2>1. items # <<>> => Len(items) \in Nat \ {0}
      BY <1>4
    <2>2. items # <<>> => Len(items) \in 1..Len(items) /\ 1 \in 1..Len(items)
      BY <2>1
    <2> QED
      BY <1>4, <2>2
  <1>6. None \notin Parent /\ LiveIn(base) \subseteq Parent
    BY KeyAssumption DEF Key, LiveIn
  <1>7. \A i \in 1..Len(items), p \in ahead :
          (\A j \in 1..Len(items) : items[j] # p) => IF pager.dir = "before" THEN Follows(p, items[i]) ELSE Follows(items[i], p)
    BY <1>1 DEF IsPageOfKeys
  <1>8. \A p : ~Has(items, p) => \A j \in 1..Len(items) : items[j] # p
    BY <1>4 DEF Has
  <1>9. \A p, q \in Parent : Follows(p, q) => ~Follows(q, p)
    BY <1>3, FollowsOrders
  <1>10. more \in BOOLEAN
    BY DEF more
  <1>11. ahead = AheadIn(LiveIn(base), pager.dir, StandingOf(pager))
    OBVIOUS
  <1> HIDE DEF ahead, more
  <1>12. CASE pager.dir = "after"
    <2> DEFINE seen == pager.after \o items
    <2>1. /\ seen \in Seq(Parent) /\ InOrder(seen) /\ \A p : Has(seen, p) <=> Has(pager.after, p) \/ Has(items, p)
          /\ items # <<>> => Last(seen) = items[Len(items)] /\ seen # <<>>
          /\ items = <<>> => seen = pager.after
          /\ \A p \in LiveIn(base) \ ahead : pager.after # <<>> /\ ~Follows(Last(pager.after), p)
      <3>1. /\ seen \in Seq(Parent) /\ InOrder(seen) /\ \A p : Has(seen, p) <=> Has(pager.after, p) \/ Has(items, p)
            /\ items # <<>> => Last(seen) = items[Len(items)]
            /\ items = <<>> => seen = pager.after
            /\ \A p \in LiveIn(base) \ ahead : pager.after # <<>> /\ ~Follows(Last(pager.after), p)
        BY <1>1, <1>2, <1>3, <1>11, <1>12, PageForth
      <3>2. items # <<>> => seen # <<>>
        <4>1. pager.after \in Seq(Parent)
          BY DEF WalkInv, Fits
        <4> QED
          BY <1>4, <4>1
      <3> QED
        BY <3>1, <3>2
    <2>2. pager' = [on |-> items # <<>>, dir |-> IF more THEN "after" ELSE "before", cursor |-> pager'.cursor,
                    after |-> seen, turn |-> IF more \/ items = <<>> THEN None ELSE items[1], before |-> <<>>]
      BY <1>1, <1>12
    <2> HIDE DEF seen
    <2>3. /\ pager'.on = (items # <<>>) /\ pager'.dir = (IF more THEN "after" ELSE "before") /\ pager'.after = seen
          /\ pager'.turn = (IF more \/ items = <<>> THEN None ELSE items[1]) /\ pager'.before = <<>>
      BY <2>2
    <2>4. Fits(pager')
      BY <1>3, <1>5, <2>1, <2>2, <2>3 DEF Fits
    <2>5. Stands(pager', steady')
      <3>1. pager'.dir = "after" => more /\ pager'.on /\ pager'.turn = None
        BY <1>4, <2>3
      <3>2. pager'.on /\ pager'.dir = "before" => pager'.turn = items[1] /\ pager'.turn \in Parent
        BY <1>5, <2>3
      <3>3. pager'.on => StandingOf(pager') = IF more THEN items[Len(items)] ELSE items[1]
        BY <2>1, <2>3, <3>2 DEF StandingOf
      <3>4. pager'.on => pager'.cursor = CursorOf(StandingOf(pager')) /\ StandingOf(pager') # None
        BY <1>1, <1>5, <1>6, <1>12, <2>3, <3>3
      <3> QED
        BY <2>3, <3>1, <3>2, <3>4 DEF Stands
    <2>6. HasForth(pager', steady')
      <3>1. SUFFICES ASSUME NEW p \in steady,
                            pager'.dir = "before" \/ ~pager'.on \/ (seen # <<>> /\ ~Follows(Last(seen), p)),
                            ~Has(items, p)
                     PROVE  Has(pager.after, p)
        BY <1>2, <2>1, <2>3 DEF HasForth
      <3>2. p \in LiveIn(base) /\ p \in Parent
        BY <1>3, <1>6
      <3>3. p \notin ahead
        <4>1. SUFFICES ASSUME p \in ahead PROVE FALSE
          OBVIOUS
        <4>2. more /\ items # <<>>
          BY <1>4, <3>1, <4>1
        <4>3. Follows(items[Len(items)], p)
          BY <1>5, <1>7, <1>8, <1>12, <3>1, <4>1, <4>2
        <4> QED
          BY <2>1, <2>3, <3>1, <4>2, <4>3
      <3>4. pager.after # <<>> /\ ~Follows(Last(pager.after), p)
        BY <2>1, <3>2, <3>3
      <3> QED
        BY <3>4 DEF WalkInv, SeesStable, HasForth
    <2>7. HasBack(pager', steady')
      <3>1. SUFFICES ASSUME pager'.turn # None PROVE pager'.on
        BY <2>3 DEF HasBack
      <3> QED
        BY <2>3, <3>1
    <2>8. SeesStable(pager', steady')
      BY <2>1, <2>3, <2>6, <2>7 DEF SeesStable, InOrder
    <2> QED
      BY <1>2, <1>3, <2>4, <2>5, <2>8, WalkInvNext
  <1>13. CASE pager.dir = "before"
    <2> DEFINE seen == items \o pager.before
               from == IF pager.before = <<>> THEN pager.turn ELSE Head(pager.before)
    <2>1. /\ seen \in Seq(Parent) /\ InOrder(seen) /\ \A p : Has(seen, p) <=> Has(items, p) \/ Has(pager.before, p)
          /\ items # <<>> => seen # <<>> /\ Head(seen) = items[1]
          /\ items = <<>> => seen = pager.before
          /\ \A p \in LiveIn(base) : p \in ahead <=> Follows(p, from)
      BY <1>1, <1>2, <1>3, <1>11, <1>13, PageBack
    <2>2. pager' = [on |-> more, dir |-> "before", cursor |-> pager'.cursor, after |-> pager.after,
                    turn |-> pager.turn, before |-> seen]
      BY <1>1, <1>13
    <2> HIDE DEF seen, from
    <2>3. /\ pager'.on = more /\ pager'.dir = "before" /\ pager'.after = pager.after
          /\ pager'.turn = pager.turn /\ pager'.before = seen
      BY <2>2
    <2>4. pager.turn \in Parent /\ pager.after \in Seq(Parent) /\ pager.before \in Seq(Parent)
      BY <1>2, <1>13 DEF WalkInv, Fits, Stands
    <2>5. Fits(pager')
      BY <1>3, <1>10, <2>1, <2>2, <2>3, <2>4 DEF Fits
    <2>6. Stands(pager', steady')
      <3>1. pager'.on => items # <<>> /\ StandingOf(pager') = items[1]
        BY <1>4, <2>1, <2>3 DEF StandingOf
      <3>2. pager'.on => pager'.cursor = CursorOf(StandingOf(pager')) /\ StandingOf(pager') # None
        BY <1>1, <1>5, <1>6, <1>13, <3>1
      <3> QED
        BY <2>3, <2>4, <3>2 DEF Stands
    <2>7. HasForth(pager', steady')
      BY <1>2, <1>13, <2>3 DEF WalkInv, SeesStable, HasForth
    <2>8. HasBack(pager', steady')
      <3>1. SUFFICES ASSUME NEW p \in steady, Follows(p, pager.turn),
                            ~more \/ (seen # <<>> /\ ~Follows(p, Head(seen))), ~Has(items, p)
                     PROVE  Has(pager.before, p)
        BY <1>2, <2>1, <2>3 DEF HasBack
      <3>2. p \in LiveIn(base) /\ p \in Parent
        BY <1>3, <1>6
      <3>3. p \notin ahead
        <4>1. SUFFICES ASSUME p \in ahead PROVE FALSE
          OBVIOUS
        <4>2. more /\ items # <<>>
          BY <1>4, <3>1, <4>1
        <4>3. Follows(p, items[1])
          BY <1>5, <1>7, <1>8, <1>13, <3>1, <4>1, <4>2
        <4> QED
          BY <2>1, <3>1, <4>2, <4>3
      <3>4. pager.before # <<>> /\ ~Follows(p, Head(pager.before))
        BY <2>1, <3>1, <3>2, <3>3 DEF from
      <3>5. pager.turn # None
        BY <1>6, <2>4
      <3> QED
        BY <3>1, <3>4, <3>5 DEF WalkInv, SeesStable, HasBack
    <2>9. SeesStable(pager', steady')
      BY <2>1, <2>3, <2>7, <2>8 DEF WalkInv, SeesStable
    <2> QED
      BY <1>2, <1>3, <2>5, <2>6, <2>9, WalkInvNext
  <1> QED
    BY <1>12, <1>13 DEF WalkInv, Fits

LEMMA WritingKeepsWalk ==
    ASSUME WalkInv, Writing
    PROVE  WalkInv'
  <1>1. plan' = plan /\ pager' = pager /\ steady' = steady \cap LiveIn(base')
    BY PlanStands DEF Writing
  <1>2. steady' \subseteq steady /\ steady' \subseteq LiveIn(base')
    BY <1>1
  <1>3. Stands(pager', steady')
    BY <1>1, <1>2 DEF WalkInv, Stands
  <1>4. HasForth(pager', steady')
    BY <1>1, <1>2 DEF WalkInv, SeesStable, HasForth
  <1>5. HasBack(pager', steady')
    BY <1>1, <1>2 DEF WalkInv, SeesStable, HasBack
  <1>6. SeesStable(pager', steady')
    BY <1>1, <1>4, <1>5 DEF WalkInv, SeesStable
  <1>7. Fits(pager') /\ plan \in Plan
    BY <1>1 DEF WalkInv
  <1> QED
    BY <1>1, <1>2, <1>3, <1>6, <1>7, WalkInvNext

LEMMA WalkInvHolds == PagingSpec => []WalkInv
  <1>1. PagingInit => WalkInv
    <2> SUFFICES ASSUME PagingInit PROVE WalkInv
      OBVIOUS
    <2>1. /\ plan \in Plan /\ steady = IF plan.pages THEN LiveIn(base) ELSE {}
          /\ pager = [on |-> plan.pages, dir |-> "after", cursor |-> NoCursor, after |-> <<>>, turn |-> None, before |-> <<>>]
      BY DEF PagingInit, Init
    <2>2. plan.pages \in BOOLEAN
      BY <2>1, PageAssumption
    <2>3. /\ pager.on = plan.pages /\ pager.dir = "after" /\ pager.cursor = NoCursor /\ pager.after = <<>>
          /\ pager.turn = None /\ pager.before = <<>>
      BY <2>1
    <2>4. Fits(pager)
      BY <2>1, <2>2, <2>3 DEF Fits
    <2>5. Stands(pager, steady)
      BY <2>1, <2>2, <2>3 DEF Stands, StandingOf
    <2>6. SeesStable(pager, steady)
      BY <2>1, <2>3 DEF SeesStable, InOrder, HasForth, HasBack
    <2> QED
      BY <2>1, <2>4, <2>5, <2>6 DEF WalkInv
  <1>2. WalkInv /\ [PagingNext]_pagingVars => WalkInv'
    <2> SUFFICES ASSUME WalkInv, [PagingNext]_pagingVars PROVE WalkInv'
      OBVIOUS
    <2>1. CASE Writing
      BY <2>1, WritingKeepsWalk
    <2>2. CASE FindManyPage
      BY <2>2, PageKeepsWalk
    <2>3. CASE UNCHANGED pagingVars
      <3>1. plan' = plan /\ pager' = pager /\ steady' = steady /\ base' = base
        BY <2>3 DEF pagingVars, vars
      <3> QED
        BY <3>1, WalkInvNext DEF WalkInv
    <2> QED
      BY <2>1, <2>2, <2>3 DEF PagingNext
  <1> QED
    BY <1>1, <1>2, PTL DEF PagingSpec

\* A walk there and back reads every row that is there all along exactly once each way, in the order of the sort,
\* whatever calls write around it (`findManyPage`).
THEOREM WalkSeesStableAlways == PagingSpec => []WalkSeesStable
  <1>1. WalkInv => WalkSeesStable
    BY SeesStableIs DEF WalkInv
  <1> QED
    BY <1>1, WalkInvHolds, PTL

\* Rows in order are as many as there are places for them.
LEMMA InOrderHasNoRepeat ==
    ASSUME plan \in Plan, plan.pages, NEW s \in Seq(Parent), InOrder(s), NEW kept, kept = {p \in Parent : Has(s, p)}
    PROVE  Cardinality(kept) = Len(s)
  <1> DEFINE f == [i \in 1..Len(s) |-> s[i]]
             n == Len(s)
  <1>1. n \in Nat /\ DOMAIN s = 1..n /\ \A i \in 1..n : s[i] \in Parent
    OBVIOUS
  <1>2. \A p \in Parent : ~Follows(p, p)
    BY FollowsOrders
  <1>3. \A i, j \in 1..n : s[i] = s[j] => i = j
    BY <1>1, <1>2 DEF InOrder
  <1>4. f \in Surjection(1..n, kept) /\ f \in Injection(1..n, kept)
    BY <1>1, <1>3 DEF Surjection, Injection, IsInjective, Has
  <1>5. IsFiniteSet(1..n) /\ Cardinality(1..n) = n
    <2> HIDE DEF n
    <2>1. 1 \in Int /\ n \in Int
      BY <1>1
    <2> QED
      BY <1>1, <2>1, FS_Interval
  <1> HIDE DEF f, n
  <1>6. Cardinality(kept) = n
    BY <1>4, <1>5, FS_Surjection
  <1> QED
    BY <1>6 DEF n

\* What a page adds to the rows read is what it read.
LEMMA PageAdds ==
    ASSUME plan \in Plan, plan.pages, NEW items \in Seq(Parent), InOrder(items), NEW ahead \in SUBSET Parent,
           \A i \in 1..Len(items) : items[i] \in ahead,
           NEW added, added = {p \in ahead : Has(items, p)}
    PROVE  Cardinality(added) = Len(items) /\ \A p : p \in added <=> Has(items, p)
  <1>1. \A p : Has(items, p) => p \in ahead
    BY DEF Has
  <1>2. \A p : p \in added <=> Has(items, p)
    BY <1>1
  <1>3. added = {p \in Parent : Has(items, p)}
    BY <1>1, <1>2
  <1> QED
    BY <1>2, <1>3, InOrderHasNoRepeat

LEMMA PageIsExactStep ==
    ASSUME WalkInv, FindManyPage
    PROVE  LET forth == pager.dir = "after"
               ahead == {p \in LiveIn(base) :
                           IF forth THEN pager.after = <<>> \/ Follows(Last(pager.after), p)
                           ELSE Follows(p, IF pager.before = <<>> THEN pager.turn ELSE Head(pager.before))}
               seen == IF forth THEN pager.after ELSE pager.before
               seenNext == IF forth THEN pager'.after ELSE pager'.before
               added == {p \in ahead : \E i \in DOMAIN seenNext : seenNext[i] = p}
           IN  /\ Len(seenNext) = Len(seen) + Cardinality(added)
               /\ \A p \in added, q \in ahead \ added : IF forth THEN Follows(p, q) ELSE Follows(q, p)
               /\ Cardinality(added) = IF Cardinality(ahead) < plan.limit THEN Cardinality(ahead) ELSE plan.limit
               /\ (IF forth THEN pager'.dir = "after" ELSE pager'.on) <=> Cardinality(ahead) > plan.limit
  <1> DEFINE forth == pager.dir = "after"
             ahead == {p \in LiveIn(base) :
                         IF forth THEN pager.after = <<>> \/ Follows(Last(pager.after), p)
                         ELSE Follows(p, IF pager.before = <<>> THEN pager.turn ELSE Head(pager.before))}
             seen == IF forth THEN pager.after ELSE pager.before
             seenNext == IF forth THEN pager'.after ELSE pager'.before
             added == {p \in ahead : \E i \in DOMAIN seenNext : seenNext[i] = p}
             past == AheadIn(LiveIn(base), pager.dir, StandingOf(pager))
             more == Cardinality(past) > plan.limit
  <1>1. PICK items :
          /\ IsPageOfKeys(items, past, pager.dir)
          /\ pager.dir = "after" =>
                pager' = [on |-> items # <<>>, dir |-> IF more THEN "after" ELSE "before",
                          cursor |-> pager'.cursor, after |-> pager.after \o items,
                          turn |-> IF more \/ items = <<>> THEN None ELSE items[1], before |-> <<>>]
          /\ pager.dir = "before" =>
                pager' = [on |-> more, dir |-> "before", cursor |-> pager'.cursor, after |-> pager.after,
                          turn |-> pager.turn, before |-> items \o pager.before]
    BY FindsPage
  <1>2. plan \in Plan /\ plan.pages /\ pager.on /\ pager.dir \in {"after", "before"} /\ plan.limit \in Nat
    <2>1. plan \in Plan /\ plan.pages /\ pager.on /\ pager.dir \in {"after", "before"}
      BY DEF FindManyPage, WalkInv, Fits
    <2> QED
      BY <2>1, RowsOfParents
  <1>3. /\ past \in SUBSET Parent /\ items \in Seq(Parent) /\ InOrder(items) /\ \A i \in 1..Len(items) : items[i] \in past
    BY <1>1, <1>2, PageGoesOn
  <1>4. \A p \in Parent : ~Follows(p, p)
    BY <1>2, FollowsOrders
  <1>5. past = AheadIn(LiveIn(base), pager.dir, StandingOf(pager)) /\ past \subseteq LiveIn(base)
    BY DEF AheadIn
  <1>6. /\ seen \in Seq(Parent) /\ InOrder(seen)
        /\ ahead = past
        /\ \A p : Has(seenNext, p) <=> Has(seen, p) \/ Has(items, p)
        /\ Len(seenNext) = Len(seen) + Len(items)
        /\ \A p \in past : seen # <<>> => IF forth THEN Follows(Last(seen), p) ELSE Follows(p, Head(seen))
    <2>1. pager.after \in Seq(Parent) /\ pager.before \in Seq(Parent) /\ InOrder(pager.after) /\ InOrder(pager.before)
      BY DEF WalkInv, Fits, SeesStable
    <2> HIDE DEF past, more
    <2>2. CASE forth
      <3>1. pager'.after = pager.after \o items
        BY <1>1, <2>2
      <3>2. /\ \A p : Has(pager.after \o items, p) <=> Has(pager.after, p) \/ Has(items, p)
            /\ \A p \in LiveIn(base) \ past : pager.after # <<>> /\ ~Follows(Last(pager.after), p)
            /\ \A p \in past : pager.after = <<>> \/ Follows(Last(pager.after), p)
        BY <1>1, <1>2, <1>5, <2>2, PageForth
      <3>3. ahead = past
        BY <1>5, <2>2, <3>2
      <3>4. Len(pager.after \o items) = Len(pager.after) + Len(items)
        BY <1>3, <2>1
      <3> HIDE DEF ahead
      <3> QED
        BY <2>1, <2>2, <3>1, <3>2, <3>3, <3>4
    <2>3. CASE ~forth
      <3>1. pager'.before = items \o pager.before /\ pager.dir = "before"
        BY <1>1, <1>2, <2>3
      <3>2. /\ \A p : Has(items \o pager.before, p) <=> Has(items, p) \/ Has(pager.before, p)
            /\ \A p \in LiveIn(base) : p \in past <=> Follows(p, IF pager.before = <<>> THEN pager.turn ELSE Head(pager.before))
        BY <1>1, <1>2, <1>5, <3>1, PageBack
      <3>3. ahead = past
        BY <1>5, <2>3, <3>2
      <3>4. Len(items \o pager.before) = Len(pager.before) + Len(items)
        BY <1>3, <2>1
      <3>5. \A p \in past : pager.before # <<>> => Follows(p, Head(pager.before))
        BY <1>5, <3>2
      <3> HIDE DEF ahead
      <3> QED
        BY <2>1, <2>3, <3>1, <3>2, <3>3, <3>4, <3>5
    <2> QED
      BY <2>2, <2>3
  <1> HIDE DEF ahead, seenNext, seen, past, forth
  <1>7. \A p \in past : ~Has(seen, p)
    <2> SUFFICES ASSUME NEW p \in past, Has(seen, p) PROVE FALSE
      OBVIOUS
    <2>1. PICK i \in 1..Len(seen) : seen[i] = p
      BY <1>6 DEF Has
    <2>2. seen # <<>>
      BY <1>6, <2>1
    <2>3. IF forth THEN Follows(seen[i], p) ELSE Follows(p, seen[i])
      BY <1>2, <1>3, <1>6, <2>2, Ends
    <2> QED
      BY <1>3, <1>4, <2>1, <2>3
  <1>8. Cardinality(added) = Len(items) /\ \A p : p \in added <=> Has(items, p)
    <2>1. added = {p \in past : Has(items, p)}
      <3>1. added = {p \in past : Has(seenNext, p)}
        BY <1>6 DEF Has
      <3> HIDE DEF added
      <3> QED
        BY <1>6, <1>7, <3>1
    <2> HIDE DEF added
    <2> QED
      BY <1>2, <1>3, <2>1, PageAdds
  <1> HIDE DEF added
  <1>9. \A p \in added, q \in ahead \ added : IF forth THEN Follows(p, q) ELSE Follows(q, p)
    <2> TAKE p \in added, q \in ahead \ added
    <2>1. PICK i \in 1..Len(items) : items[i] = p
      BY <1>3, <1>8 DEF Has
    <2>2. \A j \in 1..Len(items) : items[j] # q
      BY <1>3, <1>8 DEF Has
    <2>3. IF pager.dir = "before" THEN Follows(q, items[i]) ELSE Follows(items[i], q)
      BY <1>1, <1>6, <2>2 DEF IsPageOfKeys
    <2> QED
      BY <1>2, <2>1, <2>3 DEF forth
  <1>10. Cardinality(added) = IF Cardinality(ahead) < plan.limit THEN Cardinality(ahead) ELSE plan.limit
    BY <1>1, <1>6, <1>8 DEF IsPageOfKeys
  <1>11. (IF forth THEN pager'.dir = "after" ELSE pager'.on) <=> Cardinality(ahead) > plan.limit
    <2>1. more <=> Cardinality(ahead) > plan.limit
      BY <1>6
    <2> HIDE DEF more
    <2>2. CASE forth
      <3>1. pager'.dir = IF more THEN "after" ELSE "before"
        BY <1>1, <2>2 DEF forth
      <3> QED
        BY <2>1, <2>2, <3>1
    <2>3. CASE ~forth
      <3>1. pager'.on = more
        BY <1>1, <1>2, <2>3 DEF forth
      <3> QED
        BY <2>1, <2>3, <3>1
    <2> QED
      BY <2>2, <2>3
  <1>12. Len(seenNext) = Len(seen) + Cardinality(added)
    BY <1>6, <1>8
  <1> QED
    BY <1>9, <1>10, <1>11, <1>12 DEF ahead, seenNext, seen, forth, added

\* Every page is the rows next to where the walk stands, as many as it holds, and it says there are more exactly
\* when there are (`findManyPage`, `keysetPage`).
THEOREM PageIsExactAlways == PagingSpec => PageIsExact
  <1>1. ASSUME WalkInv, [PagingNext]_pagingVars
        PROVE  [pager' # pager =>
                  LET forth == pager.dir = "after"
                      ahead == {p \in LiveIn(base) :
                                  IF forth THEN pager.after = <<>> \/ Follows(Last(pager.after), p)
                                  ELSE Follows(p, IF pager.before = <<>> THEN pager.turn ELSE Head(pager.before))}
                      seen == IF forth THEN pager.after ELSE pager.before
                      seenNext == IF forth THEN pager'.after ELSE pager'.before
                      items == {p \in ahead : \E i \in DOMAIN seenNext : seenNext[i] = p}
                  IN  /\ Len(seenNext) = Len(seen) + Cardinality(items)
                      /\ \A p \in items, q \in ahead \ items : IF forth THEN Follows(p, q) ELSE Follows(q, p)
                      /\ Cardinality(items) = IF Cardinality(ahead) < plan.limit THEN Cardinality(ahead) ELSE plan.limit
                      /\ (IF forth THEN pager'.dir = "after" ELSE pager'.on) <=> Cardinality(ahead) > plan.limit]_pagingVars
    <2>1. CASE FindManyPage
      BY <1>1, <2>1, PageIsExactStep
    <2>2. CASE Writing \/ UNCHANGED pagingVars
      <3>1. pager' = pager
        BY <2>2 DEF Writing, pagingVars
      <3> QED
        BY <3>1
    <2> QED
      BY <1>1, <2>1, <2>2 DEF PagingNext
  <1> QED
    BY <1>1, WalkInvHolds, PTL DEF PagingSpec, PageIsExact
=============================================================================
