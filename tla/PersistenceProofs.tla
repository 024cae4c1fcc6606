-------------------------- MODULE PersistenceProofs --------------------------
(***************************************************************************)
(* Theorems about Persistence, for any flows, rows, calls and bounds: its  *)
(* types, that a call that fails has written nothing, and that a cascade   *)
(* reaches every child of what it deletes.                                 *)
(*                                                                         *)
(* The invariant says of each flow what is left of its call: outside a     *)
(* transaction at most one statement that writes, with at most a hook      *)
(* after it; inside one nothing after its end but that.                    *)
(***************************************************************************)
EXTENDS Persistence, FiniteSetTheorems, SequenceTheorems, TLAPS

-----------------------------------------------------------------------------
(***************************************************************************)
(* The invariant.                                                          *)
(***************************************************************************)
\* The statements that stand alone, where no transaction is around them, and those that never do.
Alone == {"match", "reread", "where", "merge", "insert", "restore", "save"}
Together == {"settle", "columns", "drop", "readBack", "find", "found", "doom", "children", "remove"}
\* What a call may have left, children to save only if it lists some.
Plain(c) == {"hook"} \cup Together \cup {step \in Alone : step = "save" => c.list # None /\ c.ids # {}}
Step(c) == Plain(c) \cup {"load", "begin", "commit", "rollback"}

\* Nothing follows but a hook.
LastAt(todo, i) == Len(todo) <= i + 1 /\ (Len(todo) = i + 1 => todo[i + 1] = "hook")
Begun(todo, i) == \E k \in 1..(i - 1) : todo[k] = "begin"
HasEnd(todo) == \E i \in DOMAIN todo : todo[i] \in {"commit", "rollback"}

\* What is left of a call, in a transaction or not.
Shape(todo, inTx, c) ==
    /\ todo \in Seq(Step(c))
    /\ \A i \in DOMAIN todo :
        /\ todo[i] \in {"commit", "rollback"} => LastAt(todo, i) /\ (inTx \/ Begun(todo, i))
        /\ todo[i] = "begin" => ~inTx /\ HasEnd(todo) /\ \A k \in 1..(i - 1) : todo[k] \in {"load", "hook"}
        /\ todo[i] = "load" => IF c.outer /\ ~inTx THEN i = 2 /\ todo[1] = "begin" ELSE i = 1 /\ (inTx => c.outer)
        /\ todo[i] \in Together => inTx \/ Begun(todo, i)
        /\ todo[i] \in Alone => inTx \/ Begun(todo, i) \/ LastAt(todo, i)
    /\ inTx => HasEnd(todo)

Fields == {"todo", "inTx", "snap", "seen", "ids", "queue", "told", "miss", "kept", "out"}
Keeps(f) ==
    /\ DOMAIN fl[f] = Fields
    /\ fl[f].inTx \in BOOLEAN
    /\ fl[f].ids \subseteq Call(f).ids
    /\ fl[f].seen \in [Call(f).ids -> Row \cup {None}]
    /\ fl[f].out \in Failure \cup {None}
    /\ fl[f].snap = None \/ fl[f].snap \in [Key -> Row \cup {None}]
    /\ Shape(fl[f].todo, fl[f].inTx, Call(f))
    /\ fl[f].queue \in Seq(SUBSET Call(f).ids)
    /\ fl[f].out # None => fl[f].todo \in {<<>>, <<"rollback">>}

Tables ==
    /\ rows \in [Key -> Row \cup {None}] /\ base \in [Key -> Row \cup {None}]
    /\ lock \in [Key -> Flow \cup {None}]
    /\ \A k \in Key : lock[k] # None => fl[lock[k]].inTx
    /\ \A k \in Key : lock[k] = None => rows[k] = base[k]

\* Whose content a table holds.
By(row, f) == row # None /\ row.val = f

\* A row another flow wrote and has not committed is locked by it; who committed a row is at its end.
Writers ==
    \A k \in Key, f \in Flow :
        /\ By(rows[k], f) => lock[k] = f \/ By(base[k], f)
        /\ By(base[k], f) => /\ ~fl[f].inTx
                             /\ fl[f].todo \in {<<>>, <<"hook">>}
                             /\ fl[f].out \in {None, "late"}

WriteInv ==
    /\ plan \in Plan
    /\ DOMAIN fl = Flow
    /\ \A f \in Flow : Keeps(f)
    /\ Tables
    /\ Writers
    /\ faults \in 0..plan.faults

-----------------------------------------------------------------------------
(***************************************************************************)
(* What is left of a call.                                                 *)
(***************************************************************************)
LEMMA Rest ==
    ASSUME NEW S, NEW next \in Seq(S), NEW todo \in Seq(S), todo # <<>>
    PROVE  LET s == next \o Tail(todo)
               n == Len(next)
           IN  /\ s \in Seq(S) /\ n \in Nat /\ Len(todo) \in Nat /\ Len(todo) >= 1
               /\ Len(s) = n + Len(todo) - 1
               /\ DOMAIN todo = 1..Len(todo) /\ DOMAIN next = 1..n /\ DOMAIN s = 1..Len(s)
               /\ \A i \in 1..n : s[i] = next[i]
               /\ \A i \in n+1..Len(s) : s[i] = todo[i - n + 1] /\ i - n + 1 \in 2..Len(todo)
               /\ \A j \in 2..Len(todo) : s[j + n - 1] = todo[j] /\ j + n - 1 \in n+1..Len(s)
               /\ Head(todo) = todo[1]
               /\ \A i \in 1..Len(s) : s[i] \in S
               /\ \A i \in 1..Len(todo) : todo[i] \in S
  <1> DEFINE s == next \o Tail(todo)
             n == Len(next)
             m == Len(todo)
  <1>1. n \in Nat /\ m \in Nat /\ DOMAIN todo = 1..m /\ DOMAIN next = 1..n
    BY LenProperties
  <1>2. m # 0
    BY EmptySeq
  <1>3. /\ Tail(todo) \in Seq(S) /\ Len(Tail(todo)) = m - 1
        /\ \A i \in 1..m - 1 : Tail(todo)[i] = todo[i + 1]
    BY HeadTailProperties
  <1>4. /\ s \in Seq(S) /\ Len(s) = n + (m - 1)
        /\ \A i \in 1..n + (m - 1) : s[i] = IF i <= n THEN next[i] ELSE Tail(todo)[i - n]
    BY <1>3, ConcatProperties
  <1>5. DOMAIN s = 1..Len(s)
    BY <1>4, LenProperties
  <1>6. Head(todo) = todo[1]
    BY <1>2
  <1>7. \A i \in 1..Len(s) : s[i] \in S
    BY <1>4, ElementOfSeq
  <1>8. \A i \in 1..m : todo[i] \in S
    BY ElementOfSeq
  <1> HIDE DEF s, n, m
  <1>9. \A i \in 1..n : s[i] = next[i]
    BY <1>1, <1>2, <1>4
  <1>10. \A i \in n+1..Len(s) : s[i] = todo[i - n + 1] /\ i - n + 1 \in 2..m
    <2> TAKE i \in n+1..Len(s)
    <2>1. i - n \in 1..m - 1 /\ ~(i <= n) /\ i \in 1..n + (m - 1)
      BY <1>1, <1>2, <1>4
    <2> QED
      BY <1>1, <1>3, <1>4, <2>1
  <1>11. \A j \in 2..m : s[j + n - 1] = todo[j] /\ j + n - 1 \in n+1..Len(s)
    <2> TAKE j \in 2..m
    <2>1. j + n - 1 \in n+1..Len(s) /\ (j + n - 1) - n + 1 = j
      BY <1>1, <1>2, <1>4
    <2> QED
      BY <1>10, <2>1
  <1> QED
    BY <1>1, <1>2, <1>4, <1>5, <1>6, <1>7, <1>8, <1>9, <1>10, <1>11 DEF s, n, m

\* A step gone, others put in its place: any inside a transaction, or one that stands alone for another.
LEMMA ShapeGoesOn ==
    ASSUME NEW todo, NEW inTx \in BOOLEAN, NEW c, Shape(todo, inTx, c), todo # <<>>,
           Head(todo) \in Plain(c) \cup {"load"}, NEW next \in Seq(Plain(c)),
           next = <<>> \/ inTx \/ (Len(next) = 1 /\ next[1] \in Alone /\ Head(todo) \in Alone)
    PROVE  Shape(next \o Tail(todo), inTx, c)
  <1> DEFINE s == next \o Tail(todo)
             n == Len(next)
             m == Len(todo)
  <1>1. todo \in Seq(Step(c)) /\ next \in Seq(Step(c))
    <2>1. \A i \in 1..n : next[i] \in Step(c)
      BY ElementOfSeq DEF Step
    <2> QED
      BY <2>1 DEF Shape
  <1>2. /\ s \in Seq(Step(c)) /\ n \in Nat /\ m \in Nat /\ m >= 1
        /\ Len(s) = n + m - 1
        /\ DOMAIN todo = 1..m /\ DOMAIN s = 1..Len(s)
        /\ \A i \in 1..n : s[i] = next[i] /\ next[i] \in Plain(c)
        /\ \A i \in n+1..Len(s) : s[i] = todo[i - n + 1] /\ i - n + 1 \in 2..m
        /\ \A j \in 2..m : s[j + n - 1] = todo[j] /\ j + n - 1 \in n+1..Len(s)
        /\ todo[1] \in Plain(c) \cup {"load"}
    BY <1>1, Rest, ElementOfSeq
  <1>3. n = 0 \/ inTx \/ (n = 1 /\ s[1] \in Alone /\ todo[1] \in Alone)
    BY <1>1, <1>2, Rest
  <1>4. /\ inTx => HasEnd(todo)
        /\ \A i \in 1..m :
             /\ todo[i] \in {"commit", "rollback"} => LastAt(todo, i) /\ (inTx \/ Begun(todo, i))
             /\ todo[i] = "begin" => ~inTx /\ HasEnd(todo) /\ \A k \in 1..(i - 1) : todo[k] \in {"load", "hook"}
             /\ todo[i] = "load" => IF c.outer /\ ~inTx THEN i = 2 /\ todo[1] = "begin" ELSE i = 1 /\ (inTx => c.outer)
             /\ todo[i] \in Together => inTx \/ Begun(todo, i)
             /\ todo[i] \in Alone => inTx \/ Begun(todo, i) \/ LastAt(todo, i)
    BY <1>2 DEF Shape
  <1>m. m = Len(todo)
    OBVIOUS
  <1> HIDE DEF s, n, m
  <1>5. todo[1] \notin {"begin", "commit", "rollback"}
    BY <1>2 DEF Plain, Alone, Together
  <1>6. ASSUME NEW j \in 2..m, LastAt(todo, j)
        PROVE  LastAt(s, j + n - 1)
    <2>1. Len(s) <= (j + n - 1) + 1
      BY <1>m, <1>2, <1>6 DEF LastAt
    <2>2. ASSUME Len(s) = (j + n - 1) + 1 PROVE s[(j + n - 1) + 1] = "hook"
      <3>1. m = j + 1 /\ todo[j + 1] = "hook"
        BY <1>m, <1>2, <1>6, <2>2 DEF LastAt
      <3>2. j + 1 \in 2..m /\ (j + 1) + n - 1 = (j + n - 1) + 1
        BY <1>2, <3>1
      <3> QED
        BY <1>2, <3>1, <3>2
    <2> QED
      BY <2>1, <2>2 DEF LastAt
  <1>7. ASSUME NEW j \in 2..m, Begun(todo, j)
        PROVE  Begun(s, j + n - 1)
    <2>1. PICK k \in 1..(j - 1) : todo[k] = "begin"
      BY <1>7 DEF Begun
    <2>2. k \in 2..m /\ k + n - 1 \in 1..((j + n - 1) - 1)
      BY <1>2, <1>5, <2>1
    <2> QED
      BY <1>2, <2>1, <2>2 DEF Begun
  <1>8. ASSUME HasEnd(todo)
        PROVE  HasEnd(s)
    <2>1. PICK i \in 1..m : todo[i] \in {"commit", "rollback"}
      BY <1>2, <1>8 DEF HasEnd
    <2>2. i \in 2..m
      BY <1>2, <1>5, <2>1
    <2>3. s[i + n - 1] = todo[i] /\ i + n - 1 \in DOMAIN s
      BY <1>2, <2>2
    <2> QED
      BY <2>1, <2>3 DEF HasEnd
  <1>9. ASSUME NEW i \in n+1..Len(s)
        PROVE  LET j == i - n + 1 IN
               /\ j \in 2..m /\ s[i] = todo[j] /\ i = j + n - 1
    BY <1>2
  <1>10. ASSUME NEW i \in 1..Len(s)
         PROVE  /\ s[i] \in {"commit", "rollback"} => LastAt(s, i) /\ (inTx \/ Begun(s, i))
                /\ s[i] = "begin" => ~inTx /\ HasEnd(s) /\ \A k \in 1..(i - 1) : s[k] \in {"load", "hook"}
                /\ s[i] = "load" => IF c.outer /\ ~inTx THEN i = 2 /\ s[1] = "begin" ELSE i = 1 /\ (inTx => c.outer)
                /\ s[i] \in Together => inTx \/ Begun(s, i)
                /\ s[i] \in Alone => inTx \/ Begun(s, i) \/ LastAt(s, i)
    <2>1. CASE i \in 1..n
      <3>1. s[i] \in Plain(c) /\ (inTx \/ (n = 1 /\ i = 1 /\ s[1] \in Alone /\ todo[1] \in Alone))
        BY <1>2, <1>3, <2>1
      <3>2. CASE inTx
        BY <3>1, <3>2 DEF Plain, Alone, Together
      <3>3. CASE ~inTx
        <4>1. LastAt(todo, 1)
          <5>1. ~Begun(todo, 1)
            BY DEF Begun
          <5> QED
            BY <1>2, <1>4, <3>1, <3>3, <5>1
        <4>2. LastAt(s, 1)
          BY <1>m, <1>2, <3>1, <3>3, <4>1 DEF LastAt
        <4> QED
          BY <3>1, <3>3, <4>2 DEF Alone, Together
      <3> QED
        BY <3>2, <3>3
    <2>2. CASE i \in n+1..Len(s)
      <3>1. PICK j \in 2..m : s[i] = todo[j] /\ i = j + n - 1
        BY <1>9, <2>2
      <3>2. ASSUME s[i] = "begin" PROVE ~inTx /\ HasEnd(s) /\ \A k \in 1..(i - 1) : s[k] \in {"load", "hook"}
        <4>1. ~inTx /\ HasEnd(todo) /\ \A k \in 1..(j - 1) : todo[k] \in {"load", "hook"}
          BY <1>2, <1>4, <3>1, <3>2
        <4>2. todo[1] \in {"load", "hook"}
          BY <1>2, <4>1
        <4>3. n = 0
          BY <1>3, <4>1, <4>2 DEF Alone
        <4>4. \A k \in 1..(i - 1) : s[k] \in {"load", "hook"}
          <5> TAKE k \in 1..(i - 1)
          <5>1. k \in n+1..Len(s) /\ k - n + 1 \in 1..(j - 1)
            BY <1>2, <3>1, <4>3, <2>2
          <5> QED
            BY <1>2, <4>1, <5>1
        <4> QED
          BY <1>8, <4>1, <4>4
      <3>3. s[i] # "load"
        BY <1>2, <1>4, <1>5, <3>1
      <3>4. /\ s[i] \in {"commit", "rollback"} => LastAt(s, i) /\ (inTx \/ Begun(s, i))
            /\ s[i] \in Together => inTx \/ Begun(s, i)
            /\ s[i] \in Alone => inTx \/ Begun(s, i) \/ LastAt(s, i)
        BY <1>2, <1>4, <1>6, <1>7, <3>1
      <3> QED
        BY <3>2, <3>3, <3>4
    <2> QED
      BY <1>2, <2>1, <2>2
  <1>11. Shape(s, inTx, c)
    BY <1>2, <1>4, <1>8, <1>10 DEF Shape
  <1> QED
    BY <1>11 DEF s

\* The tail of what is left, item by item.
LEMMA TailItems ==
    ASSUME NEW S, NEW todo \in Seq(S), todo # <<>>
    PROVE  LET s == Tail(todo)
               m == Len(todo)
           IN  /\ s \in Seq(S) /\ m \in Nat /\ m >= 1 /\ Len(s) = m - 1
               /\ DOMAIN todo = 1..m /\ DOMAIN s = 1..m - 1
               /\ \A i \in 1..m - 1 : s[i] = todo[i + 1] /\ i + 1 \in 2..m
               /\ Head(todo) = todo[1] /\ 1 \in 1..m
               /\ <<>> \o s = s
  <1> DEFINE s == Tail(todo)
             m == Len(todo)
  <1>1. m \in Nat /\ DOMAIN todo = 1..m /\ m # 0
    BY LenProperties, EmptySeq
  <1>2. s \in Seq(S) /\ Len(s) = m - 1 /\ \A i \in 1..m - 1 : s[i] = todo[i + 1]
    BY HeadTailProperties
  <1>3. DOMAIN s = 1..m - 1 /\ <<>> \o s = s
    BY <1>2, LenProperties, ConcatEmptySeq
  <1>4. Head(todo) = todo[1]
    BY <1>1
  <1> HIDE DEF s, m
  <1>5. m >= 1 /\ 1 \in 1..m /\ \A i \in 1..m - 1 : i + 1 \in 2..m
    BY <1>1
  <1> QED
    BY <1>1, <1>2, <1>3, <1>4, <1>5 DEF s, m

\* The transaction of a call opens: its end is ahead.
LEMMA ShapeBegins ==
    ASSUME NEW todo, NEW c, Shape(todo, FALSE, c), todo # <<>>, Head(todo) = "begin"
    PROVE  Shape(Tail(todo), TRUE, c)
  <1> DEFINE s == Tail(todo)
             m == Len(todo)
  <1>1. /\ s \in Seq(Step(c)) /\ m \in Nat /\ m >= 1 /\ Len(s) = m - 1
        /\ DOMAIN todo = 1..m /\ DOMAIN s = 1..m - 1
        /\ \A i \in 1..m - 1 : s[i] = todo[i + 1] /\ i + 1 \in 2..m
        /\ todo[1] = "begin" /\ 1 \in 1..m
    BY TailItems DEF Shape
  <1>2. \A i \in 1..m :
           /\ todo[i] \in {"commit", "rollback"} => LastAt(todo, i)
           /\ todo[i] = "begin" => HasEnd(todo) /\ \A k \in 1..(i - 1) : todo[k] \in {"load", "hook"}
           /\ todo[i] = "load" => IF c.outer THEN i = 2 ELSE i = 1
    BY <1>1 DEF Shape
  <1>m. m = Len(todo)
    OBVIOUS
  <1> HIDE DEF s, m
  <1>3. HasEnd(s)
    <2>1. PICK i \in 1..m : todo[i] \in {"commit", "rollback"}
      BY <1>1, <1>2 DEF HasEnd
    <2>2. i - 1 \in 1..m - 1 /\ (i - 1) + 1 = i
      BY <1>1, <2>1
    <2>3. s[i - 1] = todo[i]
      BY <1>1, <2>2
    <2> QED
      BY <1>1, <2>1, <2>2, <2>3 DEF HasEnd
  <1>4. ASSUME NEW i \in 1..m - 1
        PROVE  /\ s[i] \in {"commit", "rollback"} => LastAt(s, i)
               /\ s[i] # "begin"
               /\ s[i] = "load" => i = 1 /\ c.outer
    <2>1. i \in Nat /\ i + 1 \in 2..m /\ s[i] = todo[i + 1] /\ 1 \in 1..((i + 1) - 1)
      BY <1>1
    <2>2. s[i] # "begin"
      BY <1>1, <1>2, <2>1
    <2>3. s[i] = "load" => i = 1 /\ c.outer
      BY <1>1, <1>2, <2>1
    <2>4. ASSUME s[i] \in {"commit", "rollback"} PROVE LastAt(s, i)
      <3>1. m <= (i + 1) + 1 /\ (m = (i + 1) + 1 => todo[(i + 1) + 1] = "hook")
        BY <1>m, <1>1, <1>2, <2>1, <2>4 DEF LastAt
      <3>2. ASSUME m - 1 = i + 1 PROVE s[i + 1] = "hook"
        <4>1. i + 1 \in 1..m - 1 /\ m = (i + 1) + 1
          BY <1>1, <2>1, <3>2
        <4> QED
          BY <1>1, <3>1, <4>1
      <3> QED
        BY <1>1, <2>1, <3>1, <3>2 DEF LastAt
    <2> QED
      BY <2>2, <2>3, <2>4
  <1> QED
    BY <1>1, <1>3, <1>4 DEF Shape, s

\* What is left at the end of a call or of its transaction: a hook at most.
LEMMA ShapeOfLittle ==
    ASSUME NEW c
    PROVE  /\ Shape(<<>>, FALSE, c) /\ Shape(<<"hook">>, FALSE, c)
           /\ Shape(<<"rollback">>, TRUE, c) /\ Shape(<<"commit">>, TRUE, c)
  <1>1. /\ <<>> \in Seq(Step(c)) /\ <<"hook">> \in Seq(Step(c))
        /\ <<"rollback">> \in Seq(Step(c)) /\ <<"commit">> \in Seq(Step(c))
    BY DEF Step, Plain
  <1> QED
    BY <1>1 DEF Shape, HasEnd, LastAt, Alone, Together

LEMMA LittleIsLeft ==
    ASSUME NEW c, NEW todo \in Seq(Step(c)), todo # <<>>, LastAt(todo, 1)
    PROVE  Tail(todo) \in {<<>>, <<"hook">>}
  <1> DEFINE s == Tail(todo)
             m == Len(todo)
  <1>1. /\ s \in Seq(Step(c)) /\ m \in Nat /\ m >= 1 /\ Len(s) = m - 1
        /\ \A i \in 1..m - 1 : s[i] = todo[i + 1]
    BY TailItems
  <1>m. m = Len(todo)
    OBVIOUS
  <1> HIDE DEF s, m
  <1>2. m <= 2 /\ (m = 2 => todo[2] = "hook")
    BY <1>m DEF LastAt
  <1>3. CASE m = 1
    <2>1. Len(s) = 0 /\ s \in Seq(Step(c))
      BY <1>1, <1>3
    <2>2. s = <<>>
      BY <2>1, EmptySeq
    <2> QED
      BY <2>2 DEF s
  <1>4. CASE m = 2
    <2>1. Len(s) = 1 /\ s[1] = "hook"
      BY <1>1, <1>2, <1>4
    <2>2. s = <<"hook">>
      BY <1>1, <2>1
    <2> QED
      BY <2>2 DEF s
  <1> QED
    BY <1>1, <1>2, <1>3, <1>4

\* What the head of what is left says of the rest.
LEMMA HeadOfShape ==
    ASSUME NEW todo, NEW inTx \in BOOLEAN, NEW c, Shape(todo, inTx, c), todo # <<>>
    PROVE  /\ Head(todo) \in Step(c) /\ todo \in Seq(Step(c))
           /\ Head(todo) \in Together => inTx
           /\ Head(todo) \in Alone /\ ~inTx => Tail(todo) \in {<<>>, <<"hook">>}
           /\ Head(todo) \in {"commit", "rollback"} => inTx /\ Tail(todo) \in {<<>>, <<"hook">>}
           /\ Head(todo) = "begin" => ~inTx
           /\ Head(todo) = "load" => (inTx <=> c.outer)
           /\ Head(todo) = "save" => c.list # None /\ c.ids # {}
  <1>1. todo \in Seq(Step(c)) /\ Head(todo) = todo[1] /\ 1 \in DOMAIN todo
    BY TailItems DEF Shape
  <1>2. todo[1] \in Step(c)
    BY <1>1, TailItems, ElementOfSeq
  <1>3. ~Begun(todo, 1)
    BY DEF Begun
  <1>4. todo[1] = "save" => c.list # None /\ c.ids # {}
    BY <1>2 DEF Step, Plain, Alone, Together
  <1>5. /\ todo[1] \in {"commit", "rollback"} => LastAt(todo, 1) /\ inTx
        /\ todo[1] = "begin" => ~inTx
        /\ todo[1] = "load" => IF c.outer /\ ~inTx THEN todo[1] = "begin" ELSE inTx => c.outer
        /\ todo[1] \in Together => inTx
        /\ todo[1] \in Alone => inTx \/ LastAt(todo, 1)
    BY <1>1, <1>3 DEF Shape
  <1> QED
    BY <1>1, <1>2, <1>4, <1>5, LittleIsLeft
-----------------------------------------------------------------------------
(***************************************************************************)
(* What a call starts with.                                                *)
(***************************************************************************)
\* One step in front of others, item by item.
LEMMA InFront ==
    ASSUME NEW S, NEW p \in S, NEW t \in Seq(S)
    PROVE  LET s == <<p>> \o t
           IN  /\ s \in Seq(S) /\ Len(t) \in Nat /\ Len(s) = Len(t) + 1
               /\ DOMAIN t = 1..Len(t) /\ DOMAIN s = 1..Len(t) + 1
               /\ s[1] = p
               /\ \A i \in 1..Len(t) : s[i + 1] = t[i]
               /\ \A i \in 1..Len(t) + 1 : i = 1 \/ (i - 1 \in 1..Len(t) /\ s[i] = t[i - 1])
  <1> DEFINE s == <<p>> \o t
             n == Len(t)
  <1>1. n \in Nat /\ DOMAIN t = 1..n
    BY LenProperties
  <1>2. <<p>> \in Seq(S) /\ Len(<<p>>) = 1 /\ <<p>>[1] = p
    OBVIOUS
  <1>3. /\ s \in Seq(S) /\ Len(s) = 1 + n
        /\ \A i \in 1..1 + n : s[i] = IF i <= 1 THEN <<p>>[i] ELSE t[i - 1]
    BY <1>2, ConcatProperties
  <1>4. DOMAIN s = 1..1 + n
    BY <1>3, LenProperties
  <1> HIDE DEF s, n
  <1>5. 1 + n = n + 1 /\ 1 \in 1..1 + n /\ s[1] = p
    BY <1>1, <1>2, <1>3
  <1>6. \A i \in 1..n : s[i + 1] = t[i]
    <2> TAKE i \in 1..n
    <2>1. i + 1 \in 1..1 + n /\ ~(i + 1 <= 1) /\ (i + 1) - 1 = i
      BY <1>1
    <2> QED
      BY <1>3, <2>1
  <1>7. \A i \in 1..n + 1 : i = 1 \/ (i - 1 \in 1..n /\ s[i] = t[i - 1])
    <2> TAKE i \in 1..n + 1
    <2> QED
      BY <1>1, <1>3, <1>5
  <1> QED
    BY <1>1, <1>3, <1>4, <1>5, <1>6, <1>7 DEF s, n

\* A transaction opened in front of what runs in one, a read in front of what reads nothing.
LEMMA ShapeExtends ==
    ASSUME NEW t, NEW c, NEW inTx \in BOOLEAN, Shape(t, inTx, c), NEW before \in BOOLEAN, NEW p,
           \/ p = "begin" /\ ~before /\ inTx
           \/ p = "load" /\ before = inTx /\ inTx = c.outer /\ \A i \in DOMAIN t : t[i] # "load"
    PROVE  Shape(<<p>> \o t, before, c)
  <1> DEFINE s == <<p>> \o t
             n == Len(t)
  <1>1. t \in Seq(Step(c)) /\ p \in Step(c)
    BY DEF Shape, Step
  <1>2. /\ s \in Seq(Step(c)) /\ n \in Nat /\ Len(s) = n + 1
        /\ DOMAIN t = 1..n /\ DOMAIN s = 1..n + 1
        /\ s[1] = p
        /\ \A i \in 1..n : s[i + 1] = t[i]
        /\ \A i \in 1..n + 1 : i = 1 \/ (i - 1 \in 1..n /\ s[i] = t[i - 1])
    BY <1>1, InFront
  <1>3. /\ inTx => HasEnd(t)
        /\ \A i \in 1..n :
             /\ t[i] \in {"commit", "rollback"} => LastAt(t, i) /\ (inTx \/ Begun(t, i))
             /\ t[i] = "begin" => ~inTx /\ HasEnd(t) /\ \A k \in 1..(i - 1) : t[k] \in {"load", "hook"}
             /\ t[i] = "load" => IF c.outer /\ ~inTx THEN i = 2 /\ t[1] = "begin" ELSE i = 1 /\ (inTx => c.outer)
             /\ t[i] \in Together => inTx \/ Begun(t, i)
             /\ t[i] \in Alone => inTx \/ Begun(t, i) \/ LastAt(t, i)
    BY <1>2 DEF Shape
  <1>4. p = "load" => \A i \in 1..n : t[i] # "load"
    BY <1>2
  <1>n. n = Len(t)
    OBVIOUS
  <1> HIDE DEF s, n
  <1>5. ASSUME NEW i \in 1..n, LastAt(t, i)
        PROVE  LastAt(s, i + 1)
    <2>1. n <= i + 1 /\ (n = i + 1 => t[i + 1] = "hook")
      BY <1>n, <1>5 DEF LastAt
    <2>2. ASSUME n + 1 = (i + 1) + 1 PROVE s[(i + 1) + 1] = "hook"
      <3>1. n = i + 1 /\ i + 1 \in 1..n
        BY <1>2, <2>2
      <3> QED
        BY <1>2, <2>1, <3>1
    <2> QED
      BY <1>2, <2>1, <2>2 DEF LastAt
  <1>6. HasEnd(t) => HasEnd(s)
    <2> SUFFICES ASSUME HasEnd(t) PROVE HasEnd(s)
      OBVIOUS
    <2>1. PICK i \in 1..n : t[i] \in {"commit", "rollback"}
      BY <1>2 DEF HasEnd
    <2>2. i + 1 \in DOMAIN s /\ s[i + 1] = t[i]
      BY <1>2
    <2> QED
      BY <2>1, <2>2 DEF HasEnd
  <1>7. ASSUME NEW i \in 1..n, inTx \/ Begun(t, i)
        PROVE  before \/ Begun(s, i + 1)
    <2>1. CASE Begun(t, i)
      <3>1. PICK k \in 1..(i - 1) : t[k] = "begin"
        BY <2>1 DEF Begun
      <3>2. k \in 1..n /\ k + 1 \in 1..((i + 1) - 1)
        BY <1>2
      <3>3. s[k + 1] = "begin"
        BY <1>2, <3>1, <3>2
      <3> QED
        BY <3>2, <3>3 DEF Begun
    <2>2. CASE p = "begin"
      <3>1. 1 \in 1..((i + 1) - 1)
        OBVIOUS
      <3> QED
        BY <1>2, <2>2, <3>1 DEF Begun
    <2> QED
      BY <1>7, <2>1, <2>2
  <1>8. ASSUME NEW i \in 1..n + 1
        PROVE  /\ s[i] \in {"commit", "rollback"} => LastAt(s, i) /\ (before \/ Begun(s, i))
               /\ s[i] = "begin" => ~before /\ HasEnd(s) /\ \A k \in 1..(i - 1) : s[k] \in {"load", "hook"}
               /\ s[i] = "load" => IF c.outer /\ ~before THEN i = 2 /\ s[1] = "begin" ELSE i = 1 /\ (before => c.outer)
               /\ s[i] \in Together => before \/ Begun(s, i)
               /\ s[i] \in Alone => before \/ Begun(s, i) \/ LastAt(s, i)
    <2>1. CASE i = 1
      BY <1>2, <1>3, <1>6, <2>1 DEF Together, Alone
    <2>2. CASE i # 1
      <3>1. PICK j \in 1..n : i = j + 1 /\ s[i] = t[j]
        <4>1. i - 1 \in 1..n /\ i = (i - 1) + 1 /\ s[i] = t[i - 1]
          BY <1>2, <2>2
        <4> QED
          BY <4>1
      <3>2. ASSUME s[i] = "begin" PROVE ~before /\ HasEnd(s) /\ \A k \in 1..(i - 1) : s[k] \in {"load", "hook"}
        <4>1. p = "load" /\ ~inTx /\ HasEnd(t) /\ \A k \in 1..(j - 1) : t[k] \in {"load", "hook"}
          BY <1>3, <3>1, <3>2
        <4>2. \A k \in 1..(i - 1) : s[k] \in {"load", "hook"}
          <5> TAKE k \in 1..(i - 1)
          <5>1. k \in 1..n + 1 /\ (k = 1 \/ k - 1 \in 1..(j - 1))
            BY <1>2, <3>1
          <5> QED
            BY <1>2, <4>1, <5>1
        <4> QED
          BY <1>6, <4>1, <4>2
      <3>3. ASSUME s[i] = "load"
            PROVE  IF c.outer /\ ~before THEN i = 2 /\ s[1] = "begin" ELSE i = 1 /\ (before => c.outer)
        <4>1. p = "begin" /\ t[j] = "load"
          BY <1>4, <3>1, <3>3
        <4>2. j = 1 /\ c.outer
          BY <1>3, <4>1
        <4> QED
          BY <1>2, <3>1, <4>1, <4>2
      <3>4. /\ s[i] \in {"commit", "rollback"} => LastAt(s, i) /\ (before \/ Begun(s, i))
            /\ s[i] \in Together => before \/ Begun(s, i)
            /\ s[i] \in Alone => before \/ Begun(s, i) \/ LastAt(s, i)
        BY <1>3, <1>5, <1>7, <3>1
      <3> QED
        BY <3>2, <3>3, <3>4
    <2> QED
      BY <2>1, <2>2
  <1> QED
    BY <1>2, <1>3, <1>6, <1>8 DEF Shape, s

\* What runs in a transaction, up to its end.
LEMMA ShapeOfBody ==
    ASSUME NEW c, NEW body \in Seq(Plain(c))
    PROVE  LET s == body \o <<"commit">>
           IN  Shape(s, TRUE, c) /\ \A i \in DOMAIN s : s[i] # "load"
  <1> DEFINE s == body \o <<"commit">>
             n == Len(body)
  <1>1. n \in Nat /\ \A i \in 1..n : body[i] \in Plain(c)
    BY LenProperties, ElementOfSeq
  <1>2. s = Append(body, "commit")
    BY AppendIsConcat
  <1>3. body \in Seq(Step(c)) /\ "commit" \in Step(c)
    <2>1. \A i \in 1..n : body[i] \in Step(c)
      BY <1>1 DEF Step
    <2> QED
      BY <2>1 DEF Step
  <1>4. /\ s \in Seq(Step(c)) /\ Len(s) = n + 1 /\ s[n + 1] = "commit"
        /\ \A i \in 1..n : s[i] = body[i]
    BY <1>2, <1>3, AppendProperties
  <1>5. DOMAIN s = 1..n + 1
    BY <1>4, LenProperties
  <1> HIDE DEF s, n
  <1>6. \A i \in 1..n + 1 : (i = n + 1 /\ s[i] = "commit") \/ s[i] \in Plain(c)
    BY <1>1, <1>4
  <1>7. n + 1 \in 1..n + 1 /\ LastAt(s, n + 1)
    BY <1>1, <1>4 DEF LastAt
  <1>8. HasEnd(s)
    BY <1>4, <1>5, <1>7 DEF HasEnd
  <1>9. \A i \in 1..n + 1 : /\ s[i] \in {"commit", "rollback"} => LastAt(s, i)
                            /\ s[i] # "begin" /\ s[i] # "load"
    BY <1>6, <1>7 DEF Plain, Alone, Together
  <1> QED
    BY <1>4, <1>5, <1>8, <1>9 DEF Shape, s
\* Tuples end to end.
LEMMA Joined ==
    ASSUME NEW S, NEW s \in Seq(S), NEW x \in S, NEW t \in Seq(S),
           Len(t) = Len(s) + 1, t[Len(t)] = x, \A i \in 1..Len(s) : t[i] = s[i]
    PROVE  s \o <<x>> = t
  <1>1. <<x>> \in Seq(S) /\ Len(<<x>>) = 1 /\ <<x>>[1] = x
    OBVIOUS
  <1>2. /\ s \o <<x>> \in Seq(S) /\ Len(s \o <<x>>) = Len(s) + 1
        /\ \A i \in 1..Len(s) + 1 : (s \o <<x>>)[i] = IF i <= Len(s) THEN s[i] ELSE <<x>>[i - Len(s)]
    BY <1>1, ConcatProperties
  <1>3. Len(s) \in Nat
    BY LenProperties
  <1>4. \A i \in 1..Len(t) : t[i] = (s \o <<x>>)[i]
    <2> TAKE i \in 1..Len(t)
    <2>1. CASE i <= Len(s)
      BY <1>2, <1>3, <2>1
    <2>2. CASE i = Len(s) + 1
      BY <1>1, <1>2, <1>3, <2>2
    <2> QED
      BY <1>3, <2>1, <2>2
  <1> QED
    BY <1>2, <1>4, SeqEqual

LEMMA Pair ==
    ASSUME NEW a, NEW x
    PROVE  <<a>> \o <<x>> = <<a, x>>
  <1> DEFINE S == {a, x}
             s == <<a>>
             t == <<a, x>>
  <1>1. s \in Seq(S) /\ t \in Seq(S) /\ x \in S
    OBVIOUS
  <1>2. Len(t) = Len(s) + 1
    OBVIOUS
  <1>3. t[Len(t)] = x
    OBVIOUS
  <1>4. \A i \in 1..Len(s) : t[i] = s[i]
    OBVIOUS
  <1> HIDE DEF S, s, t
  <1>5. s \o <<x>> = t
    BY <1>1, <1>2, <1>3, <1>4, Joined
  <1> QED
    BY <1>5 DEF s, t

LEMMA Triple ==
    ASSUME NEW a, NEW b, NEW x
    PROVE  <<a, b>> \o <<x>> = <<a, b, x>>
  <1> DEFINE S == {a, b, x}
             s == <<a, b>>
             t == <<a, b, x>>
  <1>1. s \in Seq(S) /\ t \in Seq(S) /\ x \in S
    OBVIOUS
  <1>2. Len(t) = Len(s) + 1
    OBVIOUS
  <1>3. t[Len(t)] = x
    OBVIOUS
  <1>4. \A i \in 1..Len(s) : t[i] = s[i]
    OBVIOUS
  <1> HIDE DEF S, s, t
  <1>5. s \o <<x>> = t
    BY <1>1, <1>2, <1>3, <1>4, Joined
  <1> QED
    BY <1>5 DEF s, t

LEMMA Quadruple ==
    ASSUME NEW a, NEW b, NEW d, NEW x
    PROVE  <<a, b, d>> \o <<x>> = <<a, b, d, x>>
  <1> DEFINE S == {a, b, d, x}
             s == <<a, b, d>>
             t == <<a, b, d, x>>
  <1>1. s \in Seq(S) /\ t \in Seq(S) /\ x \in S
    OBVIOUS
  <1>2. Len(t) = Len(s) + 1
    OBVIOUS
  <1>3. t[Len(t)] = x
    OBVIOUS
  <1>4. \A i \in 1..Len(s) : t[i] = s[i]
    OBVIOUS
  <1> HIDE DEF S, s, t
  <1>5. s \o <<x>> = t
    BY <1>1, <1>2, <1>3, <1>4, Joined
  <1> QED
    BY <1>5 DEF s, t

LEMMA Quintuple ==
    ASSUME NEW a, NEW b, NEW d, NEW e, NEW x
    PROVE  <<a, b, d, e>> \o <<x>> = <<a, b, d, e, x>>
  <1> DEFINE S == {a, b, d, e, x}
             s == <<a, b, d, e>>
             t == <<a, b, d, e, x>>
  <1>1. s \in Seq(S) /\ t \in Seq(S) /\ x \in S
    OBVIOUS
  <1>2. Len(t) = Len(s) + 1
    OBVIOUS
  <1>3. t[Len(t)] = x
    OBVIOUS
  <1>4. \A i \in 1..Len(s) : t[i] = s[i]
    OBVIOUS
  <1> HIDE DEF S, s, t
  <1>5. s \o <<x>> = t
    BY <1>1, <1>2, <1>3, <1>4, Joined
  <1> QED
    BY <1>5 DEF s, t

\* One in front of two, and of three.
LEMMA FrontOfTuple ==
    ASSUME NEW a, NEW b, NEW d, NEW x
    PROVE  /\ <<a>> \o <<b, x>> = <<a, b, x>>
           /\ <<a>> \o <<b, d, x>> = <<a, b, d, x>>
  <1> DEFINE S == {a, b, d, x}
  <1>1. /\ <<a>> \in Seq(S) /\ <<b>> \in Seq(S) /\ <<x>> \in Seq(S) /\ <<d>> \in Seq(S)
        /\ <<b, d>> \in Seq(S)
    OBVIOUS
  <1> HIDE DEF S
  <1>2. <<a>> \o (<<b>> \o <<x>>) = (<<a>> \o <<b>>) \o <<x>>
    BY <1>1, ConcatAssociative
  <1>3. <<a>> \o (<<b>> \o <<d>>) = (<<a>> \o <<b>>) \o <<d>>
    BY <1>1, ConcatAssociative
  <1>4. <<a>> \o (<<b, d>> \o <<x>>) = (<<a>> \o <<b, d>>) \o <<x>>
    BY <1>1, ConcatAssociative
  <1>5. <<a>> \o <<b>> = <<a, b>> /\ <<b>> \o <<x>> = <<b, x>> /\ <<b>> \o <<d>> = <<b, d>>
    BY Pair
  <1>6. <<a, b>> \o <<x>> = <<a, b, x>> /\ <<a, b>> \o <<d>> = <<a, b, d>> /\ <<b, d>> \o <<x>> = <<b, d, x>>
    BY Triple
  <1>7. <<a, b, d>> \o <<x>> = <<a, b, d, x>>
    BY Quadruple
  <1> QED
    BY <1>2, <1>3, <1>4, <1>5, <1>6, <1>7

\* One step ahead of three.
LEMMA FrontOfThree ==
    \A a, b, d, e : <<a>> \o <<b, d, e>> = <<a, b, d, e>>
  <1> TAKE a, b, d, e
  <1>1. /\ <<a>> \o <<b, e>> = <<a, b, e>>
        /\ <<a>> \o <<b, d, e>> = <<a, b, d, e>>
    BY FrontOfTuple
  <1> QED
    BY <1>1

LEMMA HookedOne ==
    ASSUME NEW x
    PROVE  /\ Hooked(<<x>>) = <<"hook", x, "hook">>
           /\ Hooked(<<"begin">> \o <<x>> \o <<"commit">>) = <<"hook", "begin", x, "commit", "hook">>
  <1>1. <<"hook">> \o <<x>> = <<"hook", x>> /\ <<"begin">> \o <<x>> = <<"begin", x>>
    BY Pair
  <1>2. <<"hook", x>> \o <<"hook">> = <<"hook", x, "hook">> /\ <<"begin", x>> \o <<"commit">> = <<"begin", x, "commit">>
    BY Triple
  <1>3. <<"hook">> \o <<"begin", x, "commit">> = <<"hook", "begin", x, "commit">>
    BY FrontOfThree, Zenon
  <1>4. <<"hook", "begin", x, "commit">> \o <<"hook">> = <<"hook", "begin", x, "commit", "hook">>
    BY Quintuple
  <1> QED
    BY <1>1, <1>2, <1>3, <1>4 DEF Hooked

LEMMA HookedPlain ==
    ASSUME NEW c, NEW body \in Seq(Plain(c))
    PROVE  Hooked(body) \in Seq(Plain(c))
  <1>1. <<"hook">> \in Seq(Plain(c))
    BY DEF Plain
  <1>2. <<"hook">> \o body \in Seq(Plain(c))
    BY <1>1, ConcatProperties
  <1> QED
    BY <1>1, <1>2, ConcatProperties DEF Hooked

\* A body in a transaction of its own.
LEMMA ShapeOfTransaction ==
    ASSUME NEW c, NEW body \in Seq(Plain(c))
    PROVE  LET s == <<"begin">> \o body \o <<"commit">>
           IN  Shape(s, FALSE, c) /\ \A i \in DOMAIN s : s[i] # "load"
  <1> DEFINE t == body \o <<"commit">>
  <1>1. Shape(t, TRUE, c) /\ \A i \in DOMAIN t : t[i] # "load"
    BY ShapeOfBody
  <1>2. Shape(<<"begin">> \o t, FALSE, c)
    BY <1>1, ShapeExtends
  <1>3. /\ <<"begin">> \in Seq(Step(c)) /\ <<"commit">> \in Seq(Step(c)) /\ "begin" \in Step(c)
        /\ body \in Seq(Step(c)) /\ t \in Seq(Step(c))
    <2>1. \A i \in 1..Len(body) : body[i] \in Step(c)
      BY ElementOfSeq DEF Step
    <2>2. body \in Seq(Step(c))
      BY <2>1
    <2> QED
      BY <1>1, <2>2 DEF Step, Shape
  <1>4. <<"begin">> \o body \o <<"commit">> = <<"begin">> \o t
    BY <1>3, ConcatAssociative
  <1>5. \A i \in DOMAIN (<<"begin">> \o t) : (<<"begin">> \o t)[i] # "load"
    <2> DEFINE s == <<"begin">> \o t
    <2>1. /\ DOMAIN t = 1..Len(t) /\ DOMAIN s = 1..Len(t) + 1 /\ s[1] = "begin"
          /\ \A i \in 1..Len(t) + 1 : i = 1 \/ (i - 1 \in 1..Len(t) /\ s[i] = t[i - 1])
      BY <1>3, InFront
    <2> QED
      BY <1>1, <2>1
  <1> QED
    BY <1>2, <1>4, <1>5

\* What stands alone, or has its transaction inside its hooks.
LEMMA ShapeOfAlone ==
    ASSUME NEW c, NEW x \in Plain(c) \ {"hook"},
           NEW s, \/ x \in Alone /\ s = <<"hook", x, "hook">>
                  \/ s = <<"hook", "begin", x, "commit", "hook">>
                  \/ s = <<>>
    PROVE  Shape(s, FALSE, c) /\ \A i \in DOMAIN s : s[i] # "load"
  <1>1. x \in Alone \cup Together /\ x \in Step(c) /\ x \in Plain(c)
    BY DEF Plain, Step
  <1>2. CASE x \in Alone /\ s = <<"hook", x, "hook">>
    <2>1. s \in Seq(Step(c)) /\ DOMAIN s = 1..3 /\ Len(s) = 3 /\ s[1] = "hook" /\ s[2] = x /\ s[3] = "hook"
      BY <1>1, <1>2 DEF Step, Plain
    <2>2. LastAt(s, 2)
      BY <2>1 DEF LastAt
    <2>3. \A i \in DOMAIN s : s[i] = "hook" \/ (i = 2 /\ s[i] \in Alone)
      BY <1>2, <2>1
    <2> QED
      BY <2>1, <2>2, <2>3 DEF Shape, Alone, Together
  <1>3. CASE s = <<"hook", "begin", x, "commit", "hook">>
    <2>1. /\ s \in Seq(Step(c)) /\ DOMAIN s = 1..5 /\ Len(s) = 5
          /\ s[1] = "hook" /\ s[2] = "begin" /\ s[3] = x /\ s[4] = "commit" /\ s[5] = "hook"
      BY <1>1, <1>3 DEF Step, Plain
    <2>2. LastAt(s, 4) /\ HasEnd(s) /\ Begun(s, 3) /\ Begun(s, 4)
      BY <2>1 DEF LastAt, HasEnd, Begun
    <2>3. \A i \in DOMAIN s : \/ s[i] = "hook"
                              \/ i = 2 /\ s[i] = "begin"
                              \/ i = 3 /\ s[i] \in Alone \cup Together
                              \/ i = 4 /\ s[i] = "commit"
      BY <1>1, <2>1
    <2> QED
      BY <2>1, <2>2, <2>3 DEF Shape, Alone, Together
  <1>4. CASE s = <<>>
    <2>1. Shape(<<>>, FALSE, c)
      BY ShapeOfLittle
    <2>2. \A i \in DOMAIN s : s[i] # "load"
      BY <1>4
    <2> QED
      BY <1>4, <2>1, <2>2
  <1> QED
    BY <1>2, <1>3, <1>4

\* The body of a call whose transaction its caller opened.
LEMMA BodyIsPlain ==
    ASSUME NEW c \in CallRecord, c.outer,
           c.op = "upsert" /\ c.list # None => c.ids # {},
           c.op = "saveChild" => c.list # None,
           c.op \in {"insert", "saveChild"} /\ c.list # None => c.ids # {}
    PROVE  CallBody(c) \in Seq(Plain(c))
  <1> USE DEF Atomically
  <1>1. \A x \in Plain(c) : <<x>> \in Seq(Plain(c))
    OBVIOUS
  <1>2. Together \subseteq Plain(c) /\ {"hook", "match", "where", "merge", "insert", "restore"} \subseteq Plain(c)
    BY DEF Plain, Alone
  <1>3. c.list # None /\ c.ids # {} => "save" \in Plain(c)
    BY DEF Plain, Alone
  <1>4. UpdateWhere(c) \in Seq(Plain(c))
    <2>1. <<"settle", "match", "readBack">> \in Seq(Plain(c)) /\ <<"settle", "readBack">> \in Seq(Plain(c))
      BY <1>2 DEF Together
    <2>2. UpdateRows(c, TRUE) \in Seq(Plain(c)) /\ UpdateRows(c, FALSE) \in Seq(Plain(c))
      BY <1>1, <1>2 DEF Together, UpdateRows
    <2> QED
      BY <2>1, <2>2, HookedPlain DEF UpdateWhere
  <1>5. UpsertMany(c) \in Seq(Plain(c))
    BY <1>1, <1>2, HookedPlain DEF UpsertMany, Together
  <1>6. c.op = "insert" => InsertMany(c) \in Seq(Plain(c))
    <2>1. c.op = "insert" /\ c.list # None => <<"insert", "save">> \in Seq(Plain(c))
      BY <1>2, <1>3
    <2> QED
      BY <1>1, <1>2, <2>1, HookedPlain DEF InsertMany, WritesRelations
  <1>7. DeleteRows(c) \in Seq(Plain(c))
    BY <1>1, <1>2 DEF DeleteRows, Together
  <1>8. Hooked(<<"restore">>) \in Seq(Plain(c))
    BY <1>1, <1>2, HookedPlain
  <1>9. c.op = "saveChild" => Hooked(<<"save">>) \in Seq(Plain(c))
    BY <1>1, <1>3, HookedPlain
  <1>10. <<>> \in Seq(Plain(c))
    BY EmptySeq
  <1> QED
    BY <1>4, <1>5, <1>6, <1>7, <1>8, <1>9, <1>10 DEF CallBody
\* What a call starts with, whatever it is.
LEMMA ShapeOfProgram ==
    ASSUME NEW c \in CallRecord,
           c.op = "upsert" /\ c.list # None => c.ids # {},
           c.op = "saveChild" => c.list # None,
           c.op \in {"insert", "saveChild"} /\ c.list # None => c.ids # {}
    PROVE  Shape(Program(c), FALSE, c)
  <1> DEFINE reading == IF plan.versioned /\ c.op \in {"update", "upsert"} THEN <<"load">> ELSE <<>>
             body == CallBody(c)
  <1>1. CASE c.outer
    <2> DEFINE t == body \o <<"commit">>
    <2>1. body \in Seq(Plain(c))
      BY <1>1, BodyIsPlain
    <2>2. Shape(t, TRUE, c) /\ \A i \in DOMAIN t : t[i] # "load"
      BY <2>1, ShapeOfBody
    <2>3. /\ body \in Seq(Step(c)) /\ t \in Seq(Step(c)) /\ "begin" \in Step(c) /\ "load" \in Step(c)
          /\ <<"begin">> \in Seq(Step(c)) /\ <<"load">> \in Seq(Step(c)) /\ <<"commit">> \in Seq(Step(c))
      <3>1. \A i \in 1..Len(body) : body[i] \in Step(c)
        BY <2>1, ElementOfSeq DEF Step
      <3>2. body \in Seq(Step(c))
        BY <2>1, <3>1
      <3> QED
        BY <2>2, <3>2 DEF Step, Shape
    <2>4. Shape(<<"begin">> \o t, FALSE, c)
      BY <2>2, ShapeExtends
    <2>5. Shape(<<"begin">> \o (<<"load">> \o t), FALSE, c)
      <3>1. Shape(<<"load">> \o t, TRUE, c)
        BY <1>1, <2>2, ShapeExtends
      <3> QED
        BY <3>1, ShapeExtends
    <2> HIDE DEF body
    <2>6. <<"begin">> \o <<>> \o body \o <<"commit">> = <<"begin">> \o t
      <3>1. <<"begin">> \o <<>> = <<"begin">>
        BY <2>3, ConcatEmptySeq
      <3>2. (<<"begin">> \o body) \o <<"commit">> = <<"begin">> \o t
        BY <2>3, ConcatAssociative
      <3> QED
        BY <3>1, <3>2
    <2>7. <<"begin">> \o <<"load">> \o body \o <<"commit">> = <<"begin">> \o (<<"load">> \o t)
      <3>1. <<"begin">> \o <<"load">> \in Seq(Step(c)) /\ <<"load">> \o body \in Seq(Step(c))
        BY <2>3, ConcatProperties
      <3>2. (<<"begin">> \o <<"load">>) \o body = <<"begin">> \o (<<"load">> \o body)
        BY <2>3, ConcatAssociative
      <3>3. (<<"begin">> \o (<<"load">> \o body)) \o <<"commit">> = <<"begin">> \o ((<<"load">> \o body) \o <<"commit">>)
        BY <2>3, <3>1, ConcatAssociative
      <3>4. (<<"load">> \o body) \o <<"commit">> = <<"load">> \o t
        BY <2>3, ConcatAssociative
      <3> QED
        BY <3>2, <3>3, <3>4
    <2>8. Program(c) = <<"begin">> \o reading \o body \o <<"commit">>
      BY <1>1 DEF Program, body
    <2> QED
      BY <2>4, <2>5, <2>6, <2>7, <2>8
  <1>2. CASE ~c.outer
    <2> USE DEF Atomically
    <2>1. /\ Together \subseteq Plain(c) \ {"hook"} /\ {"match", "where", "merge", "insert", "restore"} \subseteq Plain(c) \ {"hook"}
          /\ c.list # None /\ c.ids # {} => "save" \in Plain(c) \ {"hook"}
      BY DEF Plain, Alone, Together
    <2>2. {"settle", "find", "doom"} \subseteq Together /\ {"match", "where", "merge", "insert", "restore", "save"} \subseteq Alone
      BY DEF Alone, Together
    <2>3. ASSUME NEW x \in Alone, x \in Plain(c) \ {"hook"}
          PROVE  Shape(Hooked(<<x>>), FALSE, c) /\ \A i \in DOMAIN Hooked(<<x>>) : Hooked(<<x>>)[i] # "load"
      <3>1. Hooked(<<x>>) = <<"hook", x, "hook">>
        BY HookedOne
      <3> QED
        BY <2>3, <3>1, ShapeOfAlone
    <2>4. ASSUME NEW x \in {"settle", "find"}
          PROVE  LET s == Hooked(<<"begin">> \o <<x>> \o <<"commit">>)
                 IN  Shape(s, FALSE, c) /\ \A i \in DOMAIN s : s[i] # "load"
      <3>1. Hooked(<<"begin">> \o <<x>> \o <<"commit">>) = <<"hook", "begin", x, "commit", "hook">>
        BY HookedOne
      <3>2. x \in Plain(c) \ {"hook"}
        BY <2>1, <2>2
      <3> QED
        BY <3>1, <3>2, ShapeOfAlone
    <2>5. Shape(<<>>, FALSE, c) /\ \A i \in DOMAIN <<>> : <<>>[i] # "load"
      <3>1. Shape(<<>>, FALSE, c)
        BY ShapeOfLittle
      <3>2. \A i \in DOMAIN <<>> : <<>>[i] # "load"
        OBVIOUS
      <3> QED
        BY <3>1, <3>2
    <2>6. Shape(body, FALSE, c) /\ \A i \in DOMAIN body : body[i] # "load"
      <3>1. CASE c.op = "update"
        <4>1. /\ <<"settle", "match", "readBack">> \in Seq(Plain(c)) /\ <<"settle", "readBack">> \in Seq(Plain(c))
              /\ <<"match">> \in Seq(Plain(c)) /\ <<"settle">> \in Seq(Plain(c))
          BY <2>1 DEF Together
        <4>2. UpdateRows(c, TRUE) \in Seq(Plain(c)) \/ UpdateRows(c, TRUE) = <<"where">>
          BY <4>1 DEF UpdateRows
        <4>3. CASE c.returning
          <5>1. PICK b \in {<<"settle", "match", "readBack">>, <<"settle", "readBack">>} :
                    UpdateWhere(c) = <<"begin">> \o Hooked(b) \o <<"commit">>
            BY <1>2, <4>3 DEF UpdateWhere
          <5>2. Hooked(b) \in Seq(Plain(c))
            BY <4>1, HookedPlain
          <5> QED
            BY <3>1, <5>1, <5>2, ShapeOfTransaction DEF CallBody
        <4>4. CASE ~c.returning /\ WritesRelations(c)
          <5>1. UpdateWhere(c) = <<"begin">> \o Hooked(UpdateRows(c, TRUE)) \o <<"commit">>
            BY <1>2, <4>4 DEF UpdateWhere
          <5>2. UpdateRows(c, TRUE) \in Seq(Plain(c))
            BY <4>1, <4>4 DEF UpdateRows, SettlesWrite
          <5>3. Hooked(UpdateRows(c, TRUE)) \in Seq(Plain(c))
            BY <5>2, HookedPlain
          <5> QED
            BY <3>1, <5>1, <5>3, ShapeOfTransaction DEF CallBody
        <4>5. CASE ~c.returning /\ ~WritesRelations(c)
          <5>1. body = Hooked(UpdateRows(c, FALSE))
            BY <3>1, <4>5 DEF UpdateWhere, CallBody
          <5>2. UpdateRows(c, FALSE) \in {<<"match">>, <<"where">>, <<"begin">> \o <<"settle">> \o <<"commit">>}
            BY <1>2 DEF UpdateRows
          <5> QED
            BY <5>1, <5>2, <2>1, <2>2, <2>3, <2>4
        <4> QED
          BY <4>3, <4>4, <4>5
      <3>2. CASE c.op = "upsert"
        <4>1. body \in {Hooked(<<"merge">>), Hooked(<<"begin">> \o <<"find">> \o <<"commit">>)}
          BY <1>2, <3>2 DEF CallBody, UpsertMany
        <4> QED
          BY <4>1, <2>1, <2>2, <2>3, <2>4
      <3>3. CASE c.op = "insert"
        <4>1. CASE WritesRelations(c)
          <5>1. <<"insert", "save">> \in Seq(Plain(c))
            BY <2>1, <3>3, <4>1 DEF WritesRelations
          <5>2. Hooked(<<"insert", "save">>) \in Seq(Plain(c))
            BY <5>1, HookedPlain
          <5>3. body = <<"begin">> \o Hooked(<<"insert", "save">>) \o <<"commit">>
            BY <1>2, <3>3, <4>1 DEF CallBody, InsertMany
          <5> QED
            BY <5>2, <5>3, ShapeOfTransaction
        <4>2. CASE ~WritesRelations(c)
          <5>1. body = Hooked(<<"insert">>)
            BY <3>3, <4>2 DEF CallBody, InsertMany
          <5> QED
            BY <5>1, <2>1, <2>2, <2>3
        <4> QED
          BY <4>1, <4>2
      <3>4. CASE c.op = "delete"
        <4>1. body = <<"begin">> \o <<"doom">> \o <<"commit">> /\ <<"doom">> \in Seq(Plain(c))
          BY <1>2, <2>1, <2>2, <3>4 DEF CallBody, DeleteRows
        <4> QED
          BY <4>1, ShapeOfTransaction
      <3>5. CASE c.op = "restore"
        BY <2>1, <2>2, <2>3, <3>5 DEF CallBody
      <3>6. CASE c.op = "saveChild"
        BY <2>1, <2>2, <2>3, <3>6 DEF CallBody
      <3>7. CASE c.op = "idle"
        BY <2>5, <3>7 DEF CallBody
      <3> QED
        BY <3>1, <3>2, <3>3, <3>4, <3>5, <3>6, <3>7 DEF CallRecord, Op
    <2> HIDE DEF body
    <2>7. Program(c) = reading \o body
      BY <1>2 DEF Program, body
    <2>8. <<>> \o body = body
      BY <2>6, ConcatEmptySeq DEF Shape
    <2>9. Shape(<<"load">> \o body, FALSE, c)
      BY <1>2, <2>6, ShapeExtends DEF CallRecord
    <2> QED
      BY <2>6, <2>7, <2>8, <2>9
  <1> QED
    BY <1>1, <1>2
LEMMA CallTyped ==
    ASSUME plan \in Plan, NEW f \in Flow
    PROVE  LET c == Call(f)
           IN  /\ c \in CallRecord /\ IsFiniteSet(c.ids) /\ c.ids \subseteq Parent /\ c.ids \subseteq Key
               /\ c.list = None \/ c.list \subseteq Child
               /\ c.outer \in BOOLEAN /\ c.hard \in BOOLEAN
               /\ c.op = "upsert" /\ c.list # None => c.ids # {}
               /\ c.op = "saveChild" => c.list # None
               /\ c.op \in {"insert", "saveChild"} /\ c.list # None => c.ids # {}
  <1> DEFINE c == Call(f)
  <1>1. /\ c \in CallRecord /\ IsFiniteSet(c.ids)
        /\ c.op = "upsert" /\ c.list # None => Cardinality(c.ids) = 1
        /\ c.op = "saveChild" => c.list # None
        /\ c.op \in {"insert", "saveChild"} /\ c.list # None => c.ids # {}
    BY PlanAssumption DEF Call
  <1>2. c.op = "upsert" /\ c.list # None => c.ids # {}
    BY <1>1, FS_EmptySet
  <1>3. /\ c.ids \subseteq Parent /\ c.ids \subseteq Key
        /\ c.list = None \/ c.list \subseteq Child
        /\ c.outer \in BOOLEAN /\ c.hard \in BOOLEAN
    BY <1>1 DEF CallRecord, Key
  <1> QED
    BY <1>1, <1>2, <1>3

LEMMA WritesStart == Init => WriteInv
  <1> SUFFICES ASSUME Init PROVE WriteInv
    OBVIOUS
  <1>1. plan \in Plan /\ DOMAIN fl = Flow /\ faults \in 0..plan.faults
    BY BoundAssumption DEF Init
  <1>2. ASSUME NEW f \in Flow PROVE Keeps(f)
    <2> DEFINE c == Call(f)
    <2>1. fl[f] = Idle(c)
      BY <1>2 DEF Init
    <2>2. Shape(Program(c), FALSE, c)
      BY <1>1, <1>2, CallTyped, ShapeOfProgram
    <2>3. <<>> \in Seq(SUBSET c.ids)
      OBVIOUS
    <2> HIDE DEF c
    <2>4. /\ DOMAIN Idle(c) = Fields /\ Idle(c).inTx = FALSE /\ Idle(c).ids = {} /\ Idle(c).seen = [k \in c.ids |-> None]
          /\ Idle(c).out = None /\ Idle(c).snap = None /\ Idle(c).todo = Program(c) /\ Idle(c).queue = <<>>
      BY DEF Idle, Fields
    <2> QED
      BY <2>1, <2>2, <2>3, <2>4 DEF Keeps, c
  <1>3. rows \in [Key -> Row \cup {None}] /\ rows = base /\ \A k \in Key : rows[k] = None \/ rows[k].val = Seed
    BY <1>1, PlanAssumption DEF Init
  <1>4. Tables
    BY <1>3 DEF Tables, Init
  <1>5. Writers
    BY <1>3, WriterAssumption DEF Writers, By
  <1> QED
    BY <1>1, <1>2, <1>4, <1>5 DEF WriteInv
-----------------------------------------------------------------------------
(***************************************************************************)
(* A statement, whatever it is.                                            *)
(***************************************************************************)
\* What a statement leaves of its call.
WellKept(f, kept) ==
    /\ DOMAIN kept = Fields
    /\ kept.inTx = fl[f].inTx /\ kept.out = fl[f].out
    /\ kept.ids \subseteq Call(f).ids
    /\ kept.queue \in Seq(SUBSET Call(f).ids)
    /\ kept.seen \in [Call(f).ids -> Row \cup {None}]
    /\ kept.snap = None \/ kept.snap \in [Key -> Row \cup {None}]
    /\ Shape(kept.todo, kept.inTx, Call(f))

\* A row it writes: its own or as it was, under the parent it had or one the statement has for itself.
WellLeft(f, k, row) ==
    \/ row = None
    \/ /\ row \in Row
       /\ row.val = f \/ (Current(f)[k] # None /\ Current(f)[k].val = row.val)
       /\ row.par \in Needs(f) \cup {None} \/ (Current(f)[k] # None /\ Current(f)[k].par = row.par)
WellWritten(f, new) == DOMAIN new \subseteq Needs(f) \cap Key /\ \A k \in DOMAIN new : WellLeft(f, k, new[k])

\* A statement that goes through; outside a transaction nothing follows a write but a hook.
Passes(f, kept, new, locked) ==
    /\ WellKept(f, kept) /\ WellWritten(f, new)
    /\ locked \subseteq Needs(f)
    /\ fl[f].inTx => DOMAIN new \subseteq locked
    /\ fl[f].inTx \/ DOMAIN new = {} \/ kept.todo \in {<<>>, <<"hook">>}
    /\ Free(f)
    /\ Sends(f, kept, new, locked)
Passing(f) == \E kept, new, locked : Passes(f, kept, new, locked)

\* A flow that is at a statement has not failed and committed nothing.
LEMMA NotYet ==
    ASSUME WriteInv, NEW f \in Flow, fl[f].inTx \/ fl[f].todo \notin {<<>>, <<"hook">>}
    PROVE  \A k \in Key : ~By(base[k], f)
  BY DEF WriteInv, Writers

LEMMA AtRow ==
    ASSUME WriteInv, NEW f \in Flow
    PROVE  /\ Current(f) \in [Key -> Row \cup {None}] /\ View(f) \in [Key -> Row \cup {None}]
           /\ \A k \in Key : Current(f)[k] = IF lock[k] = f THEN rows[k] ELSE base[k]
  <1>1. Current(f) \in [Key -> Row \cup {None}] /\ \A k \in Key : Current(f)[k] = IF lock[k] = f THEN rows[k] ELSE base[k]
    BY DEF WriteInv, Tables, Current
  <1>2. fl[f].snap = None \/ fl[f].snap \in [Key -> Row \cup {None}]
    BY DEF WriteInv, Keeps
  <1>3. rows \in [Key -> Row \cup {None}]
    BY DEF WriteInv, Tables
  <1>4. View(f) \in [Key -> Row \cup {None}]
    BY <1>1, <1>2, <1>3 DEF View
  <1> QED
    BY <1>1, <1>4

\* What a flow is free to have for itself, no other flow has.
LEMMA FreeToHave ==
    ASSUME WriteInv, NEW f \in Flow, Free(f)
    PROVE  \A k \in Key : k \in Needs(f) => lock[k] \in {None, f}
  BY DEF WriteInv, Tables, Free, Waits, Holds

LEMMA PassingKeeps ==
    ASSUME WriteInv, NEW f \in Flow, fl[f].todo \notin {<<>>, <<"hook">>, <<"rollback">>}, Passing(f)
    PROVE  WriteInv'
  <1>1. PICK kept, new, locked : Passes(f, kept, new, locked)
    BY DEF Passing
  <1>2. /\ plan' = plan /\ faults' = faults
        /\ rows' = [k \in Key |-> IF k \in DOMAIN new THEN new[k] ELSE rows[k]]
        /\ base' = IF fl[f].inTx THEN base ELSE [k \in Key |-> IF k \in DOMAIN new THEN new[k] ELSE base[k]]
        /\ lock' = IF fl[f].inTx THEN [k \in Key |-> IF k \in locked THEN f ELSE lock[k]] ELSE lock
        /\ fl' = [fl EXCEPT ![f] = kept]
    BY <1>1 DEF Passes, Sends, Put
  <1>3. /\ DOMAIN fl = Flow /\ rows \in [Key -> Row \cup {None}] /\ base \in [Key -> Row \cup {None}]
        /\ lock \in [Key -> Flow \cup {None}]
        /\ \A k \in Key : lock[k] # None => fl[lock[k]].inTx
        /\ \A k \in Key : lock[k] = None => rows[k] = base[k]
        /\ Keeps(f)
    BY DEF WriteInv, Tables
  <1>4. fl'[f] = kept /\ DOMAIN fl' = Flow /\ \A g \in Flow \ {f} : fl'[g] = fl[g]
    BY <1>2, <1>3
  <1>5. WellKept(f, kept) /\ WellWritten(f, new) /\ locked \subseteq Needs(f)
        /\ (fl[f].inTx => DOMAIN new \subseteq locked) /\ Free(f)
        /\ (fl[f].inTx \/ DOMAIN new = {} \/ kept.todo \in {<<>>, <<"hook">>})
    BY <1>1 DEF Passes
  <1>6. \A g \in Flow : Call(g)' = Call(g)
    BY <1>2 DEF Call
  <1>7. ASSUME NEW g \in Flow PROVE Keeps(g)'
    <2>1. CASE g = f
      <3>1. fl[f].inTx \in BOOLEAN /\ fl[f].out \in Failure \cup {None} /\ fl[f].out = None
        BY <1>3 DEF Keeps
      <3> QED
        BY <1>4, <1>5, <1>6, <2>1, <3>1 DEF Keeps, WellKept
    <2>2. CASE g # f
      <3>1. Keeps(g) /\ fl'[g] = fl[g]
        BY <1>4, <2>2 DEF WriteInv
      <3> QED
        BY <1>6, <3>1 DEF Keeps
    <2> QED
      BY <2>1, <2>2
  <1>8. \A k \in DOMAIN new : k \in Key /\ k \in Needs(f) /\ new[k] \in Row \cup {None}
    BY <1>5 DEF WellWritten, WellLeft
  <1>9. \A k \in Key : k \in Needs(f) => lock[k] \in {None, f}
    BY <1>5, FreeToHave
  <1>10. fl'[f].inTx = fl[f].inTx
    BY <1>4, <1>5 DEF WellKept
  <1>11. Tables'
    <2>1. rows' \in [Key -> Row \cup {None}] /\ base' \in [Key -> Row \cup {None}] /\ lock' \in [Key -> Flow \cup {None}]
      BY <1>2, <1>3, <1>8
    <2>2. \A k \in Key : lock'[k] # None => fl'[lock'[k]].inTx
      BY <1>2, <1>3, <1>4, <1>10
    <2>3. \A k \in Key : lock'[k] = None => rows'[k] = base'[k]
      BY <1>2, <1>3, <1>5, WriterAssumption
    <2> QED
      BY <2>1, <2>2, <2>3 DEF Tables
  <1>12. Writers'
    <2>1. \A k \in Key : ~By(base[k], f)
      BY NotYet
    <2>2. ASSUME NEW k \in Key, NEW g \in Flow, By(rows'[k], g) PROVE lock'[k] = g \/ By(base'[k], g)
      <3>1. CASE k \in DOMAIN new
        <4>1. By(new[k], g)
          BY <1>2, <2>2, <3>1
        <4>2. CASE ~fl[f].inTx
          BY <1>2, <3>1, <4>1, <4>2
        <4>3. CASE fl[f].inTx
          <5>1. lock'[k] = f /\ base' = base /\ lock[k] \in {None, f}
            BY <1>2, <1>5, <1>8, <1>9, <3>1, <4>3
          <5>2. g = f \/ By(Current(f)[k], g)
            BY <1>5, <3>1, <4>1 DEF WellWritten, WellLeft, By
          <5>3. By(Current(f)[k], g) => g = f \/ By(base[k], g)
            BY AtRow DEF WriteInv, Writers
          <5> QED
            BY <5>1, <5>2, <5>3
        <4> QED
          BY <4>2, <4>3
      <3>2. CASE k \notin DOMAIN new
        <4>1. By(rows[k], g) /\ base'[k] = base[k]
          BY <1>2, <1>3, <2>2, <3>2
        <4>2. lock[k] = g \/ By(base[k], g)
          BY <4>1 DEF WriteInv, Writers
        <4>3. lock[k] = g => lock'[k] = g
          BY <1>2, <1>3, <1>5, <1>9, WriterAssumption
        <4> QED
          BY <4>1, <4>2, <4>3
      <3> QED
        BY <3>1, <3>2
    <2>3. ASSUME NEW k \in Key, NEW g \in Flow, By(base'[k], g)
          PROVE  /\ ~fl'[g].inTx
                 /\ fl'[g].todo \in {<<>>, <<"hook">>}
                 /\ fl'[g].out \in {None, "late"}
      <3>1. CASE By(base[k], g)
        <4>1. g # f
          BY <2>1, <3>1
        <4> QED
          BY <1>4, <3>1, <4>1 DEF WriteInv, Writers
      <3>2. CASE ~By(base[k], g)
        <4>1. ~fl[f].inTx /\ k \in DOMAIN new /\ By(new[k], g)
          BY <1>2, <1>3, <2>3, <3>2
        <4>2. Current(f)[k] = base[k]
          BY <1>3, <4>1, AtRow
        <4>3. g = f
          BY <1>5, <3>2, <4>1, <4>2 DEF WellWritten, WellLeft, By
        <4>4. fl[f].out = None
          BY <1>3 DEF Keeps
        <4> QED
          BY <1>4, <1>5, <1>10, <4>1, <4>3, <4>4 DEF WellKept
      <3> QED
        BY <3>1, <3>2
    <2> QED
      BY <2>2, <2>3 DEF Writers
  <1> QED
    BY <1>2, <1>4, <1>7, <1>11, <1>12 DEF WriteInv
\* An error leaves a flow with nothing to do but to undo its transaction, and it committed nothing; only the hook
\* after everything is too late.
LEMMA ThrownKeeps ==
    ASSUME WriteInv, NEW f \in Flow, NEW why \in Failure, fl[f].todo # <<>>,
           fl[f].inTx \/ fl[f].todo # <<"hook">> \/ why = "late",
           fl' = [fl EXCEPT ![f] = Thrown(f, why)], plan' = plan, rows' = rows, base' = base, lock' = lock,
           faults' \in 0..plan.faults
    PROVE  WriteInv'
  <1>1. Keeps(f) /\ DOMAIN fl = Flow
    BY DEF WriteInv
  <1>2. /\ DOMAIN Thrown(f, why) = Fields /\ Thrown(f, why).inTx = fl[f].inTx /\ Thrown(f, why).ids = fl[f].ids
        /\ Thrown(f, why).seen = fl[f].seen /\ Thrown(f, why).out = why /\ Thrown(f, why).snap = fl[f].snap
        /\ Thrown(f, why).queue = <<>>
        /\ Thrown(f, why).todo = IF fl[f].inTx THEN <<"rollback">> ELSE <<>>
    BY <1>1 DEF Keeps, Thrown, Fields
  <1>3. fl'[f] = Thrown(f, why) /\ DOMAIN fl' = Flow /\ \A g \in Flow \ {f} : fl'[g] = fl[g]
    BY <1>1
  <1>4. \A g \in Flow : Call(g)' = Call(g)
    BY DEF Call
  <1>5. ASSUME NEW g \in Flow PROVE Keeps(g)'
    <2>1. CASE g = f
      <3>1. Shape(Thrown(f, why).todo, fl[f].inTx, Call(f)) /\ <<>> \in Seq(SUBSET Call(f).ids)
        <4>1. fl[f].inTx = TRUE \/ fl[f].inTx = FALSE
          BY <1>1 DEF Keeps
        <4>2. Shape(<<"rollback">>, TRUE, Call(f)) /\ Shape(<<>>, FALSE, Call(f))
          BY ShapeOfLittle
        <4>3. <<>> \in Seq(SUBSET Call(f).ids)
          OBVIOUS
        <4> QED
          BY <1>2, <4>1, <4>2, <4>3
      <3> QED
        BY <1>1, <1>2, <1>3, <1>4, <2>1, <3>1 DEF Keeps
    <2>2. CASE g # f
      <3>1. Keeps(g) /\ fl'[g] = fl[g]
        BY <1>3, <2>2 DEF WriteInv
      <3> QED
        BY <1>4, <3>1 DEF Keeps
    <2> QED
      BY <2>1, <2>2
  <1>6. Tables'
    <2>1. \A k \in Key : lock[k] # None => fl'[lock[k]].inTx
      BY <1>2, <1>3 DEF WriteInv, Tables
    <2> QED
      BY <2>1 DEF WriteInv, Tables
  <1>7. Writers'
    <2>1. ASSUME NEW k \in Key, By(base[k], f) PROVE ~fl[f].inTx /\ why = "late"
      BY <2>1 DEF WriteInv, Writers
    <2> QED
      BY <1>2, <1>3, <2>1 DEF WriteInv, Writers
  <1> QED
    BY <1>3, <1>5, <1>6, <1>7 DEF WriteInv

\* A statement that throws.
Throwing(f) == \E why \in Failure : Throw(f, why)
LEMMA ThrowingKeeps ==
    ASSUME WriteInv, NEW f \in Flow, Throwing(f), fl[f].todo # <<>>,
           fl[f].inTx \/ fl[f].todo # <<"hook">>
    PROVE  WriteInv'
  <1>1. PICK why \in Failure : Throw(f, why)
    BY DEF Throwing
  <1>2. faults' \in 0..plan.faults
    BY <1>1 DEF Throw, WriteInv
  <1> QED
    BY <1>1, <1>2, ThrownKeeps DEF Throw, store
LEMMA ThenWell ==
    ASSUME WriteInv, NEW f \in Flow, fl[f].todo # <<>>, Head(fl[f].todo) \in Plain(Call(f)) \cup {"load"},
           NEW next \in Seq(Plain(Call(f))),
           next = <<>> \/ fl[f].inTx \/ (Len(next) = 1 /\ next[1] \in Alone /\ Head(fl[f].todo) \in Alone)
    PROVE  /\ WellKept(f, Then(f, next)) /\ Then(f, next).todo = next \o Tail(fl[f].todo)
           /\ Then(f, next).queue = fl[f].queue /\ Then(f, next).ids = fl[f].ids
  <1>1. Keeps(f)
    BY DEF WriteInv
  <1>2. Shape(next \o Tail(fl[f].todo), fl[f].inTx, Call(f))
    BY <1>1, ShapeGoesOn DEF Keeps
  <1>3. /\ DOMAIN Then(f, next) = Fields /\ Then(f, next).todo = next \o Tail(fl[f].todo)
        /\ Then(f, next).inTx = fl[f].inTx /\ Then(f, next).out = fl[f].out /\ Then(f, next).ids = fl[f].ids
        /\ Then(f, next).queue = fl[f].queue /\ Then(f, next).seen = fl[f].seen /\ Then(f, next).snap = fl[f].snap
    BY <1>1 DEF Keeps, Then, Fields
  <1> QED
    BY <1>1, <1>2, <1>3 DEF Keeps, WellKept

\* A flow at a statement of `Plain`, gone on from; alone, it has nothing left but a hook.
LEMMA GoesWell ==
    ASSUME WriteInv, NEW f \in Flow, fl[f].todo # <<>>, Head(fl[f].todo) \in Plain(Call(f)) \cup {"load"}
    PROVE  /\ WellKept(f, Goes(f))
           /\ Head(fl[f].todo) \in Alone => fl[f].inTx \/ Goes(f).todo \in {<<>>, <<"hook">>}
           /\ Goes(f).queue = fl[f].queue /\ Goes(f).ids = fl[f].ids
           /\ Goes(f).todo = Tail(fl[f].todo)
  <1>1. <<>> \in Seq(Plain(Call(f)))
    OBVIOUS
  <1>2. /\ WellKept(f, Goes(f)) /\ Goes(f).todo = <<>> \o Tail(fl[f].todo)
        /\ Goes(f).queue = fl[f].queue /\ Goes(f).ids = fl[f].ids
    BY <1>1, ThenWell DEF Goes
  <1>3. Shape(fl[f].todo, fl[f].inTx, Call(f)) /\ fl[f].inTx \in BOOLEAN
    BY DEF WriteInv, Keeps
  <1>4. <<>> \o Tail(fl[f].todo) = Tail(fl[f].todo)
    BY <1>3, HeadOfShape, TailItems
  <1>5. Head(fl[f].todo) \in Alone /\ ~fl[f].inTx => Tail(fl[f].todo) \in {<<>>, <<"hook">>}
    BY <1>3, HeadOfShape
  <1> QED
    BY <1>2, <1>4, <1>5

LEMMA QueuePops ==
    ASSUME NEW S, NEW q \in Seq(S)
    PROVE  q # <<>> => Tail(q) \in Seq(S) /\ Head(q) \in S
  BY HeadTailProperties

LEMMA SnapshotTyped ==
    ASSUME WriteInv, NEW f \in Flow, NEW plain
    PROVE  Snapshot(f, plain) = None \/ Snapshot(f, plain) \in [Key -> Row \cup {None}]
  BY DEF WriteInv, Keeps, Tables, Snapshot

LEMMA WritesPass ==
    ASSUME WriteInv, NEW f \in Flow, Free(f), NEW kept, NEW new, NEW S, Writes(f, kept, new),
           WellKept(f, kept), WellWritten(f, new), Needs(f) = Written(S), DOMAIN new \subseteq S,
           fl[f].inTx \/ DOMAIN new = {} \/ kept.todo \in {<<>>, <<"hook">>}
    PROVE  Passing(f)
  <1> DEFINE after == [kept EXCEPT !.snap = Snapshot(f, FALSE)]
  <1>1. Sends(f, after, new, Written(DOMAIN new))
    BY DEF Writes
  <1>2. WellKept(f, after) /\ after.todo = kept.todo
    BY SnapshotTyped DEF WellKept, Fields
  <1>3. Written(DOMAIN new) \subseteq Needs(f) /\ DOMAIN new \subseteq Written(DOMAIN new)
    BY DEF Written, WellWritten
  <1> HIDE DEF after
  <1>4. Passes(f, after, new, Written(DOMAIN new))
    BY <1>1, <1>2, <1>3 DEF Passes
  <1> QED
    BY <1>4 DEF Passing

LEMMA NothingNew ==
    ASSUME NEW f
    PROVE  DOMAIN <<>> = {} /\ WellWritten(f, <<>>)
  <1>1. DOMAIN <<>> = {}
    OBVIOUS
  <1> QED
    BY <1>1 DEF WellWritten

LEMMA ReadsPass ==
    ASSUME WriteInv, NEW f \in Flow, Free(f), NEW kept, NEW held, Reads(f, kept, held), WellKept(f, kept),
           Needs(f) = Held(f, held)
    PROVE  Passing(f)
  <1> DEFINE after == [kept EXCEPT !.snap = Snapshot(f, ~Locking(f))]
  <1>1. Sends(f, after, <<>>, Held(f, held))
    BY DEF Reads
  <1>2. WellKept(f, after)
    BY SnapshotTyped DEF WellKept, Fields
  <1> HIDE DEF after
  <1>3. Passes(f, after, <<>>, Held(f, held))
    BY <1>1, <1>2, NothingNew DEF Passes
  <1> QED
    BY <1>3 DEF Passing

LEMMA PlainReadPass ==
    ASSUME WriteInv, NEW f \in Flow, NEW kept, Sends(f, [kept EXCEPT !.snap = Snapshot(f, TRUE)], <<>>, {}),
           WellKept(f, kept), Needs(f) = {}
    PROVE  Passing(f)
  <1> DEFINE after == [kept EXCEPT !.snap = Snapshot(f, TRUE)]
  <1>1. WellKept(f, after)
    BY SnapshotTyped DEF WellKept, Fields
  <1>2. Free(f)
    BY DEF Free, Waits
  <1> HIDE DEF after
  <1>3. Passes(f, after, <<>>, {})
    BY <1>1, <1>2, NothingNew DEF Passes, after
  <1> QED
    BY <1>3 DEF Passing
-----------------------------------------------------------------------------
(***************************************************************************)
(* The statements, one by one.                                             *)
(***************************************************************************)
LEMMA NeedsAt ==
    ASSUME NEW f, fl[f].todo # <<>>
    PROVE  LET step == Head(fl[f].todo)
           IN  /\ step = "settle" => Needs(f) = Held(f, SettleIds(f))
               /\ step = "find" => Needs(f) = Held(f, RowsByConflict(f))
               /\ step = "doom" => Needs(f) = Held(f, Doomed(f))
               /\ step = "match" => Needs(f) = Written({k \in Call(f).ids : LockVersion(f, k)})
               /\ step = "found" => Needs(f) = Written(FoundRows(f))
               /\ step = "where" => Needs(f) = Written(Filtered(f, Current(f)))
               /\ step = "columns" => Needs(f) = Written(Updatable(f, Batch(f)))
               /\ step = "drop" => Needs(f) = Written(Unlisted(f))
               /\ step = "save" => Needs(f) = Written(Call(f).list \cup Owners(f))
               /\ step = "insert" => Needs(f) = Written(Missing(f))
               /\ step = "merge" => Needs(f) = Written(Call(f).ids)
               /\ step = "children" => Needs(f) = Written(ChildrenOf(Current(f), Batch(f)))
               /\ step = "remove" => Needs(f) = Written(Batch(f))
               /\ step = "restore" => Needs(f) = Written(Restorable(f))
               /\ step \in {"load", "reread", "readBack", "hook", "commit", "rollback"} => Needs(f) = {}
  BY DEF Needs, Ended

\* The rows the statements leave of those they find.
LEMMA RowsLeft ==
    ASSUME NEW f \in Flow, NEW k
    PROVE  LET row == Current(f)[k]
           IN  row \in Row => /\ WellLeft(f, k, Touched(f, row))
                              /\ WellLeft(f, k, Bumped(f, row))
                              /\ \A b \in BOOLEAN : WellLeft(f, k, [row EXCEPT !.del = b])
  <1> SUFFICES ASSUME NEW row, row = Current(f)[k], row \in Row
               PROVE  /\ WellLeft(f, k, Touched(f, row))
                      /\ WellLeft(f, k, Bumped(f, row))
                      /\ \A b \in BOOLEAN : WellLeft(f, k, [row EXCEPT !.del = b])
    OBVIOUS
  <1>1. row # None
    BY KeyAssumption
  <1>2. Touched(f, row) \in Row /\ Touched(f, row).val = f /\ Touched(f, row).par = row.par
    BY DEF Row, Touched
  <1>3. Bumped(f, row) \in Row /\ Bumped(f, row).val = f /\ Bumped(f, row).par = row.par
    <2>1. \A r \in Row : LET left == [r EXCEPT !.ver = @ + 1]
                          IN  left \in Row /\ left.val = r.val /\ left.par = r.par
      BY DEF Row
    <2> QED
      BY <1>2, <2>1 DEF Bumped
  <1>4. ASSUME NEW b \in BOOLEAN
        PROVE  LET left == [row EXCEPT !.del = b]
               IN  left \in Row /\ left.val = row.val /\ left.par = row.par
    BY DEF Row
  <1> QED
    BY <1>1, <1>2, <1>3, <1>4 DEF WellLeft

\* What holds of a flow about to send a statement.
Sending(f, step) ==
    /\ WriteInv /\ fl[f].todo # <<>> /\ Head(fl[f].todo) = step
    /\ step \in Plain(Call(f))
    /\ step \in Together => fl[f].inTx
    /\ Current(f) \in [Key -> Row \cup {None}]
    /\ Call(f).ids \subseteq Parent /\ Call(f).ids \subseteq Key
    /\ Batch(f) \subseteq Call(f).ids
    /\ Behind(f) \in Seq(SUBSET Call(f).ids)
    /\ fl[f].seen \in [Call(f).ids -> Row \cup {None}] /\ fl[f].ids \subseteq Call(f).ids

LEMMA IsSending ==
    ASSUME WriteInv, NEW f \in Flow, NEW step \in Alone \cup Together \cup {"hook"}, At(f, step)
    PROVE  /\ Sending(f, step)
           /\ fl[f].inTx \in BOOLEAN
           /\ step = "save" => Call(f).list # None /\ Call(f).ids # {}
  <1>1. Keeps(f) /\ plan \in Plan /\ fl[f].todo # <<>> /\ Head(fl[f].todo) = step
    BY DEF WriteInv, At
  <1>2. Shape(fl[f].todo, fl[f].inTx, Call(f)) /\ fl[f].inTx \in BOOLEAN
    BY <1>1 DEF Keeps
  <1>3. /\ step \in Step(Call(f)) /\ (step \in Together => fl[f].inTx)
        /\ step = "save" => Call(f).list # None /\ Call(f).ids # {}
    BY <1>1, <1>2, HeadOfShape
  <1>4. step \in Plain(Call(f))
    BY <1>3 DEF Step, Alone, Together
  <1>5. fl[f].queue \in Seq(SUBSET Call(f).ids)
    BY <1>1 DEF Keeps
  <1>6. Batch(f) \subseteq Call(f).ids /\ Behind(f) \in Seq(SUBSET Call(f).ids)
    <2>1. CASE fl[f].queue = <<>>
      BY <1>5, <2>1 DEF Batch, Behind
    <2>2. CASE fl[f].queue # <<>>
      <3>1. Tail(fl[f].queue) \in Seq(SUBSET Call(f).ids) /\ Head(fl[f].queue) \in SUBSET Call(f).ids
        BY <1>5, <2>2, QueuePops
      <3> QED
        BY <2>2, <3>1 DEF Batch, Behind
    <2> QED
      BY <2>1, <2>2
  <1> QED
    BY <1>1, <1>2, <1>3, <1>4, <1>6, AtRow, CallTyped DEF Sending, Keeps

LEMMA WherePasses ==
    ASSUME WriteInv, NEW f \in Flow, Where(f)
    PROVE  Passing(f)
  <1> DEFINE hit == Filtered(f, Current(f))
             new == [k \in hit |-> Touched(f, Current(f)[k])]
  <1>1. "where" \in Alone /\ At(f, "where") /\ Free(f) /\ Writes(f, Goes(f), new)
    BY DEF Alone, Where, Ready
  <1>2. Sending(f, "where") /\ Needs(f) = Written(hit)
    BY <1>1, IsSending, NeedsAt DEF Sending
  <1>3. hit \subseteq Key /\ \A k \in hit : Current(f)[k] \in Row
    BY <1>2 DEF Filtered, Asked, Matches, Sending
  <1>4. WellWritten(f, new)
    <2>1. hit \subseteq Needs(f)
      BY <1>2, <1>3 DEF Written
    <2>2. DOMAIN new = hit /\ \A k \in hit : new[k] = Touched(f, Current(f)[k])
      OBVIOUS
    <2> HIDE DEF new, hit
    <2> QED
      BY <1>3, <2>1, <2>2, RowsLeft DEF WellWritten
  <1>5. WellKept(f, Goes(f)) /\ (fl[f].inTx \/ Goes(f).todo \in {<<>>, <<"hook">>})
    BY <1>1, <1>2, GoesWell DEF Sending
  <1> QED
    BY <1>1, <1>2, <1>4, <1>5, WritesPass
LEMMA QueueChanges ==
    ASSUME NEW f, NEW kept, WellKept(f, kept), NEW q \in Seq(SUBSET Call(f).ids)
    PROVE  WellKept(f, [kept EXCEPT !.queue = q]) /\ [kept EXCEPT !.queue = q].todo = kept.todo
  BY DEF WellKept, Fields

LEMMA MissChanges ==
    ASSUME NEW f, NEW kept, WellKept(f, kept), NEW other
    PROVE  WellKept(f, [kept EXCEPT !.miss = other]) /\ WellKept(f, [kept EXCEPT !.told = other])
  BY DEF WellKept, Fields

LEMMA IdsChange ==
    ASSUME NEW f, NEW kept, WellKept(f, kept), NEW q \in Seq(SUBSET Call(f).ids), NEW ids \in SUBSET Call(f).ids
    PROVE  WellKept(f, [kept EXCEPT !.ids = ids, !.queue = q])
  BY DEF WellKept, Fields

LEMMA RestorePasses ==
    ASSUME WriteInv, NEW f \in Flow, Restore(f)
    PROVE  Passing(f)
  <1> DEFINE hit == Restorable(f)
             new == [k \in hit |-> [Current(f)[k] EXCEPT !.del = FALSE]]
  <1>1. "restore" \in Alone /\ At(f, "restore") /\ Free(f) /\ Writes(f, Goes(f), new)
    BY DEF Alone, Restore, Ready
  <1>2. Sending(f, "restore") /\ Needs(f) = Written(hit)
    BY <1>1, IsSending, NeedsAt DEF Sending
  <1>3. hit \subseteq Key /\ \A k \in hit : Current(f)[k] \in Row
    BY <1>2 DEF Restorable, Sending
  <1>4. WellWritten(f, new)
    <2>1. hit \subseteq Needs(f)
      BY <1>2, <1>3 DEF Written
    <2>2. DOMAIN new = hit /\ \A k \in hit : new[k] = [Current(f)[k] EXCEPT !.del = FALSE]
      OBVIOUS
    <2> HIDE DEF new, hit
    <2>3. \A k \in hit : WellLeft(f, k, [Current(f)[k] EXCEPT !.del = FALSE])
      BY <1>3, RowsLeft
    <2> QED
      BY <1>3, <2>1, <2>2, <2>3 DEF WellWritten
  <1>5. WellKept(f, Goes(f)) /\ (fl[f].inTx \/ Goes(f).todo \in {<<>>, <<"hook">>})
    BY <1>1, <1>2, GoesWell DEF Sending
  <1> QED
    BY <1>1, <1>2, <1>4, <1>5, WritesPass

LEMMA ChildrenThere ==
    ASSUME NEW table \in [Key -> Row \cup {None}], NEW ks
    PROVE  ChildrenOf(table, ks) \subseteq Key /\ \A c \in ChildrenOf(table, ks) : table[c] \in Row
  BY DEF ChildrenOf, Key

LEMMA DropPasses ==
    ASSUME WriteInv, NEW f \in Flow, DropUnlisted(f)
    PROVE  Passing(f)
  <1> DEFINE hit == Unlisted(f)
             new == [c \in hit |-> IF plan.childSoft THEN [Current(f)[c] EXCEPT !.del = TRUE] ELSE None]
  <1>1. "drop" \in Together /\ At(f, "drop") /\ Free(f) /\ Writes(f, Goes(f), new)
    BY DEF Together, DropUnlisted, Ready
  <1>2. Sending(f, "drop") /\ Needs(f) = Written(hit)
    BY <1>1, IsSending, NeedsAt DEF Sending
  <1>3. hit \subseteq Key /\ \A k \in hit : Current(f)[k] \in Row
    BY <1>2, ChildrenThere DEF Unlisted, Sending
  <1>4. WellWritten(f, new)
    <2>1. hit \subseteq Needs(f)
      BY <1>2, <1>3 DEF Written
    <2>2. DOMAIN new = hit /\ \A k \in hit : new[k] = IF plan.childSoft THEN [Current(f)[k] EXCEPT !.del = TRUE] ELSE None
      OBVIOUS
    <2> HIDE DEF new, hit
    <2>3. \A k \in hit : WellLeft(f, k, [Current(f)[k] EXCEPT !.del = TRUE]) /\ WellLeft(f, k, None)
      BY <1>3, RowsLeft DEF WellLeft
    <2> QED
      BY <1>3, <2>1, <2>2, <2>3 DEF WellWritten
  <1>5. WellKept(f, Goes(f)) /\ fl[f].inTx
    BY <1>1, <1>2, GoesWell DEF Sending
  <1> QED
    BY <1>1, <1>2, <1>4, <1>5, WritesPass

LEMMA SavePasses ==
    ASSUME WriteInv, NEW f \in Flow, SaveChildren(f)
    PROVE  Passing(f) \/ Throwing(f)
  <1> DEFINE owner == CHOOSE p \in Owners(f) : TRUE
             now == Current(f)
             list == Call(f).list
             new == [c \in list |-> [val |-> f, ver |-> 1, par |-> owner, del |-> now[c] # None /\ now[c].del]]
  <1>1. "save" \in Alone /\ At(f, "save") /\ Free(f)
    BY DEF Alone, SaveChildren, Ready
  <1>2. /\ Sending(f, "save") /\ Needs(f) = Written(list \cup Owners(f))
        /\ list # None /\ Call(f).ids # {}
    BY <1>1, IsSending, NeedsAt DEF Sending
  <1>3. list \subseteq Child
    BY <1>2, CallTyped DEF Sending, WriteInv
  <1>4. Owners(f) # {} /\ Owners(f) \subseteq Parent
    BY <1>2 DEF Owners, Sending
  <1>5. owner \in Owners(f) /\ owner \in Parent
    BY <1>4
  <1>6. CASE now[owner] = None
    <2>1. Throw(f, "foreignKey")
      BY <1>6 DEF SaveChildren
    <2> QED
      BY <2>1 DEF Throwing, Failure
  <1>7. CASE now[owner] # None
    <2>1. Writes(f, Goes(f), new)
      BY <1>7 DEF SaveChildren
    <2>2. DOMAIN new = list
      OBVIOUS
    <2>3. list \subseteq Key /\ list \subseteq Needs(f) /\ owner \in Needs(f)
      BY <1>2, <1>3, <1>4, <1>5 DEF Written, Key
    <2>4. ASSUME NEW c \in list
          PROVE  WellLeft(f, c, [val |-> f, ver |-> 1, par |-> owner, del |-> now[c] # None /\ now[c].del])
      <3>1. now[c] = None \/ now[c] \in Row
        BY <1>2, <2>3 DEF Sending
      <3>2. (now[c] # None /\ now[c].del) \in BOOLEAN
        BY <3>1 DEF Row
      <3> QED
        BY <1>5, <2>3, <3>2 DEF WellLeft, Row
    <2>5. WellWritten(f, new)
      BY <2>2, <2>3, <2>4 DEF WellWritten
    <2>6. WellKept(f, Goes(f)) /\ (fl[f].inTx \/ Goes(f).todo \in {<<>>, <<"hook">>})
      BY <1>1, <1>2, GoesWell DEF Sending
    <2> HIDE DEF new
    <2>7. Passing(f)
      BY <1>1, <1>2, <2>1, <2>2, <2>5, <2>6, WritesPass
    <2> QED
      BY <2>7
  <1> QED
    BY <1>6, <1>7

LEMMA FreshRow ==
    ASSUME NEW f \in Flow, NEW k \in Call(f).ids, fl[f].seen \in [Call(f).ids -> Row \cup {None}]
    PROVE  WellLeft(f, k, Fresh(f, k))
  <1>1. fl[f].seen[k] # None => fl[f].seen[k].ver \in Nat
    BY DEF Row
  <1>2. Fresh(f, k) \in Row /\ Fresh(f, k).val = f /\ Fresh(f, k).par = None
    BY <1>1 DEF Fresh, Row
  <1> QED
    BY <1>2 DEF WellLeft

LEMMA InsertPasses ==
    ASSUME WriteInv, NEW f \in Flow, InsertRows(f)
    PROVE  Passing(f) \/ Throwing(f)
  <1> DEFINE hit == Missing(f)
             new == [k \in hit |-> Fresh(f, k)]
  <1>1. "insert" \in Alone /\ At(f, "insert") /\ Free(f) /\ (Throw(f, "duplicate") \/ Writes(f, Goes(f), new))
    BY DEF Alone, InsertRows, Ready
  <1>2. Sending(f, "insert") /\ Needs(f) = Written(hit)
    BY <1>1, IsSending, NeedsAt DEF Sending
  <1>3. hit \subseteq Key /\ hit \subseteq Call(f).ids
    BY <1>2 DEF Missing, Sending
  <1>4. WellWritten(f, new)
    <2>1. hit \subseteq Needs(f)
      BY <1>2, <1>3 DEF Written
    <2>2. DOMAIN new = hit /\ \A k \in hit : new[k] = Fresh(f, k)
      OBVIOUS
    <2>3. \A k \in hit : WellLeft(f, k, Fresh(f, k))
      BY <1>2, <1>3, FreshRow DEF Sending
    <2> HIDE DEF new, hit
    <2> QED
      BY <1>3, <2>1, <2>2, <2>3 DEF WellWritten
  <1>5. WellKept(f, Goes(f)) /\ (fl[f].inTx \/ Goes(f).todo \in {<<>>, <<"hook">>})
    BY <1>1, <1>2, GoesWell DEF Sending
  <1>6. Writes(f, Goes(f), new) => Passing(f)
    BY <1>1, <1>2, <1>4, <1>5, WritesPass
  <1> QED
    BY <1>1, <1>6 DEF Throwing, Failure

LEMMA MergePasses ==
    ASSUME WriteInv, NEW f \in Flow, Merge(f)
    PROVE  Passing(f)
  <1> DEFINE now == Current(f)
             hit == {k \in Call(f).ids : now[k] = None \/ (Call(f).cond => now[k].val = Seed)}
             new == [k \in hit |-> IF now[k] = None THEN Fresh(f, k) ELSE Touched(f, now[k])]
  <1>1. "merge" \in Alone /\ At(f, "merge") /\ Free(f) /\ Writes(f, Goes(f), new)
    BY DEF Alone, Merge, Ready
  <1>2. Sending(f, "merge") /\ Needs(f) = Written(Call(f).ids)
    BY <1>1, IsSending, NeedsAt DEF Sending
  <1>3. hit \subseteq Key /\ hit \subseteq Call(f).ids /\ \A k \in hit : now[k] = None \/ now[k] \in Row
    BY <1>2 DEF Sending
  <1>4. WellWritten(f, new)
    <2>1. hit \subseteq Needs(f)
      BY <1>2, <1>3 DEF Written
    <2>2. DOMAIN new = hit /\ \A k \in hit : new[k] = IF now[k] = None THEN Fresh(f, k) ELSE Touched(f, now[k])
      OBVIOUS
    <2>3. \A k \in hit : WellLeft(f, k, Fresh(f, k)) /\ (now[k] # None => WellLeft(f, k, Touched(f, now[k])))
      BY <1>2, <1>3, FreshRow, RowsLeft DEF Sending
    <2> HIDE DEF new, hit
    <2> QED
      BY <1>3, <2>1, <2>2, <2>3 DEF WellWritten
  <1>5. WellKept(f, Goes(f)) /\ (fl[f].inTx \/ Goes(f).todo \in {<<>>, <<"hook">>})
    BY <1>1, <1>2, GoesWell DEF Sending
  <1>6. DOMAIN new = hit
    OBVIOUS
  <1> HIDE DEF new, hit
  <1> QED
    BY <1>1, <1>2, <1>3, <1>4, <1>5, <1>6, WritesPass
LEMMA ColumnsPasses ==
    ASSUME WriteInv, NEW f \in Flow, Columns(f)
    PROVE  Passing(f)
  <1> DEFINE more == Len(fl[f].queue) > 1
             hit == Updatable(f, Batch(f))
             new == [k \in hit |-> Touched(f, Current(f)[k])]
             before == IF more THEN fl[f] ELSE Goes(f)
             kept == [before EXCEPT !.queue = Behind(f)]
  <1>1. "columns" \in Together /\ At(f, "columns") /\ Free(f) /\ Writes(f, kept, new)
    BY DEF Together, Columns, Ready
  <1>2. Sending(f, "columns") /\ Needs(f) = Written(hit)
    BY <1>1, IsSending, NeedsAt DEF Sending
  <1>3. hit \subseteq Key /\ \A k \in hit : Current(f)[k] \in Row
    BY <1>2 DEF Updatable, Sending
  <1>4. WellWritten(f, new)
    <2>1. hit \subseteq Needs(f)
      BY <1>2, <1>3 DEF Written
    <2>2. DOMAIN new = hit /\ \A k \in hit : new[k] = Touched(f, Current(f)[k])
      OBVIOUS
    <2>3. \A k \in hit : WellLeft(f, k, Touched(f, Current(f)[k]))
      BY <1>3, RowsLeft
    <2> HIDE DEF new, hit
    <2> QED
      BY <1>3, <2>1, <2>2, <2>3 DEF WellWritten
  <1>5. WellKept(f, kept) /\ fl[f].inTx
    <2>1. WellKept(f, Goes(f)) /\ fl[f].inTx
      BY <1>1, <1>2, GoesWell DEF Sending
    <2>2. WellKept(f, fl[f])
      BY DEF WriteInv, Keeps, WellKept
    <2>3. WellKept(f, before)
      BY <2>1, <2>2
    <2> HIDE DEF before
    <2> QED
      BY <1>2, <2>1, <2>3, QueueChanges DEF Sending
  <1>6. DOMAIN new = hit
    OBVIOUS
  <1> HIDE DEF new, hit, kept
  <1> QED
    BY <1>1, <1>2, <1>4, <1>5, <1>6, WritesPass

LEMMA GoneLeft ==
    ASSUME NEW f \in Flow, NEW k, Current(f)[k] \in Row
    PROVE  WellLeft(f, k, Gone(f, k))
  <1>1. WellLeft(f, k, [Current(f)[k] EXCEPT !.del = TRUE]) /\ WellLeft(f, k, None)
    BY RowsLeft DEF WellLeft
  <1> QED
    BY <1>1 DEF Gone

LEMMA ChildrenPasses ==
    ASSUME WriteInv, NEW f \in Flow, DeleteChildren(f)
    PROVE  Passing(f)
  <1> DEFINE hit == ChildrenOf(Current(f), Batch(f))
             new == [c \in hit |-> Gone(f, c)]
  <1>1. "children" \in Together /\ At(f, "children") /\ Free(f) /\ Writes(f, Goes(f), new)
    BY DEF Together, DeleteChildren, Ready
  <1>2. Sending(f, "children") /\ Needs(f) = Written(hit)
    BY <1>1, IsSending, NeedsAt DEF Sending
  <1>3. hit \subseteq Key /\ \A k \in hit : Current(f)[k] \in Row
    BY <1>2, ChildrenThere DEF Sending
  <1>4. WellWritten(f, new)
    <2>1. hit \subseteq Needs(f)
      BY <1>2, <1>3 DEF Written
    <2>2. DOMAIN new = hit /\ \A k \in hit : new[k] = Gone(f, k)
      OBVIOUS
    <2>3. \A k \in hit : WellLeft(f, k, Gone(f, k))
      BY <1>3, GoneLeft
    <2> HIDE DEF new, hit
    <2> QED
      BY <1>3, <2>1, <2>2, <2>3 DEF WellWritten
  <1>5. WellKept(f, Goes(f)) /\ fl[f].inTx
    BY <1>1, <1>2, GoesWell DEF Sending
  <1> QED
    BY <1>1, <1>2, <1>4, <1>5, WritesPass

LEMMA CascadePlain ==
    ASSUME NEW c, NEW d
    PROVE  Cascade(c) \in Seq(Plain(d)) /\ <<>> \in Seq(Plain(d))
  <1>1. {"children", "remove"} \subseteq Plain(d)
    BY DEF Plain, Together
  <1> QED
    BY <1>1 DEF Cascade

LEMMA RemovePasses ==
    ASSUME WriteInv, NEW f \in Flow, InternalDelete(f)
    PROVE  Passing(f) \/ Throwing(f)
  <1> DEFINE hit == {k \in Batch(f) : Current(f)[k] # None /\ (Call(f).hard \/ ~Current(f)[k].del)}
             more == Len(fl[f].queue) > 1
             new == [k \in hit |-> Gone(f, k)]
             next == IF more THEN Cascade(Call(f)) ELSE <<>>
             kept == [Then(f, next) EXCEPT !.queue = Behind(f)]
  <1>1. "remove" \in Together /\ At(f, "remove") /\ Free(f) /\ (Throw(f, "foreignKey") \/ Writes(f, kept, new))
    BY DEF Together, InternalDelete, Ready
  <1>2. Sending(f, "remove") /\ Needs(f) = Written(Batch(f))
    BY <1>1, IsSending, NeedsAt DEF Sending
  <1>3. hit \subseteq Key /\ hit \subseteq Batch(f) /\ \A k \in hit : Current(f)[k] \in Row
    BY <1>2 DEF Sending
  <1>4. WellWritten(f, new)
    <2>1. hit \subseteq Needs(f)
      BY <1>2, <1>3 DEF Written
    <2>2. DOMAIN new = hit /\ \A k \in hit : new[k] = Gone(f, k)
      OBVIOUS
    <2>3. \A k \in hit : WellLeft(f, k, Gone(f, k))
      BY <1>3, GoneLeft
    <2> HIDE DEF new, hit
    <2> QED
      BY <1>3, <2>1, <2>2, <2>3 DEF WellWritten
  <1>5. WellKept(f, kept) /\ fl[f].inTx
    <2>1. next \in Seq(Plain(Call(f)))
      BY CascadePlain
    <2> HIDE DEF next
    <2>2. WellKept(f, Then(f, next)) /\ fl[f].inTx
      BY <1>1, <1>2, <2>1, ThenWell DEF Sending
    <2> QED
      BY <1>2, <2>2, QueueChanges DEF Sending
  <1>6. DOMAIN new = hit
    OBVIOUS
  <1> HIDE DEF new, hit, kept
  <1>7. Writes(f, kept, new) => Passing(f)
    BY <1>1, <1>2, <1>3, <1>4, <1>5, <1>6, WritesPass
  <1> QED
    BY <1>1, <1>7 DEF Throwing, Failure

LEMMA AtVersionPasses ==
    ASSUME WriteInv, NEW f \in Flow, NEW step \in {"match", "found"}, At(f, step), Free(f),
           NEW k \in Call(f).ids, NEW S, Needs(f) = Written(S), LockVersion(f, k) => k \in S,
           WriteAtVersion(f, k)
    PROVE  Passing(f)
  <1>1. step \in Alone \cup Together /\ (step = "match" => step \in Alone) /\ (step = "found" => step \in Together)
    BY DEF Alone, Together
  <1>2. Sending(f, step) /\ fl[f].inTx \in BOOLEAN
    BY <1>1, IsSending
  <1>3. WellKept(f, Goes(f)) /\ (fl[f].inTx \/ Goes(f).todo \in {<<>>, <<"hook">>})
    BY <1>1, <1>2, GoesWell DEF Sending
  <1>4. CASE LockVersion(f, k)
    <2> DEFINE kept == [Goes(f) EXCEPT !.queue = Behind(f)]
               new == [j \in {k} |-> Bumped(f, Current(f)[j])]
    <2>1. Writes(f, kept, new)
      BY <1>4 DEF WriteAtVersion
    <2>2. WellKept(f, kept) /\ kept.todo = Goes(f).todo
      <3>1. Behind(f) \in Seq(SUBSET Call(f).ids)
        BY <1>2 DEF Sending
      <3> QED
        BY <1>3, <3>1, QueueChanges
    <2>3. DOMAIN new = {k} /\ new[k] = Bumped(f, Current(f)[k])
      OBVIOUS
    <2>4. k \in S /\ k \in Key /\ k \in Needs(f) /\ Current(f)[k] \in Row
      BY <1>2, <1>4 DEF Sending, LockVersion, Written
    <2>5. WellLeft(f, k, Bumped(f, Current(f)[k]))
      BY <2>4, RowsLeft
    <2> HIDE DEF new, kept
    <2>6. WellWritten(f, new)
      BY <2>3, <2>4, <2>5 DEF WellWritten
    <2> QED
      BY <1>3, <2>1, <2>2, <2>3, <2>4, <2>6, WritesPass
  <1>5. CASE ~LockVersion(f, k)
    <2>1. PICK why : Writes(f, [Then(f, <<"reread">>) EXCEPT !.miss = why], <<>>)
      BY <1>5 DEF WriteAtVersion
    <2>2. <<"reread">> \in Seq(Plain(Call(f))) /\ Len(<<"reread">>) = 1 /\ <<"reread">>[1] \in Alone
      BY DEF Plain, Alone
    <2>3. WellKept(f, Then(f, <<"reread">>))
      BY <1>1, <1>2, <2>2, ThenWell DEF Sending
    <2> DEFINE kept == [Then(f, <<"reread">>) EXCEPT !.miss = why]
    <2>5. WellKept(f, kept)
      BY <2>3, MissChanges
    <2>6. DOMAIN <<>> = {} /\ WellWritten(f, <<>>)
      BY NothingNew
    <2> HIDE DEF kept
    <2> QED
      BY <2>1, <2>5, <2>6, WritesPass DEF kept
  <1> QED
    BY <1>4, <1>5

LEMMA MatchPasses ==
    ASSUME WriteInv, NEW f \in Flow, Match(f)
    PROVE  Passing(f)
  <1>1. At(f, "match") /\ Free(f)
    BY DEF Match, Ready
  <1>2. PICK k \in Call(f).ids : WriteAtVersion(f, k)
    BY DEF Match
  <1>3. Needs(f) = Written({j \in Call(f).ids : LockVersion(f, j)})
    BY <1>1, NeedsAt DEF At
  <1> QED
    BY <1>1, <1>2, <1>3, AtVersionPasses

LEMMA FoundPasses ==
    ASSUME WriteInv, NEW f \in Flow, Found(f)
    PROVE  Passing(f) \/ Throwing(f)
  <1> DEFINE new == [j \in FoundRows(f) |-> Touched(f, Current(f)[j])]
             kept == [Goes(f) EXCEPT !.queue = Behind(f)]
  <1>1. "found" \in Together /\ At(f, "found") /\ Free(f)
    BY DEF Together, Found, Ready
  <1>2. Sending(f, "found") /\ Needs(f) = Written(FoundRows(f))
    BY <1>1, IsSending, NeedsAt DEF Sending
  <1> DEFINE refused(k) == fl[f].seen[k] = None \/ WritesRelations(Call(f))
  <1>3. PICK k \in Batch(f) : IF plan.versioned
                              THEN IF refused(k) THEN Throw(f, "unversioned") ELSE WriteAtVersion(f, k)
                              ELSE Writes(f, kept, new)
    BY DEF Found
  <1>4. CASE plan.versioned /\ refused(k)
    BY <1>3, <1>4 DEF Throwing, Failure
  <1>5. CASE plan.versioned /\ ~refused(k)
    <2>1. k \in Call(f).ids /\ (LockVersion(f, k) => k \in FoundRows(f))
      BY <1>2, <1>5 DEF Sending, FoundRows
    <2> QED
      BY <1>1, <1>2, <1>3, <1>5, <2>1, AtVersionPasses
  <1>6. CASE ~plan.versioned
    <2>1. FoundRows(f) \subseteq Key /\ \A j \in FoundRows(f) : Current(f)[j] \in Row
      BY <1>2, <1>6 DEF FoundRows, Sending, Asked
    <2>2. FoundRows(f) \subseteq Needs(f)
      BY <1>2, <2>1 DEF Written
    <2>3. \A j \in FoundRows(f) : WellLeft(f, j, Touched(f, Current(f)[j]))
      BY <2>1, RowsLeft
    <2>4. DOMAIN new = FoundRows(f) /\ \A j \in FoundRows(f) : new[j] = Touched(f, Current(f)[j])
      OBVIOUS
    <2>5. WellKept(f, Goes(f)) /\ fl[f].inTx
      BY <1>1, <1>2, GoesWell DEF Sending
    <2>6. WellKept(f, kept)
      BY <1>2, <2>5, QueueChanges DEF Sending
    <2> HIDE DEF new, kept
    <2>7. WellWritten(f, new)
      BY <2>1, <2>2, <2>3, <2>4 DEF WellWritten
    <2> QED
      BY <1>1, <1>2, <1>3, <1>6, <2>4, <2>5, <2>6, <2>7, WritesPass
  <1> QED
    BY <1>4, <1>5, <1>6
LEMMA RereadPasses ==
    ASSUME WriteInv, NEW f \in Flow, ThrowStaleVersion(f)
    PROVE  Passing(f) \/ Throwing(f)
  <1>1. "reread" \in Alone /\ At(f, "reread")
    BY DEF Alone, ThrowStaleVersion
  <1>2. Sending(f, "reread") /\ Needs(f) = {}
    BY <1>1, IsSending, NeedsAt DEF Sending
  <1> DEFINE kept == [[Goes(f) EXCEPT !.queue = Behind(f)] EXCEPT !.kept = @ \cup {fl[f].miss}]
  <1>3. PICK actual \in Failure :
            \/ Sends(f, [kept EXCEPT !.snap = Snapshot(f, TRUE)], <<>>, {})
            \/ Throw(f, actual)
    BY DEF ThrowStaleVersion, Failure
  <1>4. WellKept(f, kept)
    <2>1. WellKept(f, Goes(f))
      BY <1>1, <1>2, GoesWell DEF Sending
    <2>2. Behind(f) \in Seq(SUBSET Call(f).ids)
      BY <1>2 DEF Sending
    <2>3. WellKept(f, [Goes(f) EXCEPT !.queue = Behind(f)])
      BY <2>1, <2>2, QueueChanges
    <2> QED
      BY <2>3 DEF WellKept, Fields
  <1> HIDE DEF kept
  <1> QED
    BY <1>2, <1>3, <1>4, PlainReadPass DEF Throwing

LEMMA ReadBackPasses ==
    ASSUME WriteInv, NEW f \in Flow, ReadBack(f)
    PROVE  Passing(f)
  <1>1. "readBack" \in Together /\ At(f, "readBack")
    BY DEF Together, ReadBack
  <1>2. Sending(f, "readBack") /\ Needs(f) = {}
    BY <1>1, IsSending, NeedsAt DEF Sending
  <1> DEFINE told == {<<k, View(f)[k]>> : k \in WrittenIds(f)}
             kept == [Goes(f) EXCEPT !.told = told]
  <1>3. Sends(f, [kept EXCEPT !.snap = Snapshot(f, TRUE)], <<>>, {})
    BY DEF ReadBack
  <1>4. WellKept(f, kept)
    BY <1>1, <1>2, GoesWell, MissChanges DEF Sending
  <1> HIDE DEF kept
  <1> QED
    BY <1>2, <1>3, <1>4, PlainReadPass

\* The keys of a list, in lists of them.
LEMMA ListsTyped ==
    ASSUME NEW ks, IsFiniteSet(ks), NEW n \in Nat \ {0}
    PROVE  InLists(ks, n) \in Seq(SUBSET ks)
  <1> DEFINE m == (Cardinality(ks) + n - 1) \div n
  <1>1. Cardinality(ks) \in Nat
    BY FS_CardinalityType
  <1>2. m \in Nat
    BY <1>1
  <1>3. \A i \in 1..m : InLists(ks, n)[i] \in SUBSET ks
    BY DEF InLists
  <1>4. InLists(ks, n) \in [1..m -> SUBSET ks]
    BY <1>3 DEF InLists
  <1> HIDE DEF m
  <1> QED
    BY <1>2, <1>4, SeqDef

LEMMA SettledPlain ==
    ASSUME NEW c, c.list # None => c.ids # {}
    PROVE  SettledWrite(c) \in Seq(Plain(c))
  <1>1. <<"columns">> \in Seq(Plain(c)) /\ <<>> \in Seq(Plain(c))
    BY DEF Plain, Together
  <1>2. c.list # None => <<"drop", "save">> \in Seq(Plain(c))
    <2>1. c.list # None => "drop" \in Plain(c) /\ "save" \in Plain(c)
      BY DEF Plain, Together, Alone
    <2> QED
      BY <2>1
  <1> DEFINE own == IF c.columns THEN <<"columns">> ELSE <<>>
             relations == IF WritesRelations(c) THEN <<"drop", "save">> ELSE <<>>
  <1>3. own \in Seq(Plain(c)) /\ relations \in Seq(Plain(c))
    BY <1>1, <1>2 DEF WritesRelations
  <1> HIDE DEF own, relations
  <1>4. own \o relations \in Seq(Plain(c))
    BY <1>3, ConcatProperties
  <1> QED
    BY <1>4 DEF SettledWrite, own, relations

LEMMA ChunksTyped ==
    ASSUME WriteInv, NEW f \in Flow, NEW ids \in SUBSET Call(f).ids
    PROVE  Chunks(ids) \in Seq(SUBSET Call(f).ids) /\ InLists(ids, 1) \in Seq(SUBSET Call(f).ids)
  <1>1. IsFiniteSet(ids)
    BY CallTyped, FS_Subset DEF WriteInv
  <1>2. Chunks(ids) \in Seq(SUBSET ids) /\ InLists(ids, 1) \in Seq(SUBSET ids)
    BY <1>1, ListsTyped, BoundAssumption DEF Chunks
  <1> QED
    BY <1>2, SeqMonotonic

LEMMA SettlePasses ==
    ASSUME WriteInv, NEW f \in Flow, Settle(f)
    PROVE  Passing(f)
  <1> DEFINE ids == SettleIds(f)
             writes == IF ids = {} \/ plan.versioned THEN <<>> ELSE SettledWrite(Call(f))
             kept == [Then(f, writes) EXCEPT !.ids = ids, !.queue = Chunks(ids)]
  <1>1. "settle" \in Together /\ At(f, "settle") /\ Free(f) /\ Reads(f, kept, ids)
    BY DEF Together, Settle, Ready
  <1>2. Sending(f, "settle") /\ Needs(f) = Held(f, ids)
    BY <1>1, IsSending, NeedsAt DEF Sending
  <1>3. ids \in SUBSET Call(f).ids
    BY DEF SettleIds, FirstOf, Filtered
  <1>4. Chunks(ids) \in Seq(SUBSET Call(f).ids)
    BY <1>3, ChunksTyped
  <1>5. writes \in Seq(Plain(Call(f)))
    <2>1. <<>> \in Seq(Plain(Call(f)))
      OBVIOUS
    <2>2. ids # {} => SettledWrite(Call(f)) \in Seq(Plain(Call(f)))
      BY <1>3, SettledPlain
    <2> QED
      BY <2>1, <2>2
  <1> HIDE DEF ids, writes
  <1>6. WellKept(f, Then(f, writes))
    BY <1>1, <1>2, <1>5, ThenWell DEF Sending
  <1>7. WellKept(f, kept)
    BY <1>3, <1>4, <1>6, IdsChange
  <1> HIDE DEF kept
  <1> QED
    BY <1>1, <1>2, <1>7, ReadsPass

LEMMA FindPasses ==
    ASSUME WriteInv, NEW f \in Flow, ReadThenUpsert(f)
    PROVE  Passing(f)
  <1> DEFINE found == RowsByConflict(f)
             update == IF WritesRelations(Call(f)) /\ ~plan.versioned THEN "settle" ELSE "found"
             n == Cardinality(found)
             updates == [i \in 1..n |-> update]
             inserts == IF found = Call(f).ids THEN <<>>
                        ELSE <<"insert">> \o (IF WritesRelations(Call(f)) THEN <<"save">> ELSE <<>>)
             next == updates \o inserts
             kept == [Then(f, next) EXCEPT !.ids = found, !.queue = InLists(found, 1)]
  <1>1. "find" \in Together /\ At(f, "find") /\ Free(f) /\ Reads(f, kept, found)
    BY DEF Together, ReadThenUpsert, Ready
  <1>2. Sending(f, "find") /\ Needs(f) = Held(f, found)
    BY <1>1, IsSending, NeedsAt DEF Sending
  <1>3. found \in SUBSET Call(f).ids
    BY DEF RowsByConflict
  <1>4. InLists(found, 1) \in Seq(SUBSET Call(f).ids)
    BY <1>3, ChunksTyped
  <1>5. updates \in Seq(Plain(Call(f)))
    <2>1. update \in Plain(Call(f))
      BY DEF Plain, Together
    <2>2. n \in Nat
      BY <1>3, CallTyped, FS_Subset, FS_CardinalityType DEF WriteInv
    <2> HIDE DEF update, n
    <2>3. updates \in [1..n -> Plain(Call(f))]
      BY <2>1
    <2> QED
      BY <2>2, <2>3, SeqDef
  <1>6. inserts \in Seq(Plain(Call(f)))
    <2>1. <<"insert">> \in Seq(Plain(Call(f))) /\ <<>> \in Seq(Plain(Call(f)))
      BY DEF Plain, Alone
    <2>2. found # Call(f).ids /\ WritesRelations(Call(f)) => <<"save">> \in Seq(Plain(Call(f)))
      <3>1. found # Call(f).ids /\ WritesRelations(Call(f)) => "save" \in Plain(Call(f))
        BY <1>3 DEF Plain, Alone, WritesRelations
      <3> QED
        BY <3>1
    <2>3. \A t \in Seq(Plain(Call(f))) : <<"insert">> \o t \in Seq(Plain(Call(f)))
      BY <2>1, ConcatProperties
    <2> QED
      BY <2>1, <2>2, <2>3
  <1> HIDE DEF found, updates, inserts
  <1>7. next \in Seq(Plain(Call(f)))
    BY <1>5, <1>6, ConcatProperties
  <1> HIDE DEF next
  <1>8. WellKept(f, Then(f, next))
    BY <1>1, <1>2, <1>7, ThenWell DEF Sending
  <1>9. WellKept(f, kept)
    BY <1>3, <1>4, <1>8, IdsChange
  <1> HIDE DEF kept
  <1> QED
    BY <1>1, <1>2, <1>9, ReadsPass

LEMMA DoomPasses ==
    ASSUME WriteInv, NEW f \in Flow, Doom(f)
    PROVE  Passing(f)
  <1> DEFINE ids == Doomed(f)
             next == IF ids = {} THEN <<>> ELSE Hooked(Cascade(Call(f)))
             told == {<<k, ReadForWrite(f)[k]>> : k \in ids}
             kept == [[Then(f, next) EXCEPT !.ids = ids, !.queue = Chunks(ids)] EXCEPT !.told = told]
  <1>1. "doom" \in Together /\ At(f, "doom") /\ Free(f) /\ Reads(f, kept, ids)
    BY DEF Together, Doom, Ready
  <1>2. Sending(f, "doom") /\ Needs(f) = Held(f, ids)
    BY <1>1, IsSending, NeedsAt DEF Sending
  <1>3. ids \in SUBSET Call(f).ids
    BY DEF Doomed, FirstOf
  <1>4. Chunks(ids) \in Seq(SUBSET Call(f).ids)
    BY <1>3, ChunksTyped
  <1>5. next \in Seq(Plain(Call(f)))
    BY CascadePlain, HookedPlain
  <1> HIDE DEF ids, next, told
  <1>6. WellKept(f, Then(f, next))
    BY <1>1, <1>2, <1>5, ThenWell DEF Sending
  <1>7. WellKept(f, kept)
    BY <1>3, <1>4, <1>6, IdsChange, MissChanges
  <1> HIDE DEF kept
  <1> QED
    BY <1>1, <1>2, <1>7, ReadsPass

LEMMA LoadPasses ==
    ASSUME WriteInv, NEW f \in Flow, Load(f)
    PROVE  Passing(f)
  <1> DEFINE found == [k \in Call(f).ids |-> IF Live(View(f)[k]) THEN View(f)[k] ELSE None]
             none == Call(f).op = "update" /\ \A k \in Call(f).ids : found[k] = None
             ending == IF Call(f).outer THEN <<"commit">> ELSE <<>>
             kept == [[Goes(f) EXCEPT !.seen = found] EXCEPT !.todo = IF ~none THEN @ ELSE ending]
  <1>1. fl[f].todo # <<>> /\ Head(fl[f].todo) = "load" /\ Sends(f, [kept EXCEPT !.snap = Snapshot(f, TRUE)], <<>>, {})
    BY DEF Load, At
  <1>2. Needs(f) = {} /\ WellKept(f, Goes(f))
    BY <1>1, NeedsAt, GoesWell
  <1>3. found \in [Call(f).ids -> Row \cup {None}]
    <2>1. Call(f).ids \subseteq Key
      BY CallTyped DEF WriteInv
    <2> QED
      BY <2>1, AtRow
  <1>4. fl[f].inTx \in BOOLEAN /\ Shape(fl[f].todo, fl[f].inTx, Call(f)) /\ Call(f).outer \in BOOLEAN
    BY CallTyped DEF WriteInv, Keeps
  <1>5. fl[f].inTx = Call(f).outer
    BY <1>1, <1>4, HeadOfShape
  <1>6. Shape(ending, fl[f].inTx, Call(f))
    <2>1. Shape(<<"commit">>, TRUE, Call(f)) /\ Shape(<<>>, FALSE, Call(f))
      BY ShapeOfLittle
    <2> QED
      BY <1>4, <1>5, <2>1
  <1> HIDE DEF found, ending, none
  <1>7. WellKept(f, kept)
    BY <1>2, <1>3, <1>6 DEF WellKept, Fields
  <1> HIDE DEF kept
  <1> QED
    BY <1>1, <1>2, <1>7, PlainReadPass
-----------------------------------------------------------------------------
(***************************************************************************)
(* The transaction, the hooks and what goes wrong.                         *)
(***************************************************************************)
\* Of a step of `f` that changes what it keeps, what the invariant needs of the rest.
LEMMA OthersKeep ==
    ASSUME WriteInv, NEW f \in Flow, NEW kept, fl' = [fl EXCEPT ![f] = kept], plan' = plan
    PROVE  /\ fl'[f] = kept /\ DOMAIN fl' = Flow /\ \A g \in Flow \ {f} : fl'[g] = fl[g]
           /\ \A g \in Flow : Call(g)' = Call(g)
           /\ \A g \in Flow \ {f} : Keeps(g)'
           /\ plan' \in Plan
  <1>1. fl'[f] = kept /\ DOMAIN fl' = Flow /\ \A g \in Flow \ {f} : fl'[g] = fl[g]
    BY DEF WriteInv
  <1>2. \A g \in Flow : Call(g)' = Call(g)
    BY DEF Call
  <1>3. ASSUME NEW g \in Flow \ {f} PROVE Keeps(g)'
    <2>1. Keeps(g) /\ fl'[g] = fl[g]
      BY <1>1 DEF WriteInv
    <2> QED
      BY <1>2, <2>1 DEF Keeps
  <1> QED
    BY <1>1, <1>2, <1>3 DEF WriteInv

LEMMA BeginKeeps ==
    ASSUME WriteInv, NEW f \in Flow, Begin(f)
    PROVE  WriteInv'
  <1> DEFINE kept == [Goes(f) EXCEPT !.inTx = TRUE]
  <1>1. /\ fl[f].todo # <<>> /\ Head(fl[f].todo) = "begin" /\ Free(f)
        /\ fl' = [fl EXCEPT ![f] = kept] /\ plan' = plan /\ rows' = rows /\ base' = base /\ faults' = faults
        /\ lock' = IF plan.engine = "begin" THEN [k \in Key |-> f] ELSE lock
    BY DEF Begin, Ready, At
  <1>2. Keeps(f) /\ Shape(fl[f].todo, fl[f].inTx, Call(f)) /\ fl[f].inTx \in BOOLEAN
    BY DEF WriteInv, Keeps
  <1>3. fl[f].inTx = FALSE
    BY <1>1, <1>2, HeadOfShape
  <1>4. <<>> \o Tail(fl[f].todo) = Tail(fl[f].todo)
    BY <1>1, <1>2, HeadOfShape, TailItems
  <1>5. Shape(Tail(fl[f].todo), TRUE, Call(f))
    BY <1>1, <1>2, <1>3, ShapeBegins
  <1>6. /\ DOMAIN kept = Fields /\ kept.todo = Tail(fl[f].todo) /\ kept.inTx = TRUE /\ kept.out = fl[f].out
        /\ kept.ids = fl[f].ids /\ kept.queue = fl[f].queue /\ kept.seen = fl[f].seen /\ kept.snap = fl[f].snap
    BY <1>2, <1>4 DEF Keeps, Goes, Then, Fields
  <1>7. fl[f].todo \notin {<<>>, <<"rollback">>, <<"hook">>}
    BY <1>1
  <1>8. /\ kept = fl'[f] /\ DOMAIN fl' = Flow /\ \A g \in Flow \ {f} : fl'[g] = fl[g] /\ Keeps(g)'
        /\ Call(f)' = Call(f) /\ plan' \in Plan
    BY <1>1, OthersKeep
  <1> HIDE DEF kept
  <1>9. Keeps(f)'
    BY <1>2, <1>5, <1>6, <1>7, <1>8 DEF Keeps
  <1>10. \A k \in Key : lock[k] # f
    BY <1>3, WriterAssumption DEF WriteInv, Tables
  <1>11. plan.engine = "begin" => \A k \in Key : lock[k] = None /\ rows[k] = base[k]
    <2> SUFFICES ASSUME plan.engine = "begin" PROVE \A k \in Key : lock[k] = None /\ rows[k] = base[k]
      OBVIOUS
    <2>1. Needs(f) = Key
      BY <1>1 DEF Needs, Ended
    <2> QED
      BY <1>1, <1>10, <2>1, FreeToHave DEF WriteInv, Tables
  <1>12. Tables'
    <2>1. CASE plan.engine = "begin"
      <3>1. lock' = [k \in Key |-> f]
        BY <1>1, <2>1
      <3> QED
        BY <1>1, <1>6, <1>8, <3>1, WriterAssumption DEF WriteInv, Tables
    <2>2. CASE plan.engine # "begin"
      BY <1>1, <1>6, <1>8, <2>2 DEF WriteInv, Tables
    <2> QED
      BY <2>1, <2>2
  <1>13. Writers'
    <2>1. \A k \in Key : ~By(base[k], f)
      BY <1>7, NotYet
    <2>2. ASSUME NEW k \in Key, NEW g \in Flow, By(rows[k], g)
          PROVE  lock'[k] = g \/ By(base[k], g)
      BY <1>1, <1>11, <2>2 DEF WriteInv, Writers
    <2>3. ASSUME NEW k \in Key, NEW g \in Flow, By(base[k], g)
          PROVE  ~fl'[g].inTx /\ fl'[g].todo \in {<<>>, <<"hook">>} /\ fl'[g].out \in {None, "late"}
      BY <1>8, <2>1, <2>3 DEF WriteInv, Writers
    <2> QED
      BY <1>1, <2>2, <2>3 DEF Writers
  <1>14. faults' \in 0..plan'.faults
    BY <1>1 DEF WriteInv
  <1> QED
    BY <1>8, <1>9, <1>12, <1>13, <1>14 DEF WriteInv

\* The end of a transaction, as what is left says it.
LEMMA ClosedWell ==
    ASSUME WriteInv, NEW f \in Flow, fl[f].todo # <<>>, Head(fl[f].todo) \in {"commit", "rollback"}
    PROVE  /\ DOMAIN Closed(f) = Fields /\ Closed(f).inTx = FALSE /\ Closed(f).todo \in {<<>>, <<"hook">>}
           /\ Closed(f).out = fl[f].out /\ Closed(f).snap = None
           /\ Closed(f).ids = fl[f].ids /\ Closed(f).queue = fl[f].queue /\ Closed(f).seen = fl[f].seen
           /\ Shape(Closed(f).todo, FALSE, Call(f))
           /\ fl[f].out # None => Closed(f).todo = <<>>
           /\ Head(fl[f].todo) = "commit" => fl[f].out = None
           /\ fl[f].inTx
  <1>1. Keeps(f) /\ Shape(fl[f].todo, fl[f].inTx, Call(f)) /\ fl[f].inTx \in BOOLEAN
    BY DEF WriteInv, Keeps
  <1>2. fl[f].inTx /\ Tail(fl[f].todo) \in {<<>>, <<"hook">>}
    BY <1>1, HeadOfShape
  <1>3. /\ DOMAIN Closed(f) = Fields /\ Closed(f).inTx = FALSE /\ Closed(f).todo = Tail(fl[f].todo)
        /\ Closed(f).out = fl[f].out /\ Closed(f).snap = None
        /\ Closed(f).ids = fl[f].ids /\ Closed(f).queue = fl[f].queue /\ Closed(f).seen = fl[f].seen
    BY <1>1 DEF Keeps, Closed, Fields
  <1>4. Shape(<<>>, FALSE, Call(f)) /\ Shape(<<"hook">>, FALSE, Call(f))
    BY ShapeOfLittle
  <1>5. fl[f].out # None => fl[f].todo = <<"rollback">>
    BY <1>1 DEF Keeps
  <1>6. fl[f].todo = <<"rollback">> => Tail(fl[f].todo) = <<>> /\ Head(fl[f].todo) = "rollback"
    OBVIOUS
  <1> QED
    BY <1>2, <1>3, <1>4, <1>5, <1>6

LEMMA EndKeeps ==
    ASSUME WriteInv, NEW f \in Flow, Commit(f) \/ Rollback(f)
    PROVE  WriteInv'
  <1>1. /\ fl[f].todo # <<>> /\ Head(fl[f].todo) \in {"commit", "rollback"}
        /\ fl' = [fl EXCEPT ![f] = Closed(f)] /\ plan' = plan /\ faults' = faults
        /\ lock' = [k \in Key |-> IF lock[k] = f THEN None ELSE lock[k]]
    BY DEF Commit, Rollback, At
  <1>2. \/ /\ base' = Current(f) /\ rows' = rows /\ fl[f].out = None
        \/ /\ base' = base /\ rows' = [k \in Key |-> IF lock[k] = f THEN base[k] ELSE rows[k]]
    BY ClosedWell DEF Commit, Rollback, At
  <1>3. /\ DOMAIN Closed(f) = Fields /\ Closed(f).inTx = FALSE /\ Closed(f).todo \in {<<>>, <<"hook">>}
        /\ Closed(f).out = fl[f].out /\ Closed(f).snap = None
        /\ Closed(f).ids = fl[f].ids /\ Closed(f).queue = fl[f].queue /\ Closed(f).seen = fl[f].seen
        /\ Shape(Closed(f).todo, FALSE, Call(f))
        /\ fl[f].out # None => Closed(f).todo = <<>>
        /\ fl[f].inTx
    BY <1>1, ClosedWell
  <1>4. Keeps(f)
    BY DEF WriteInv
  <1>5. /\ fl'[f] = Closed(f) /\ DOMAIN fl' = Flow /\ \A g \in Flow \ {f} : fl'[g] = fl[g] /\ Keeps(g)'
        /\ Call(f)' = Call(f) /\ plan' \in Plan
    BY <1>1, OthersKeep
  <1>6. Keeps(f)'
    <2>1. fl'[f] = Closed(f) /\ Call(f)' = Call(f)
      BY <1>5
    <2>2. /\ Closed(f).ids \subseteq Call(f).ids /\ Closed(f).queue \in Seq(SUBSET Call(f).ids)
          /\ Closed(f).seen \in [Call(f).ids -> Row \cup {None}] /\ Closed(f).out \in Failure \cup {None}
          /\ Closed(f).inTx \in BOOLEAN /\ Shape(Closed(f).todo, Closed(f).inTx, Call(f))
      BY <1>3, <1>4 DEF Keeps
    <2> QED
      BY <1>3, <2>1, <2>2 DEF Keeps
  <1>7. /\ rows \in [Key -> Row \cup {None}] /\ base \in [Key -> Row \cup {None}] /\ lock \in [Key -> Flow \cup {None}]
        /\ \A k \in Key : lock[k] # None => fl[lock[k]].inTx
        /\ \A k \in Key : lock[k] = None => rows[k] = base[k]
    BY DEF WriteInv, Tables
  <1>8. Current(f) \in [Key -> Row \cup {None}] /\ \A k \in Key : Current(f)[k] = IF lock[k] = f THEN rows[k] ELSE base[k]
    BY AtRow
  <1>9. Tables'
    <2>1. rows' \in [Key -> Row \cup {None}] /\ base' \in [Key -> Row \cup {None}] /\ lock' \in [Key -> Flow \cup {None}]
      BY <1>1, <1>2, <1>7, <1>8
    <2>2. \A k \in Key : lock'[k] # None => lock'[k] = lock[k] /\ lock[k] \in Flow \ {f}
      BY <1>1, <1>7
    <2>3. \A k \in Key : lock'[k] # None => fl'[lock'[k]].inTx
      BY <1>5, <1>7, <2>2
    <2>4. \A k \in Key : lock'[k] = None => rows'[k] = base'[k]
      BY <1>1, <1>2, <1>7, <1>8
    <2> QED
      BY <2>1, <2>3, <2>4 DEF Tables
  <1>10. Writers'
    <2>1. \A k \in Key : ~By(base[k], f)
      BY <1>3, NotYet
    <2>2. \A k \in Key, g \in Flow : By(rows[k], g) => lock[k] = g \/ By(base[k], g)
      BY DEF WriteInv, Writers
    <2>3. ASSUME NEW k \in Key, NEW g \in Flow, By(rows'[k], g)
          PROVE  lock'[k] = g \/ By(base'[k], g)
      BY <1>1, <1>2, <1>7, <1>8, <2>2, <2>3
    <2>4. ASSUME NEW k \in Key, NEW g \in Flow, By(base'[k], g), g # f
          PROVE  By(base[k], g)
      BY <1>2, <1>8, <2>2, <2>4
    <2>5. ASSUME NEW k \in Key, NEW g \in Flow, By(base'[k], g)
          PROVE  ~fl'[g].inTx /\ fl'[g].todo \in {<<>>, <<"hook">>} /\ fl'[g].out \in {None, "late"}
      <3>1. CASE g = f
        <4>1. fl[f].out = None
          BY <1>2, <2>1, <2>5, <3>1
        <4> QED
          BY <1>3, <1>5, <3>1, <4>1
      <3>2. CASE g # f
        BY <1>5, <2>4, <2>5, <3>2 DEF WriteInv, Writers
      <3> QED
        BY <3>1, <3>2
    <2> QED
      BY <2>3, <2>5 DEF Writers
  <1>11. faults' \in 0..plan'.faults
    BY <1>1 DEF WriteInv
  <1> QED
    BY <1>5, <1>6, <1>9, <1>10, <1>11 DEF WriteInv

LEMMA HookKeeps ==
    ASSUME WriteInv, NEW f \in Flow, Hook(f)
    PROVE  WriteInv'
  <1>1. /\ fl[f].todo # <<>> /\ Head(fl[f].todo) = "hook" /\ "hook" \in Plain(Call(f))
        /\ fl' = [fl EXCEPT ![f] = Goes(f)] /\ plan' = plan /\ faults' = faults
        /\ rows' = rows /\ base' = base /\ lock' = lock
    BY DEF Hook, At, store, Plain
  <1>2. WellKept(f, Goes(f)) /\ Goes(f).todo = Tail(fl[f].todo)
    BY <1>1, GoesWell
  <1>3. fl[f].out = None /\ fl[f].inTx \in BOOLEAN
    <2>1. fl[f].todo \notin {<<>>, <<"rollback">>}
      BY <1>1
    <2> QED
      BY <2>1 DEF WriteInv, Keeps
  <1>4. /\ fl'[f] = Goes(f) /\ DOMAIN fl' = Flow /\ \A g \in Flow \ {f} : fl'[g] = fl[g] /\ Keeps(g)'
        /\ Call(f)' = Call(f) /\ plan' \in Plan
    BY <1>1, OthersKeep
  <1>5. Keeps(f)'
    BY <1>2, <1>3, <1>4 DEF Keeps, WellKept
  <1>6. Tables'
    <2>1. \A k \in Key : lock[k] # None => fl'[lock[k]].inTx
      BY <1>2, <1>4 DEF WriteInv, Tables, WellKept
    <2> QED
      BY <1>1, <2>1 DEF WriteInv, Tables
  <1>7. Writers'
    <2>1. \A k \in Key : By(base[k], f) => fl[f].todo = <<"hook">> /\ ~fl[f].inTx
      BY <1>1 DEF WriteInv, Writers
    <2>2. fl[f].todo = <<"hook">> => Tail(fl[f].todo) = <<>>
      OBVIOUS
    <2>3. ASSUME NEW k \in Key, NEW g \in Flow, By(base[k], g)
          PROVE  ~fl'[g].inTx /\ fl'[g].todo \in {<<>>, <<"hook">>} /\ fl'[g].out \in {None, "late"}
      <3>1. CASE g = f
        BY <1>2, <1>3, <1>4, <2>1, <2>2, <2>3, <3>1 DEF WellKept
      <3>2. CASE g # f
        BY <1>4, <2>3, <3>2 DEF WriteInv, Writers
      <3> QED
        BY <3>1, <3>2
    <2> QED
      BY <1>1, <2>3 DEF WriteInv, Writers
  <1>8. faults' \in 0..plan'.faults
    BY <1>1 DEF WriteInv
  <1> QED
    BY <1>4, <1>5, <1>6, <1>7, <1>8 DEF WriteInv
LEMMA StatementPasses ==
    ASSUME WriteInv, NEW f \in Flow, Statement(f)
    PROVE  Passing(f) \/ Throwing(f)
  BY LoadPasses, MatchPasses, RereadPasses, WherePasses, SettlePasses, ColumnsPasses, DropPasses, SavePasses,
     ReadBackPasses, FindPasses, FoundPasses, InsertPasses, MergePasses, DoomPasses, ChildrenPasses, RemovePasses,
     RestorePasses DEF Statement

LEMMA StatementStarts ==
    ASSUME NEW f, Statement(f)
    PROVE  fl[f].todo # <<>> /\ Head(fl[f].todo) \notin {"hook", "rollback", "commit", "begin"}
  <1>1. PICK step \in {"load", "match", "reread", "where", "settle", "columns", "drop", "save", "readBack", "find",
                       "found", "insert", "merge", "doom", "children", "remove", "restore"} : At(f, step)
    BY DEF Statement, Load, Match, ThrowStaleVersion, Where, Settle, Columns, DropUnlisted, SaveChildren, ReadBack,
           ReadThenUpsert, Found, InsertRows, Merge, Doom, DeleteChildren, InternalDelete, Restore, Ready
  <1> QED
    BY <1>1 DEF At

LEMMA StatementKeeps ==
    ASSUME WriteInv, NEW f \in Flow, Statement(f)
    PROVE  WriteInv'
  <1>1. fl[f].todo # <<>> /\ Head(fl[f].todo) \notin {"hook", "rollback", "commit", "begin"}
    BY StatementStarts
  <1>2. fl[f].todo # <<"hook">> /\ fl[f].todo # <<"rollback">>
    BY <1>1
  <1> QED
    BY <1>1, <1>2, StatementPasses, PassingKeeps, ThrowingKeeps

\* What the program did not do: a hook that throws, a statement refused, a deadlock, an overtaken snapshot.
LEMMA FaultKeeps ==
    ASSUME WriteInv, NEW f \in Flow, HookThrows(f) \/ Refused(f) \/ Deadlocked(f) \/ Racer(f)
    PROVE  WriteInv'
  <1>1. plan.faults \in Nat /\ faults \in 0..plan.faults
    BY BoundAssumption DEF WriteInv
  <1>2. CASE HookThrows(f)
    <2>1. /\ fl[f].todo # <<>> /\ Head(fl[f].todo) = "hook"
          /\ faults' \in 0..plan.faults /\ plan' = plan /\ rows' = rows /\ base' = base /\ lock' = lock
      BY <1>1, <1>2 DEF HookThrows, At, store
    <2>2. PICK why \in {"late", "hook"} : fl' = [fl EXCEPT ![f] = Thrown(f, why)] /\ (Late(f) => why = "late")
      BY <1>2 DEF HookThrows
    <2>3. fl[f].inTx \/ fl[f].todo # <<"hook">> \/ why = "late"
      <3>1. fl[f].todo = <<"hook">> => Len(fl[f].todo) = 1
        OBVIOUS
      <3> QED
        BY <2>2, <3>1 DEF Late
    <2>4. why \in Failure
      BY DEF Failure
    <2> QED
      BY <2>1, <2>2, <2>3, <2>4, ThrownKeeps
  <1>3. CASE Refused(f)
    <2>1. /\ fl[f].todo # <<>> /\ Head(fl[f].todo) # "hook" /\ fl' = [fl EXCEPT ![f] = Thrown(f, "refused")]
          /\ faults' \in 0..plan.faults /\ plan' = plan /\ rows' = rows /\ base' = base /\ lock' = lock
      BY <1>1, <1>3 DEF Refused, Ended, store
    <2>2. fl[f].todo # <<"hook">> /\ "refused" \in Failure
      BY <2>1 DEF Failure
    <2> QED
      BY <2>1, <2>2, ThrownKeeps
  <1>4. CASE Deadlocked(f)
    <2>1. Throwing(f) /\ fl[f].inTx
      BY <1>4 DEF Deadlocked, Throwing, Failure
    <2>2. fl[f].todo # <<>>
      <3>1. PICK g \in Flow : Waits(f, g, Needs(f))
        BY <1>4 DEF Deadlocked
      <3>2. Needs(f) # {}
        BY <3>1 DEF Waits
      <3> QED
        BY <3>2 DEF Needs, Ended
    <2> QED
      BY <2>1, <2>2, ThrowingKeeps
  <1>5. CASE Racer(f)
    <2>1. Throwing(f) /\ fl[f].todo # <<>> /\ Needs(f) # {}
      BY <1>5 DEF Racer, Throwing, Failure, Ended
    <2>2. fl[f].todo # <<"hook">>
      <3>1. fl[f].todo = <<"hook">> => Head(fl[f].todo) = "hook"
        OBVIOUS
      <3> QED
        BY <2>1, <3>1, NeedsAt
    <2> QED
      BY <2>1, <2>2, ThrowingKeeps
  <1> QED
    BY <1>2, <1>3, <1>4, <1>5

LEMMA NextKeeps == WriteInv /\ [Next]_vars => WriteInv'
  <1> SUFFICES ASSUME WriteInv, [Next]_vars PROVE WriteInv'
    OBVIOUS
  <1>1. CASE UNCHANGED vars
    <2>1. plan' = plan /\ rows' = rows /\ base' = base /\ lock' = lock /\ fl' = fl /\ faults' = faults
      BY <1>1 DEF vars
    <2>2. \A f \in Flow : Keeps(f)'
      BY <2>1 DEF WriteInv, Keeps, Call
    <2> QED
      BY <2>1, <2>2 DEF WriteInv, Tables, Writers
  <1>2. CASE Next
    <2>1. PICK f \in Flow : Write(f)
      BY <1>2 DEF Next
    <2> QED
      BY <2>1, BeginKeeps, EndKeeps, HookKeeps, StatementKeeps, FaultKeeps DEF Write, Proceeds
  <1> QED
    BY <1>1, <1>2

\* For any engine, entities, rows, calls and bounds, what is left of every call is well formed, who wrote a row
\* that is not committed holds it, and who committed one is at the end of its call.
THEOREM Writing == Spec => []WriteInv
  BY WritesStart, NextKeeps, PTL DEF Spec

\* What a flow keeps is of its own call: its statements name its own rows, a lock is held in a transaction, and
\* no call ends with its transaction open.
THEOREM TypesAlways == Spec => []TypeOK
  <1>1. WriteInv => TypeOK
    <2> SUFFICES ASSUME WriteInv PROVE TypeOK
      OBVIOUS
    <2>1. ASSUME NEW f \in Flow PROVE Ended(f) => ~fl[f].inTx
      <3>1. fl[f].inTx => HasEnd(fl[f].todo)
        BY DEF WriteInv, Keeps, Shape
      <3>2. ~HasEnd(<<>>)
        BY DEF HasEnd
      <3> QED
        BY <3>1, <3>2 DEF Ended
    <2> QED
      BY <2>1 DEF TypeOK, WriteInv, Keeps, Tables
  <1> QED
    BY <1>1, Writing, PTL

-----------------------------------------------------------------------------
(***************************************************************************)
(* A call that fails has changed nothing.  What a call changes for good it *)
(* changes as its transaction commits, or by the one statement it sends    *)
(* outside of any; after either nothing is left that can fail but a hook   *)
(* that is late.                                                           *)
(***************************************************************************)
Landed ==
    /\ DOMAIN landed = Flow
    /\ \A f \in Flow : landed[f] # {} => /\ ~fl[f].inTx
                                         /\ fl[f].todo \in {<<>>, <<"hook">>}
                                         /\ fl[f].out \in {None, "late"}
LandInv == WriteInv /\ Landed

LEMMA PassingLands ==
    ASSUME LandInv, NEW f \in Flow, fl[f].todo \notin {<<>>, <<"hook">>, <<"rollback">>}, Passing(f)
    PROVE  Landed'
  <1>1. PICK kept, new, locked : Passes(f, kept, new, locked)
    BY DEF Passing
  <1>2. /\ fl' = [fl EXCEPT ![f] = kept]
        /\ base' = IF fl[f].inTx THEN base ELSE [k \in Key |-> IF k \in DOMAIN new THEN new[k] ELSE base[k]]
        /\ landed' = [landed EXCEPT ![f] = @ \cup {k \in Key : base'[k] # base[k]}]
    BY <1>1 DEF Passes, Sends, Put, Lands
  <1>3. kept.inTx = fl[f].inTx /\ (fl[f].inTx \/ DOMAIN new = {} \/ kept.todo \in {<<>>, <<"hook">>})
        /\ kept.out = fl[f].out
    BY <1>1 DEF Passes, WellKept
  <1>4. fl[f].out = None /\ DOMAIN fl = Flow /\ DOMAIN landed = Flow /\ landed[f] = {}
    BY DEF LandInv, Landed, WriteInv, Keeps
  <1>5. fl'[f] = kept /\ \A g \in Flow \ {f} : fl'[g] = fl[g] /\ landed'[g] = landed[g]
    BY <1>2, <1>4
  <1>6. landed'[f] = {k \in Key : base'[k] # base[k]} /\ DOMAIN landed' = Flow
    BY <1>2, <1>4
  <1>7. landed'[f] # {} => ~fl[f].inTx /\ DOMAIN new # {}
    BY <1>2, <1>6
  <1> QED
    BY <1>3, <1>4, <1>5, <1>6, <1>7 DEF LandInv, Landed

LEMMA ThrownLands ==
    ASSUME LandInv, NEW f \in Flow, NEW why, fl[f].todo # <<>>,
           fl[f].inTx \/ fl[f].todo # <<"hook">> \/ why = "late",
           fl' = [fl EXCEPT ![f] = Thrown(f, why)], landed' = landed
    PROVE  Landed'
  <1>1. DOMAIN fl = Flow /\ DOMAIN fl[f] = Fields
    BY DEF LandInv, WriteInv, Keeps
  <1>2. /\ fl'[f] = Thrown(f, why) /\ \A g \in Flow \ {f} : fl'[g] = fl[g]
        /\ Thrown(f, why).inTx = fl[f].inTx /\ Thrown(f, why).out = why
        /\ Thrown(f, why).todo = IF fl[f].inTx THEN <<"rollback">> ELSE <<>>
    BY <1>1 DEF Thrown, Fields
  <1>3. landed[f] # {} => ~fl[f].inTx /\ why = "late"
    BY DEF LandInv, Landed
  <1> QED
    BY <1>2, <1>3 DEF LandInv, Landed

LEMMA StatementLands ==
    ASSUME LandInv, NEW f \in Flow, Statement(f)
    PROVE  Landed'
  <1>1. fl[f].todo # <<>> /\ Head(fl[f].todo) \notin {"hook", "rollback", "commit", "begin"}
    BY StatementStarts
  <1>2. fl[f].todo # <<"hook">> /\ fl[f].todo # <<"rollback">>
    BY <1>1
  <1>3. Passing(f) \/ Throwing(f)
    BY StatementPasses DEF LandInv
  <1>4. CASE Passing(f)
    BY <1>1, <1>2, <1>4, PassingLands
  <1>5. CASE Throwing(f)
    BY <1>1, <1>2, <1>5, ThrownLands DEF Throwing, Throw, store
  <1> QED
    BY <1>3, <1>4, <1>5

LEMMA EndLands ==
    ASSUME LandInv, NEW f \in Flow, Begin(f) \/ Commit(f) \/ Rollback(f) \/ Hook(f)
    PROVE  Landed'
  <1>1. /\ fl[f].todo # <<>> /\ DOMAIN fl = Flow /\ DOMAIN fl[f] = Fields
        /\ DOMAIN landed = Flow /\ DOMAIN landed' = Flow
        /\ \A g \in Flow \ {f} : fl'[g] = fl[g] /\ landed'[g] = landed[g]
    BY DEF LandInv, Landed, WriteInv, Keeps, Begin, Commit, Rollback, Hook, Ready, At, Lands, store
  <1>2. \A g \in Flow \ {f} : landed'[g] # {} => /\ ~fl'[g].inTx
                                                 /\ fl'[g].todo \in {<<>>, <<"hook">>}
                                                 /\ fl'[g].out \in {None, "late"}
    BY <1>1 DEF LandInv, Landed
  <1>3. landed'[f] # {} => ~fl'[f].inTx /\ fl'[f].todo \in {<<>>, <<"hook">>} /\ fl'[f].out \in {None, "late"}
    <2>1. CASE Begin(f)
      <3>1. Head(fl[f].todo) = "begin" /\ landed' = landed
        BY <2>1 DEF Begin, Ready, At
      <3>2. fl[f].todo \notin {<<>>, <<"hook">>}
        BY <3>1, <1>1
      <3> QED
        BY <3>1, <3>2 DEF LandInv, Landed
    <2>2. CASE Commit(f)
      <3>1. fl'[f] = Closed(f) /\ Head(fl[f].todo) = "commit"
        BY <1>1, <2>2 DEF Commit, At
      <3>2. Closed(f).inTx = FALSE /\ Closed(f).todo \in {<<>>, <<"hook">>} /\ Closed(f).out = None
        BY <1>1, <3>1, ClosedWell DEF LandInv
      <3> QED
        BY <3>1, <3>2
    <2>3. CASE Rollback(f)
      <3>1. fl[f].inTx /\ landed' = landed
        BY <1>1, <2>3, ClosedWell DEF Rollback, At, LandInv
      <3> QED
        BY <3>1 DEF LandInv, Landed
    <2>4. CASE Hook(f)
      <3>1. /\ fl'[f] = Goes(f) /\ landed' = landed /\ Head(fl[f].todo) = "hook" /\ "hook" \in Plain(Call(f))
        BY <1>1, <2>4 DEF Hook, At, store, Plain
      <3>2. Goes(f).todo = Tail(fl[f].todo) /\ Goes(f).inTx = fl[f].inTx /\ Goes(f).out = fl[f].out
        BY <1>1, <3>1, GoesWell DEF LandInv, WellKept
      <3>3. fl[f].todo = <<"hook">> => Tail(fl[f].todo) = <<>>
        OBVIOUS
      <3> QED
        BY <1>1, <3>1, <3>2, <3>3 DEF LandInv, Landed
    <2> QED
      BY <2>1, <2>2, <2>3, <2>4
  <1> QED
    BY <1>1, <1>2, <1>3 DEF Landed

LEMMA FaultLands ==
    ASSUME LandInv, NEW f \in Flow, HookThrows(f) \/ Refused(f) \/ Deadlocked(f) \/ Racer(f)
    PROVE  Landed'
  <1>1. CASE HookThrows(f)
    <2>1. fl[f].todo # <<>> /\ landed' = landed
      BY <1>1 DEF HookThrows, At, store
    <2>2. PICK why \in {"late", "hook"} : fl' = [fl EXCEPT ![f] = Thrown(f, why)] /\ (Late(f) => why = "late")
      BY <1>1 DEF HookThrows
    <2>3. fl[f].todo = <<"hook">> => Len(fl[f].todo) = 1
      OBVIOUS
    <2> QED
      BY <2>1, <2>2, <2>3, ThrownLands DEF Late
  <1>2. CASE Refused(f)
    <2>1. fl[f].todo # <<>> /\ Head(fl[f].todo) # "hook" /\ landed' = landed
          /\ fl' = [fl EXCEPT ![f] = Thrown(f, "refused")]
      BY <1>2 DEF Refused, Ended, store
    <2>2. fl[f].todo # <<"hook">>
      BY <2>1
    <2> QED
      BY <2>1, <2>2, ThrownLands
  <1>3. CASE Deadlocked(f)
    <2>1. fl[f].inTx /\ landed' = landed /\ fl' = [fl EXCEPT ![f] = Thrown(f, "deadlock")]
      BY <1>3 DEF Deadlocked, Throw, store
    <2>2. fl[f].todo # <<>>
      <3>1. Needs(f) # {}
        BY <1>3 DEF Deadlocked, Waits
      <3> QED
        BY <3>1 DEF Needs, Ended
    <2> QED
      BY <2>1, <2>2, ThrownLands
  <1>4. CASE Racer(f)
    <2>1. fl[f].todo # <<>> /\ Needs(f) # {} /\ landed' = landed /\ fl' = [fl EXCEPT ![f] = Thrown(f, "refused")]
      BY <1>4 DEF Racer, Throw, store, Ended
    <2>2. fl[f].todo # <<"hook">>
      <3>1. fl[f].todo = <<"hook">> => Head(fl[f].todo) = "hook"
        OBVIOUS
      <3> QED
        BY <2>1, <3>1, NeedsAt
    <2> QED
      BY <2>1, <2>2, ThrownLands
  <1> QED
    BY <1>1, <1>2, <1>3, <1>4

LEMMA LandsOn == LandInv /\ [Next]_vars => LandInv'
  <1> SUFFICES ASSUME LandInv, [Next]_vars PROVE LandInv'
    OBVIOUS
  <1>1. WriteInv'
    BY NextKeeps DEF LandInv
  <1>2. CASE UNCHANGED vars
    BY <1>1, <1>2 DEF LandInv, Landed, vars
  <1>3. CASE Next
    <2>1. PICK f \in Flow : Write(f)
      BY <1>3 DEF Next
    <2>2. Landed'
      BY <2>1, EndLands, StatementLands, FaultLands DEF Write, Proceeds
    <2> QED
      BY <1>1, <2>2 DEF LandInv
  <1> QED
    BY <1>2, <1>3

\* A call that fails has changed nothing, however many of its statements had gone through and whatever raced
\* with it: no row is committed otherwise by it, none removed, stamped or restored, no child's either
\* (`atomically`, `deleteRows`).  Only an after hook with no transaction around it is late.
THEOREM FailedLeftNothingAlways == Spec => []FailedLeftNothing
  <1>1. Init => LandInv
    BY WritesStart DEF Init, LandInv, Landed
  <1>2. LandInv => FailedLeftNothing
    BY DEF LandInv, Landed, FailedLeftNothing
  <1> QED
    BY <1>1, <1>2, LandsOn, PTL DEF Spec
-----------------------------------------------------------------------------
(***************************************************************************)
(* A cascade reaches every child.  What a delete settled it holds, and no  *)
(* other flow moves a child under a row that is held; so once the children *)
(* of a batch went, none is there as its rows go.                          *)
(***************************************************************************)
\* A child is not moved under a parent another flow has for itself.
Apart ==
    \A f, g \in Flow, p \in Parent, c \in Child :
        f # g /\ lock[p] = f /\ lock[c] = g /\ rows[c] # None /\ rows[c].par = p
        => base[c] # None /\ base[c].par = p

\* What is left of a delete: the children of what it deletes for good go first.
DeleteTodo(c) ==
    {<<"begin", "doom", "commit">>, <<"doom", "commit">>, <<"hook", "children", "remove", "hook", "commit">>,
     <<"children", "remove", "hook", "commit">>, <<"remove", "hook", "commit">>, <<"hook", "commit">>,
     <<"commit">>, <<"rollback">>, <<>>}
    \cup (IF c.hard THEN {} ELSE {<<"hook", "remove", "hook", "commit">>})

\* In its transaction it holds the rows of its batches, and those it is about to delete for good have no children.
Childless(f) == (\A k \in Batch(f) : lock[k] = f) /\ ChildrenOf(Current(f), Batch(f)) = {}
HoldsBatches(f) == \A i \in DOMAIN fl[f].queue : \A k \in fl[f].queue[i] : lock[k] = f
Deletes(f) ==
    /\ fl[f].todo \in DeleteTodo(Call(f)) /\ fl[f].out # "foreignKey"
    /\ fl[f].todo = <<"begin", "doom", "commit">> => fl[f].queue = <<>>
    /\ RowLocks /\ fl[f].inTx => HoldsBatches(f)
    /\ Call(f).hard /\ fl[f].todo = <<"remove", "hook", "commit">> => Childless(f)

DeleteInv == WriteInv /\ Apart /\ \A f \in Flow : Call(f).op = "delete" => Deletes(f)

\* What a step does to the rows: a statement, the ends of a transaction, or nothing.
LEMMA StepKinds ==
    ASSUME WriteInv, NEW h \in Flow, Write(h)
    PROVE  /\ plan' = plan /\ \A g \in Flow \ {h} : fl'[g] = fl[g]
           /\ \/ Passing(h) \/ Begin(h) \/ Commit(h) \/ Rollback(h)
              \/ rows' = rows /\ base' = base /\ lock' = lock
  <1>1. \A kept : fl' = [fl EXCEPT ![h] = kept] => \A g \in Flow \ {h} : fl'[g] = fl[g]
    BY DEF WriteInv
  <1>2. ASSUME Throwing(h)
        PROVE  /\ plan' = plan /\ (\A g \in Flow \ {h} : fl'[g] = fl[g])
               /\ rows' = rows /\ base' = base /\ lock' = lock
    BY <1>1, <1>2 DEF Throwing, Throw, store
  <1>3. ASSUME Passing(h)
        PROVE  plan' = plan /\ \A g \in Flow \ {h} : fl'[g] = fl[g]
    BY <1>1, <1>3 DEF Passing, Passes, Sends
  <1>4. CASE Statement(h)
    BY <1>2, <1>3, <1>4, StatementPasses
  <1>5. CASE Begin(h) \/ Commit(h) \/ Rollback(h)
    BY <1>1, <1>5 DEF Begin, Commit, Rollback
  <1>6. CASE Hook(h) \/ HookThrows(h) \/ Refused(h)
    BY <1>1, <1>6 DEF Hook, HookThrows, Refused, store
  <1>7. CASE Deadlocked(h) \/ Racer(h)
    BY <1>1, <1>7 DEF Deadlocked, Racer, Throw, store
  <1> QED
    BY <1>4, <1>5, <1>6, <1>7 DEF Write, Proceeds

\* What a statement that passes leaves in the tables.
PassesInto(h, new, locked) ==
    /\ WellWritten(h, new) /\ locked \subseteq Needs(h) /\ (fl[h].inTx => DOMAIN new \subseteq locked)
    /\ \A k \in Key : rows'[k] = IF k \in DOMAIN new THEN new[k] ELSE rows[k]
    /\ \A k \in Key : base'[k] = IF ~fl[h].inTx /\ k \in DOMAIN new THEN new[k] ELSE base[k]
    /\ \A k \in Key : lock'[k] = IF fl[h].inTx /\ k \in locked THEN h ELSE lock[k]
    /\ \A k \in Key : k \in Needs(h) => lock[k] \in {None, h}
    /\ \A g \in Flow, k \in Key : g # h /\ k \in Needs(h) => ~Holds(g, k)
    /\ \A k \in Key : k \in DOMAIN new => k \in Needs(h)

LEMMA PassesIntoTables ==
    ASSUME WriteInv, NEW h \in Flow, NEW kept, NEW new, NEW locked, Passes(h, kept, new, locked)
    PROVE  PassesInto(h, new, locked)
  <1>1. /\ rows' = [k \in Key |-> IF k \in DOMAIN new THEN new[k] ELSE rows[k]]
        /\ base' = IF fl[h].inTx THEN base ELSE [k \in Key |-> IF k \in DOMAIN new THEN new[k] ELSE base[k]]
        /\ lock' = IF fl[h].inTx THEN [k \in Key |-> IF k \in locked THEN h ELSE lock[k]] ELSE lock
        /\ Free(h)
    BY DEF Passes, Sends, Put
  <1>2. WellWritten(h, new) /\ locked \subseteq Needs(h) /\ (fl[h].inTx => DOMAIN new \subseteq locked)
    BY DEF Passes
  <1>3. \A k \in Key : k \in Needs(h) => lock[k] \in {None, h}
    BY <1>1, FreeToHave
  <1>4. \A g \in Flow, k \in Key : g # h /\ k \in Needs(h) => ~Holds(g, k)
    BY <1>1 DEF Free, Waits
  <1>5. \A k \in Key : k \in DOMAIN new => k \in Needs(h)
    BY <1>2 DEF WellWritten
  <1> QED
    BY <1>1, <1>2, <1>3, <1>4, <1>5 DEF PassesInto

\* A lock stays with its flow through the steps of others, and so does the row under it.
LEMMA LocksStay ==
    ASSUME WriteInv, NEW h \in Flow, NEW f \in Flow \ {h}, Write(h), NEW k \in Key
    PROVE  /\ lock'[k] = f <=> lock[k] = f
           /\ lock[k] = f => rows'[k] = rows[k]
  <1>1. f # None /\ h # None
    BY WriterAssumption
  <1>2. CASE Passing(h)
    <2>1. PICK kept, new, locked : Passes(h, kept, new, locked)
      BY <1>2 DEF Passing
    <2>2. PassesInto(h, new, locked)
      BY <2>1, PassesIntoTables
    <2> QED
      BY <1>1, <2>2 DEF PassesInto
  <1>3. CASE Begin(h)
    <2>1. rows' = rows /\ lock' = IF plan.engine = "begin" THEN [j \in Key |-> h] ELSE lock
      BY <1>3 DEF Begin
    <2>2. plan.engine = "begin" => lock[k] # f
      <3>1. plan.engine = "begin" => Needs(h) = Key
        BY <1>3 DEF Begin, Ready, At, Needs, Ended
      <3>2. Free(h)
        BY <1>3 DEF Begin, Ready
      <3> QED
        BY <1>1, <3>1, <3>2, FreeToHave
    <2> QED
      BY <2>1, <2>2
  <1>4. CASE Commit(h) \/ Rollback(h)
    BY <1>1, <1>4 DEF Commit, Rollback
  <1> QED
    BY <1>2, <1>3, <1>4, StepKinds

LEMMA ApartKeeps ==
    ASSUME WriteInv, Apart, NEW h \in Flow, Write(h)
    PROVE  Apart'
  <1> SUFFICES ASSUME NEW f \in Flow, NEW g \in Flow, NEW p \in Parent, NEW c \in Child,
                      f # g, lock'[p] = f, lock'[c] = g, rows'[c] # None, rows'[c].par = p
               PROVE  base'[c] # None /\ base'[c].par = p
    BY DEF Apart
  <1>1. f # None /\ g # None /\ h # None /\ p \in Key /\ c \in Key /\ p # None
    BY WriterAssumption, KeyAssumption DEF Key
  <1>2. lock[p] = f /\ lock[c] = g /\ rows[c] # None /\ rows[c].par = p => base[c] # None /\ base[c].par = p
    BY DEF Apart
  <1>3. /\ lock[c] # None => fl[lock[c]].inTx
        /\ lock[c] = None => rows[c] = base[c]
    BY <1>1 DEF WriteInv, Tables
  <1>4. CASE Passing(h)
    <2>1. PICK kept, new, locked : Passes(h, kept, new, locked)
      BY <1>4 DEF Passing
    <2>2. PassesInto(h, new, locked)
      BY <2>1, PassesIntoTables
    <2>3. /\ rows'[c] = IF c \in DOMAIN new THEN new[c] ELSE rows[c]
          /\ base'[c] = IF ~fl[h].inTx /\ c \in DOMAIN new THEN new[c] ELSE base[c]
          /\ lock'[c] = IF fl[h].inTx /\ c \in locked THEN h ELSE lock[c]
          /\ lock'[p] = IF fl[h].inTx /\ p \in locked THEN h ELSE lock[p]
          /\ c \in Needs(h) => lock[c] \in {None, h}
          /\ p \in Needs(h) => lock[p] \in {None, h}
          /\ c \in DOMAIN new => c \in Needs(h)
          /\ locked \subseteq Needs(h) /\ (fl[h].inTx => DOMAIN new \subseteq locked)
          /\ g # h /\ p \in Needs(h) => ~Holds(g, p)
      BY <1>1, <2>2 DEF PassesInto
    <2>4. CASE c \in DOMAIN new
      <3>1. fl[h].inTx /\ c \in locked /\ g = h /\ base'[c] = base[c] /\ rows'[c] = new[c]
        BY <1>1, <1>3, <2>3, <2>4
      <3>2. lock[p] = f /\ p \notin Needs(h) /\ lock[c] \in {None, h}
        BY <1>1, <2>3, <2>4, <3>1
      <3>3. WellLeft(h, c, new[c])
        BY <2>2, <2>4 DEF PassesInto, WellWritten
      <3>4. Current(h)[c] # None /\ Current(h)[c].par = p
        BY <1>1, <3>1, <3>2, <3>3 DEF WellLeft
      <3>5. Current(h)[c] = IF lock[c] = h THEN rows[c] ELSE base[c]
        BY <1>1, AtRow
      <3> QED
        BY <1>2, <3>1, <3>2, <3>4, <3>5
    <2>5. CASE c \notin DOMAIN new
      <3>1. rows'[c] = rows[c] /\ base'[c] = base[c]
        BY <2>3, <2>5
      <3>2. CASE fl[h].inTx /\ c \in locked
        BY <1>2, <1>3, <2>3, <3>1, <3>2
      <3>3. CASE ~(fl[h].inTx /\ c \in locked)
        <4>1. lock[c] = g
          BY <2>3, <3>3
        <4>2. CASE fl[h].inTx /\ p \in locked
          <5>1. ~Holds(g, p)
            BY <2>3, <4>2
          <5> QED
            BY <3>1, <4>1, <5>1 DEF Holds
        <4>3. CASE ~(fl[h].inTx /\ p \in locked)
          BY <1>2, <2>3, <3>1, <4>1, <4>3
        <4> QED
          BY <4>2, <4>3
      <3> QED
        BY <3>2, <3>3
    <2> QED
      BY <2>4, <2>5
  <1>5. CASE Begin(h)
    BY <1>1, <1>2, <1>5 DEF Begin
  <1>6. CASE Commit(h)
    <2>1. lock[c] = g /\ g # h /\ lock[p] = f /\ rows'[c] = rows[c] /\ base' = Current(h)
      BY <1>1, <1>6 DEF Commit
    <2> QED
      BY <1>1, <1>2, <2>1, AtRow
  <1>7. CASE Rollback(h)
    <2>1. lock[c] = g /\ g # h /\ lock[p] = f /\ rows'[c] = rows[c] /\ base' = base
      BY <1>1, <1>7 DEF Rollback
    <2> QED
      BY <1>2, <2>1
  <1>8. CASE rows' = rows /\ base' = base /\ lock' = lock
    BY <1>2, <1>8
  <1> QED
    BY <1>4, <1>5, <1>6, <1>7, <1>8, StepKinds

\* No other flow puts a child under a row that is held.
LEMMA NoneArrives ==
    ASSUME WriteInv, Apart, NEW h \in Flow, NEW f \in Flow \ {h}, Write(h), NEW B \in SUBSET Parent,
           \A k \in B : lock[k] = f, ChildrenOf(Current(f), B) = {}
    PROVE  ChildrenOf(Current(f)', B) = {}
  <1> SUFFICES ASSUME NEW c \in Child, NEW p \in B, Current(f)'[c] # None, Current(f)'[c].par = p
               PROVE  FALSE
    BY DEF ChildrenOf
  <1>1. f # None /\ h # None /\ p \in Key /\ c \in Key /\ p # None /\ p \in Parent /\ lock[p] = f
    BY WriterAssumption, KeyAssumption DEF Key
  <1>2. /\ Current(f)[c] = IF lock[c] = f THEN rows[c] ELSE base[c]
        /\ Current(h)[c] = IF lock[c] = h THEN rows[c] ELSE base[c]
    BY <1>1, AtRow
  <1>3. Current(f)'[c] = IF lock'[c] = f THEN rows'[c] ELSE base'[c]
    BY <1>1 DEF Current
  <1>4. lock[c] # f /\ base'[c] # None /\ base'[c].par = p
    <2>1. lock[c] # f
      <3>1. lock[c] = f => Current(f)'[c] = Current(f)[c]
        BY <1>1, <1>2, <1>3, LocksStay
      <3> QED
        BY <3>1 DEF ChildrenOf
    <2> QED
      BY <1>1, <1>3, <2>1, LocksStay
  <1>5. ~(base[c] # None /\ base[c].par = p)
    BY <1>2, <1>4 DEF ChildrenOf
  <1>6. CASE Passing(h)
    <2>1. PICK kept, new, locked : Passes(h, kept, new, locked)
      BY <1>6 DEF Passing
    <2>2. PassesInto(h, new, locked)
      BY <2>1, PassesIntoTables
    <2>3. ~fl[h].inTx /\ c \in DOMAIN new /\ base'[c] = new[c] /\ c \in Needs(h) /\ lock[c] \in {None, h}
          /\ p \notin Needs(h)
      BY <1>1, <1>4, <1>5, <2>2 DEF PassesInto
    <2>4. WellLeft(h, c, new[c])
      BY <2>2, <2>3 DEF PassesInto, WellWritten
    <2>5. Current(h)[c] # None /\ Current(h)[c].par = p
      BY <1>1, <1>4, <2>3, <2>4 DEF WellLeft
    <2>6. lock[c] # h
      BY <1>1, <2>3 DEF WriteInv, Tables
    <2> QED
      BY <1>2, <1>5, <2>5, <2>6
  <1>7. CASE Commit(h)
    <2>1. base'[c] = Current(h)[c]
      BY <1>7 DEF Commit
    <2>2. lock[c] = h /\ rows[c] # None /\ rows[c].par = p
      BY <1>2, <1>4, <1>5, <2>1
    <2> QED
      BY <1>1, <1>5, <2>2 DEF Apart
  <1>8. CASE base' = base
    BY <1>4, <1>5, <1>8
  <1> QED
    BY <1>6, <1>7, <1>8, StepKinds DEF Begin, Rollback

\* A delete stays as it is through the steps of others.
LEMMA OthersLetDelete ==
    ASSUME DeleteInv, NEW h \in Flow, NEW f \in Flow \ {h}, Write(h), Deletes(f)
    PROVE  Deletes(f)'
  <1>1. WriteInv /\ Apart /\ Keeps(f) /\ plan \in Plan
    BY DEF DeleteInv, WriteInv
  <1>2. plan' = plan /\ fl'[f] = fl[f]
    BY <1>1, StepKinds
  <1>3. Call(f)' = Call(f) /\ RowLocks' = RowLocks /\ Batch(f)' = Batch(f)
    BY <1>2 DEF Call, RowLocks, Batch
  <1>4. Call(f).ids \subseteq Parent /\ Call(f).ids \subseteq Key
    BY <1>1, CallTyped
  <1>5. fl[f].queue \in Seq(SUBSET Call(f).ids)
    BY <1>1 DEF Keeps
  <1>6. ASSUME HoldsBatches(f) PROVE HoldsBatches(f)'
    <2> SUFFICES ASSUME NEW i \in DOMAIN fl[f].queue, NEW k \in fl[f].queue[i] PROVE lock'[k] = f
      BY <1>2 DEF HoldsBatches
    <2>1. fl[f].queue[i] \in SUBSET Call(f).ids
      BY <1>5, ElementOfSeq
    <2>2. k \in Key /\ lock[k] = f
      BY <1>4, <1>6, <2>1 DEF HoldsBatches
    <2> QED
      BY <1>1, <2>2, LocksStay
  <1>7. ASSUME Childless(f) PROVE Childless(f)'
    <2>1. Batch(f) \subseteq Call(f).ids
      BY <1>5, QueuePops DEF Batch
    <2>2. \A k \in Batch(f) : lock'[k] = f
      BY <1>1, <1>4, <1>7, <2>1, LocksStay DEF Childless
    <2>3. ChildrenOf(Current(f)', Batch(f)) = {}
      BY <1>1, <1>4, <1>7, <2>1, NoneArrives DEF Childless
    <2> QED
      BY <1>3, <2>2, <2>3 DEF Childless
  <1> QED
    BY <1>2, <1>3, <1>6, <1>7 DEF Deletes
\* The lists a delete goes through.
LEMMA DeleteLists ==
    /\ Hooked(<<"remove">>) \o <<"commit">> = <<"hook", "remove", "hook", "commit">>
    /\ Hooked(<<"children", "remove">>) \o <<"commit">> = <<"hook", "children", "remove", "hook", "commit">>
    /\ <<"remove">> \o <<"hook", "commit">> = <<"remove", "hook", "commit">>
    /\ <<"children", "remove">> \o <<"hook", "commit">> = <<"children", "remove", "hook", "commit">>
  <1>1. Hooked(<<"remove">>) \o <<"commit">> = <<"hook", "remove", "hook", "commit">>
    <2>1. <<"hook", "remove", "hook">> \o <<"commit">> = <<"hook", "remove", "hook", "commit">>
      BY Quadruple
    <2> QED
      BY <2>1, HookedOne
  <1>2. Hooked(<<"children", "remove">>) \o <<"commit">> = <<"hook", "children", "remove", "hook", "commit">>
    <2>1. <<"hook">> \o <<"children", "remove">> = <<"hook", "children", "remove">>
      BY FrontOfTuple
    <2>2. <<"hook", "children", "remove">> \o <<"hook">> = <<"hook", "children", "remove", "hook">>
      BY Quadruple
    <2>3. <<"hook", "children", "remove", "hook">> \o <<"commit">> = <<"hook", "children", "remove", "hook", "commit">>
      BY Quintuple
    <2> QED
      BY <2>1, <2>2, <2>3 DEF Hooked
  <1>3. <<"remove">> \o <<"hook", "commit">> = <<"remove", "hook", "commit">>
    BY FrontOfTuple
  <1>4. <<"children", "remove">> \o <<"hook", "commit">> = <<"children", "remove", "hook", "commit">>
    <2> DEFINE S == {"children", "remove", "hook", "commit"}
    <2>1. <<"children", "remove">> \in Seq(S) /\ <<"hook">> \in Seq(S) /\ <<"commit">> \in Seq(S)
      OBVIOUS
    <2> HIDE DEF S
    <2>2. <<"children", "remove">> \o (<<"hook">> \o <<"commit">>) = (<<"children", "remove">> \o <<"hook">>) \o <<"commit">>
      BY <2>1, ConcatAssociative
    <2>3. <<"hook">> \o <<"commit">> = <<"hook", "commit">>
      BY Pair
    <2>4. <<"children", "remove">> \o <<"hook">> = <<"children", "remove", "hook">>
      BY Triple
    <2>5. <<"children", "remove", "hook">> \o <<"commit">> = <<"children", "remove", "hook", "commit">>
      BY Quadruple
    <2> QED
      BY <2>2, <2>3, <2>4, <2>5
  <1> QED
    BY <1>1, <1>2, <1>3, <1>4

\* Where a delete is, from the statement it is at.
LEMMA DeleteHeads ==
    ASSUME NEW c, NEW todo \in DeleteTodo(c), todo # <<>>
    PROVE  /\ Head(todo) \in {"begin", "doom", "hook", "children", "remove", "commit", "rollback"}
           /\ Head(todo) = "begin" => todo = <<"begin", "doom", "commit">> /\ Tail(todo) = <<"doom", "commit">>
           /\ Head(todo) = "doom" => Tail(todo) = <<"commit">>
           /\ Head(todo) = "children" => Tail(todo) = <<"remove", "hook", "commit">>
           /\ Head(todo) = "remove" => todo = <<"remove", "hook", "commit">> /\ Tail(todo) = <<"hook", "commit">>
           /\ Head(todo) \in {"commit", "rollback"} => Tail(todo) = <<>>
           /\ Head(todo) = "hook" => \/ Tail(todo) \in {<<"children", "remove", "hook", "commit">>, <<"commit">>}
                                     \/ ~c.hard /\ Tail(todo) = <<"remove", "hook", "commit">>
  <1>1. CASE todo = <<"begin", "doom", "commit">>
    BY <1>1
  <1>2. CASE todo = <<"doom", "commit">>
    BY <1>2
  <1>3. CASE todo = <<"hook", "children", "remove", "hook", "commit">>
    BY <1>3
  <1>4. CASE todo = <<"children", "remove", "hook", "commit">>
    BY <1>4
  <1>5. CASE todo = <<"remove", "hook", "commit">>
    BY <1>5
  <1>6. CASE todo = <<"hook", "commit">>
    BY <1>6
  <1>7. CASE todo = <<"commit">>
    BY <1>7
  <1>9. CASE todo = <<"rollback">>
    BY <1>9
  <1>8. CASE ~c.hard /\ todo = <<"hook", "remove", "hook", "commit">>
    BY <1>8
  <1> QED
    BY <1>1, <1>2, <1>3, <1>4, <1>5, <1>6, <1>7, <1>8, <1>9 DEF DeleteTodo

\* What a flow keeps when it goes on, and when it throws.
SameBut(kept, f, todo, queue) ==
    DOMAIN kept = Fields /\ kept.todo = todo /\ kept.queue = queue /\ kept.out = fl[f].out /\ kept.inTx = fl[f].inTx

LEMMA ThenSame ==
    ASSUME WriteInv, NEW f \in Flow, NEW next, NEW todo, todo = next \o Tail(fl[f].todo)
    PROVE  SameBut(Then(f, next), f, todo, fl[f].queue)
  <1>1. Keeps(f)
    BY DEF WriteInv
  <1> QED
    BY <1>1 DEF Keeps, Then, SameBut, Fields

LEMMA SameThrough ==
    ASSUME NEW f, NEW kept, NEW todo, NEW queue, SameBut(kept, f, todo, queue)
    PROVE  /\ \A x : SameBut([kept EXCEPT !.snap = x], f, todo, queue)
           /\ \A x : SameBut([kept EXCEPT !.queue = x], f, todo, x)
           /\ \A ids, x, told : SameBut([kept EXCEPT !.ids = ids, !.queue = x, !.told = told], f, todo, x)
  BY DEF SameBut, Fields

LEMMA SameAfter ==
    ASSUME WriteInv, NEW f \in Flow, NEW kept, NEW todo, NEW queue, SameBut(kept, f, todo, queue),
           fl' = [fl EXCEPT ![f] = kept]
    PROVE  fl'[f].todo = todo /\ fl'[f].queue = queue /\ fl'[f].out = fl[f].out /\ fl'[f].inTx = fl[f].inTx
  <1>1. fl'[f] = kept
    BY DEF WriteInv
  <1> QED
    BY <1>1 DEF SameBut

\* What a flow writes in its transaction it holds, and sees.
OwnSees(f, todo, queue, new) ==
    /\ plan' = plan
    /\ fl'[f].todo = todo /\ fl'[f].queue = queue /\ fl'[f].out = fl[f].out /\ fl'[f].inTx = fl[f].inTx
    /\ \A k \in Key : lock[k] = f \/ k \in Written(DOMAIN new) => lock'[k] = f
    /\ \A k \in Key : Current(f)'[k] = IF k \in DOMAIN new THEN new[k] ELSE Current(f)[k]

LEMMA OwnWrite ==
    ASSUME WriteInv, NEW f \in Flow, fl[f].inTx, Free(f), NEW kept, NEW new, NEW S, Writes(f, kept, new),
           NEW todo, NEW queue, SameBut(kept, f, todo, queue), Needs(f) = Written(S), DOMAIN new \subseteq S
    PROVE  OwnSees(f, todo, queue, new)
  <1> DEFINE after == [kept EXCEPT !.snap = Snapshot(f, FALSE)]
  <1>1. /\ plan' = plan
        /\ rows' = [k \in Key |-> IF k \in DOMAIN new THEN new[k] ELSE rows[k]]
        /\ base' = base
        /\ lock' = [k \in Key |-> IF k \in Written(DOMAIN new) THEN f ELSE lock[k]]
        /\ fl' = [fl EXCEPT ![f] = after]
    BY DEF Writes, Sends, Put
  <1>2. SameBut(after, f, todo, queue)
    BY SameThrough
  <1> HIDE DEF after
  <1>3. fl'[f].todo = todo /\ fl'[f].queue = queue /\ fl'[f].out = fl[f].out /\ fl'[f].inTx = fl[f].inTx
    BY <1>1, <1>2, SameAfter
  <1>4. \A k \in Key : k \in Written(DOMAIN new) => lock[k] \in {None, f}
    <2>1. Written(DOMAIN new) \subseteq Needs(f)
      BY DEF Written
    <2> QED
      BY <2>1, FreeToHave
  <1>5. \A k \in Key : k \in DOMAIN new => k \in Written(DOMAIN new)
    BY DEF Written
  <1>6. \A k \in Key : lock[k] = None => rows[k] = base[k]
    BY DEF WriteInv, Tables
  <1>7. \A k \in Key : Current(f)'[k] = IF lock'[k] = f THEN rows'[k] ELSE base'[k]
    BY DEF Current
  <1>8. \A k \in Key : Current(f)[k] = IF lock[k] = f THEN rows[k] ELSE base[k]
    BY AtRow
  <1>9. ASSUME NEW k \in Key
        PROVE  Current(f)'[k] = IF k \in DOMAIN new THEN new[k] ELSE Current(f)[k]
    <2>1. CASE k \in Written(DOMAIN new)
      <3>1. lock'[k] = f /\ rows'[k] = (IF k \in DOMAIN new THEN new[k] ELSE rows[k]) /\ Current(f)[k] = rows[k]
        BY <1>1, <1>4, <1>6, <1>8, <2>1
      <3> QED
        BY <1>7, <3>1
    <2>2. CASE k \notin Written(DOMAIN new)
      <3>1. lock'[k] = lock[k] /\ rows'[k] = rows[k] /\ base'[k] = base[k] /\ k \notin DOMAIN new
        BY <1>1, <1>5, <2>2
      <3> QED
        BY <1>7, <1>8, <3>1
    <2> QED
      BY <2>1, <2>2
  <1> QED
    BY <1>1, <1>3, <1>9 DEF OwnSees

\* Where a delete is after a step that leaves it nothing to hold, and after one that throws.
LEMMA DeleteThrown ==
    ASSUME WriteInv, NEW f \in Flow, NEW why \in Failure \ {"foreignKey"}, plan' = plan,
           fl' = [fl EXCEPT ![f] = Thrown(f, why)]
    PROVE  Deletes(f)'
  <1>1. Keeps(f) /\ DOMAIN fl = Flow
    BY DEF WriteInv
  <1>2. /\ Thrown(f, why).out = why /\ Thrown(f, why).queue = <<>>
        /\ Thrown(f, why).todo \in {<<"rollback">>, <<>>}
    BY <1>1 DEF Keeps, Thrown, Fields
  <1>3. fl'[f] = Thrown(f, why)
    BY <1>1
  <1>4. DOMAIN <<>> = {}
    OBVIOUS
  <1>5. HoldsBatches(f)'
    BY <1>2, <1>3, <1>4 DEF HoldsBatches
  <1>6. <<"rollback">> # <<"remove", "hook", "commit">> /\ <<>> # <<"remove", "hook", "commit">>
    OBVIOUS
  <1>7. fl'[f].todo \in DeleteTodo(Call(f)')
    BY <1>2, <1>3 DEF DeleteTodo
  <1> QED
    BY <1>2, <1>3, <1>5, <1>6, <1>7 DEF Deletes

\* A delete is at no statement but its own.
LEMMA DeleteStatements ==
    ASSUME NEW f \in Flow, Deletes(f), Statement(f)
    PROVE  Doom(f) \/ DeleteChildren(f) \/ InternalDelete(f)
  <1>1. fl[f].todo # <<>>
    BY StatementStarts
  <1>2. Head(fl[f].todo) \in {"begin", "doom", "hook", "children", "remove", "commit", "rollback"}
    BY <1>1, DeleteHeads DEF Deletes
  <1> QED
    BY <1>2 DEF Statement, Load, Match, ThrowStaleVersion, Where, Settle, Columns, DropUnlisted, SaveChildren, ReadBack,
                ReadThenUpsert, Found, InsertRows, Merge, Restore, Ready, At

LEMMA BeginDeletes ==
    ASSUME WriteInv, NEW f \in Flow, Deletes(f), Begin(f)
    PROVE  Deletes(f)'
  <1> DEFINE kept == [Goes(f) EXCEPT !.inTx = TRUE]
  <1>1. fl[f].todo # <<>> /\ Head(fl[f].todo) = "begin" /\ fl' = [fl EXCEPT ![f] = kept] /\ plan' = plan
    BY DEF Begin, Ready, At
  <1>2. /\ Tail(fl[f].todo) = <<"doom", "commit">> /\ fl[f].queue = <<>>
        /\ fl[f].out # "foreignKey"
    BY <1>1, DeleteHeads DEF Deletes
  <1>3. <<>> \o <<"doom", "commit">> = <<"doom", "commit">>
    <2>1. <<"doom", "commit">> \in Seq({"doom", "commit"})
      OBVIOUS
    <2> QED
      BY <2>1, ConcatEmptySeq
  <1>4. SameBut(Goes(f), f, <<"doom", "commit">>, fl[f].queue)
    BY <1>2, <1>3, ThenSame DEF Goes
  <1>5. kept.todo = <<"doom", "commit">> /\ kept.queue = <<>> /\ kept.out = fl[f].out
    BY <1>2, <1>4 DEF SameBut, Fields
  <1> HIDE DEF kept
  <1>6. fl'[f] = kept
    BY <1>1 DEF WriteInv
  <1>7. DOMAIN <<>> = {} /\ <<"doom", "commit">> # <<"remove", "hook", "commit">>
    OBVIOUS
  <1>8. HoldsBatches(f)'
    BY <1>5, <1>6, <1>7 DEF HoldsBatches
  <1>9. fl'[f].todo \in DeleteTodo(Call(f)')
    BY <1>5, <1>6 DEF DeleteTodo
  <1> QED
    BY <1>2, <1>5, <1>6, <1>7, <1>8, <1>9 DEF Deletes

LEMMA HookDeletes ==
    ASSUME WriteInv, NEW f \in Flow, Deletes(f), Hook(f)
    PROVE  Deletes(f)'
  <1> DEFINE todo == Tail(fl[f].todo)
  <1>1. /\ fl[f].todo # <<>> /\ Head(fl[f].todo) = "hook"
        /\ fl' = [fl EXCEPT ![f] = Goes(f)] /\ plan' = plan /\ lock' = lock
    BY DEF Hook, At, store
  <1>2. /\ \/ todo \in {<<"children", "remove", "hook", "commit">>, <<"commit">>}
           \/ ~Call(f).hard /\ todo = <<"remove", "hook", "commit">>
        /\ fl[f].out # "foreignKey"
    BY <1>1, DeleteHeads DEF Deletes
  <1>3. <<>> \o todo = todo
    <2> DEFINE S == {"children", "remove", "hook", "commit"}
    <2>1. /\ <<"children", "remove", "hook", "commit">> \in Seq(S) /\ <<"commit">> \in Seq(S)
          /\ <<"remove", "hook", "commit">> \in Seq(S)
      OBVIOUS
    <2> HIDE DEF S, todo
    <2>2. todo \in Seq(S)
      BY <1>2, <2>1
    <2> QED
      BY <2>2, ConcatEmptySeq
  <1> HIDE DEF todo
  <1>4. SameBut(Goes(f), f, todo, fl[f].queue)
    BY <1>3, ThenSame DEF Goes, todo
  <1>5. fl'[f].todo = todo /\ fl'[f].queue = fl[f].queue /\ fl'[f].out = fl[f].out /\ fl'[f].inTx = fl[f].inTx
    BY <1>1, <1>4, SameAfter
  <1>6. Call(f)' = Call(f) /\ RowLocks' = RowLocks /\ (HoldsBatches(f) => HoldsBatches(f)')
    BY <1>1, <1>5 DEF Call, RowLocks, HoldsBatches
  <1>7. todo # <<"begin", "doom", "commit">> /\ (Call(f).hard => todo # <<"remove", "hook", "commit">>)
    <2>1. /\ <<"children", "remove", "hook", "commit">> # <<"begin", "doom", "commit">>
          /\ <<"children", "remove", "hook", "commit">> # <<"remove", "hook", "commit">>
          /\ <<"commit">> # <<"begin", "doom", "commit">> /\ <<"commit">> # <<"remove", "hook", "commit">>
          /\ <<"remove", "hook", "commit">> # <<"begin", "doom", "commit">>
      OBVIOUS
    <2> QED
      BY <1>2, <2>1
  <1>8. todo \in DeleteTodo(Call(f))
    BY <1>2 DEF DeleteTodo
  <1> QED
    BY <1>2, <1>5, <1>6, <1>7, <1>8 DEF Deletes

LEMMA EndDeletes ==
    ASSUME WriteInv, NEW f \in Flow, Deletes(f), Commit(f) \/ Rollback(f)
    PROVE  Deletes(f)'
  <1>1. /\ fl[f].todo # <<>> /\ Head(fl[f].todo) \in {"commit", "rollback"}
        /\ fl' = [fl EXCEPT ![f] = Closed(f)] /\ plan' = plan
    BY DEF Commit, Rollback, At
  <1>2. Tail(fl[f].todo) = <<>> /\ fl[f].out # "foreignKey"
    BY <1>1, DeleteHeads DEF Deletes
  <1>3. Keeps(f) /\ fl'[f] = Closed(f)
    BY <1>1 DEF WriteInv
  <1>4. Closed(f).todo = <<>> /\ Closed(f).inTx = FALSE /\ Closed(f).out = fl[f].out
    BY <1>2, <1>3 DEF Keeps, Closed, Fields
  <1>5. <<>> # <<"begin", "doom", "commit">> /\ <<>> # <<"remove", "hook", "commit">>
    OBVIOUS
  <1>6. fl'[f].todo \in DeleteTodo(Call(f)')
    BY <1>3, <1>4 DEF DeleteTodo
  <1> QED
    BY <1>2, <1>3, <1>4, <1>5, <1>6 DEF Deletes

\* The rows a delete settles it holds, on engines with row locks, and their batches are of them.
LEMMA DoomDeletes ==
    ASSUME WriteInv, NEW f \in Flow, Deletes(f), Doom(f)
    PROVE  Deletes(f)'
  <1> DEFINE ids == Doomed(f)
             next == IF ids = {} THEN <<>> ELSE Hooked(Cascade(Call(f)))
             told == {<<k, ReadForWrite(f)[k]>> : k \in ids}
             kept == [Then(f, next) EXCEPT !.ids = ids, !.queue = Chunks(ids), !.told = told]
             after == [kept EXCEPT !.snap = Snapshot(f, ~Locking(f))]
             todo == next \o Tail(fl[f].todo)
             queue == Chunks(ids)
  <1>1. /\ At(f, "doom") /\ fl[f].todo # <<>> /\ Head(fl[f].todo) = "doom" /\ Sends(f, after, <<>>, Held(f, ids))
    BY DEF Doom, Ready, Reads, At
  <1>2. Tail(fl[f].todo) = <<"commit">> /\ fl[f].out # "foreignKey"
    BY <1>1, DeleteHeads DEF Deletes
  <1>3. \/ todo \in {<<"hook", "children", "remove", "hook", "commit">>, <<"commit">>}
        \/ ~Call(f).hard /\ todo = <<"hook", "remove", "hook", "commit">>
    <2>1. <<>> \o <<"commit">> = <<"commit">>
      <3>1. <<"commit">> \in Seq({"commit"})
        OBVIOUS
      <3> QED
        BY <3>1, ConcatEmptySeq
    <2>2. CASE ids = {}
      BY <1>2, <2>1, <2>2
    <2>3. CASE ids # {}
      BY <1>2, <2>3, DeleteLists DEF Cascade
    <2> QED
      BY <2>2, <2>3
  <1>4. ids \in SUBSET Call(f).ids /\ IsFiniteSet(ids) /\ Call(f).ids \subseteq Key
    <2>1. ids \in SUBSET Call(f).ids
      BY DEF Doomed, FirstOf
    <2> QED
      BY <2>1, CallTyped, FS_Subset DEF WriteInv
  <1> HIDE DEF ids
  <1>5. queue \in Seq(SUBSET ids)
    BY <1>4, ListsTyped, BoundAssumption DEF Chunks
  <1> HIDE DEF next
  <1>6. SameBut(Then(f, next), f, todo, fl[f].queue)
    BY ThenSame
  <1>m. todo = next \o Tail(fl[f].todo)
    OBVIOUS
  <1> HIDE DEF told, todo, queue
  <1>7. SameBut([Then(f, next) EXCEPT !.ids = ids, !.queue = queue, !.told = told], f, todo, queue)
    BY <1>6, SameThrough
  <1>8. SameBut(kept, f, todo, queue)
    BY <1>7 DEF queue
  <1> HIDE DEF kept
  <1>9. SameBut(after, f, todo, queue)
    BY <1>8, SameThrough
  <1> HIDE DEF after
  <1>10. /\ fl' = [fl EXCEPT ![f] = after] /\ plan' = plan
         /\ fl[f].inTx => \A k \in Key : k \in Held(f, ids) => lock'[k] = f
    BY <1>1 DEF Sends
  <1>11. fl'[f].todo = todo /\ fl'[f].queue = queue /\ fl'[f].out = fl[f].out /\ fl'[f].inTx = fl[f].inTx
    BY <1>9, <1>10, SameAfter
  <1>12. RowLocks /\ fl[f].inTx => HoldsBatches(f)'
    <2> SUFFICES ASSUME RowLocks, fl[f].inTx, NEW i \in DOMAIN queue, NEW k \in queue[i] PROVE lock'[k] = f
      BY <1>11 DEF HoldsBatches
    <2>1. queue[i] \in SUBSET ids
      BY <1>5, ElementOfSeq
    <2> QED
      BY <1>4, <1>10, <2>1 DEF Held, Locking
  <1>13. /\ todo # <<"begin", "doom", "commit">> /\ todo # <<"remove", "hook", "commit">>
    <2>1. /\ <<"hook", "children", "remove", "hook", "commit">> # <<"begin", "doom", "commit">>
          /\ <<"hook", "children", "remove", "hook", "commit">> # <<"remove", "hook", "commit">>
          /\ <<"hook", "remove", "hook", "commit">> # <<"begin", "doom", "commit">>
          /\ <<"hook", "remove", "hook", "commit">> # <<"remove", "hook", "commit">>
          /\ <<"commit">> # <<"begin", "doom", "commit">> /\ <<"commit">> # <<"remove", "hook", "commit">>
      OBVIOUS
    <2> QED
      BY <1>3, <2>1
  <1>14. todo \in DeleteTodo(Call(f)) /\ Call(f)' = Call(f) /\ RowLocks' = RowLocks
    BY <1>3, <1>10 DEF DeleteTodo, Call, RowLocks
  <1> QED
    BY <1>2, <1>11, <1>12, <1>13, <1>14 DEF Deletes

\* Once the children of a batch went, it has none; and the batch is held.
LEMMA ChildrenDeletes ==
    ASSUME WriteInv, NEW f \in Flow, Deletes(f), DeleteChildren(f)
    PROVE  Deletes(f)'
  <1> DEFINE hit == ChildrenOf(Current(f), Batch(f))
             new == [c \in hit |-> Gone(f, c)]
             todo == <<"remove", "hook", "commit">>
             S == hit
  <1>1. "children" \in Together /\ At(f, "children") /\ Free(f) /\ Writes(f, Goes(f), new)
    BY DEF Together, DeleteChildren, Ready
  <1>2. Sending(f, "children") /\ Needs(f) = Written(S)
    BY <1>1, IsSending, NeedsAt DEF Sending
  <1>3. Tail(fl[f].todo) = todo /\ fl[f].out # "foreignKey" /\ fl[f].inTx
    BY <1>1, <1>2, DeleteHeads DEF Deletes, Sending, Together
  <1>4. SameBut(Goes(f), f, todo, fl[f].queue)
    <2>1. todo \in Seq({"remove", "hook", "commit"})
      OBVIOUS
    <2>2. <<>> \o todo = todo
      BY <2>1, ConcatEmptySeq
    <2> QED
      BY <1>3, <2>2, ThenSame DEF Goes
  <1>5. DOMAIN new = hit /\ (Call(f).hard => \A c \in hit : new[c] = None) /\ DOMAIN new \subseteq S
    BY DEF Gone
  <1> HIDE DEF new, hit, S, todo
  <1>6. /\ plan' = plan
        /\ fl'[f].todo = todo /\ fl'[f].queue = fl[f].queue /\ fl'[f].out = fl[f].out /\ fl'[f].inTx = fl[f].inTx
        /\ \A k \in Key : lock[k] = f \/ k \in Written(DOMAIN new) => lock'[k] = f
        /\ \A k \in Key : Current(f)'[k] = IF k \in DOMAIN new THEN new[k] ELSE Current(f)[k]
    <2> DEFINE kept == Goes(f)
               queue == fl[f].queue
    <2>1. fl[f].inTx
      BY <1>3
    <2>2. Free(f)
      BY <1>1
    <2>3. Writes(f, kept, new)
      BY <1>1
    <2>4. SameBut(kept, f, todo, queue)
      BY <1>4
    <2>5. Needs(f) = Written(S)
      BY <1>2
    <2>6. DOMAIN new \subseteq S
      BY <1>5
    <2>q. queue = fl[f].queue
      OBVIOUS
    <2> HIDE DEF kept, queue
    <2>7. OwnSees(f, todo, queue, new)
      BY <2>1, <2>2, <2>3, <2>4, <2>5, <2>6, OwnWrite
    <2> QED
      BY <2>7, <2>q DEF OwnSees
  <1>7. Call(f).ids \subseteq Key /\ fl[f].queue \in Seq(SUBSET Call(f).ids) /\ Batch(f) \subseteq Key
    BY <1>2 DEF Sending, WriteInv, Keeps
  <1>8. RowLocks /\ fl[f].inTx => HoldsBatches(f)'
    <2> SUFFICES ASSUME RowLocks, fl[f].inTx, NEW i \in DOMAIN fl[f].queue, NEW k \in fl[f].queue[i]
                 PROVE  lock'[k] = f
      BY <1>6 DEF HoldsBatches
    <2>1. fl[f].queue[i] \in SUBSET Call(f).ids
      BY <1>7, ElementOfSeq
    <2> QED
      BY <1>6, <1>7, <2>1 DEF Deletes, HoldsBatches
  <1>9. Batch(f)' = Batch(f) /\ Call(f)' = Call(f) /\ RowLocks' = RowLocks
    BY <1>6 DEF Batch, Call, RowLocks
  <1>10. \A k \in Batch(f) : lock'[k] = f
    <2>1. CASE RowLocks
      <3>1. HoldsBatches(f)
        BY <1>3, <2>1 DEF Deletes
      <3>2. fl[f].queue # <<>> => 1 \in DOMAIN fl[f].queue /\ Head(fl[f].queue) = fl[f].queue[1]
        BY <1>7, TailItems
      <3>3. \A k \in Batch(f) : lock[k] = f
        BY <3>1, <3>2 DEF Batch, HoldsBatches
      <3> QED
        BY <1>6, <1>7, <3>3
    <2>2. CASE ~RowLocks
      BY <1>6, <1>7, <2>2 DEF Written
    <2> QED
      BY <2>1, <2>2
  <1>11. Call(f).hard => ChildrenOf(Current(f)', Batch(f)) = {}
    <2> SUFFICES ASSUME Call(f).hard, NEW c \in Child, Current(f)'[c] # None, Current(f)'[c].par \in Batch(f)
                 PROVE  FALSE
      BY DEF ChildrenOf
    <2>1. c \in Key
      BY DEF Key
    <2>2. c \notin hit
      BY <1>5, <1>6, <2>1
    <2>3. Current(f)'[c] = Current(f)[c]
      BY <1>5, <1>6, <2>1, <2>2
    <2> QED
      BY <2>2, <2>3 DEF hit, ChildrenOf
  <1>12. Call(f).hard => Childless(f)'
    BY <1>9, <1>10, <1>11 DEF Childless
  <1>13. todo \in DeleteTodo(Call(f)) /\ todo # <<"begin", "doom", "commit">>
    BY DEF DeleteTodo, todo
  <1> QED
    BY <1>3, <1>6, <1>8, <1>9, <1>12, <1>13 DEF Deletes

\* The database refuses none of its rows over a child, and the next batch is held as this one was.
LEMMA RemoveDeletes ==
    ASSUME WriteInv, NEW f \in Flow, Deletes(f), InternalDelete(f)
    PROVE  Deletes(f)'
  <1> DEFINE hit == {k \in Batch(f) : Current(f)[k] # None /\ (Call(f).hard \/ ~Current(f)[k].del)}
             more == Len(fl[f].queue) > 1
             new == [k \in hit |-> Gone(f, k)]
             next == IF more THEN Cascade(Call(f)) ELSE <<>>
             kept == [Then(f, next) EXCEPT !.queue = Behind(f)]
             todo == next \o Tail(fl[f].todo)
             queue == Behind(f)
             S == Batch(f)
  <1>1. /\ "remove" \in Together /\ At(f, "remove") /\ Free(f)
        /\ \/ Call(f).hard /\ ChildrenOf(Current(f), hit) # {}
           \/ Writes(f, kept, new)
    BY DEF Together, InternalDelete, Ready
  <1>2. Sending(f, "remove") /\ Needs(f) = Written(S) /\ fl[f].inTx
    BY <1>1, IsSending, NeedsAt DEF Sending
  <1>3. /\ fl[f].todo = <<"remove", "hook", "commit">> /\ Tail(fl[f].todo) = <<"hook", "commit">>
        /\ fl[f].out # "foreignKey"
    BY <1>1, <1>2, DeleteHeads DEF Deletes, Sending
  <1>4. ~(Call(f).hard /\ ChildrenOf(Current(f), hit) # {})
    <2>1. hit \subseteq Batch(f)
      OBVIOUS
    <2>2. Call(f).hard => ChildrenOf(Current(f), Batch(f)) = {}
      BY <1>3 DEF Deletes, Childless
    <2>3. ChildrenOf(Current(f), hit) \subseteq ChildrenOf(Current(f), Batch(f))
      BY <2>1 DEF ChildrenOf
    <2> QED
      BY <2>2, <2>3
  <1>5. \/ todo \in {<<"children", "remove", "hook", "commit">>, <<"hook", "commit">>}
        \/ ~Call(f).hard /\ todo = <<"remove", "hook", "commit">>
    <2>1. <<>> \o <<"hook", "commit">> = <<"hook", "commit">>
      <3>1. <<"hook", "commit">> \in Seq({"hook", "commit"})
        OBVIOUS
      <3> QED
        BY <3>1, ConcatEmptySeq
    <2>2. CASE more
      BY <1>3, <2>2, DeleteLists DEF Cascade
    <2>3. CASE ~more
      BY <1>3, <2>1, <2>3
    <2> QED
      BY <2>2, <2>3
  <1>6. SameBut(Then(f, next), f, todo, fl[f].queue)
    BY ThenSame
  <1>7. SameBut(kept, f, todo, queue)
    <2> HIDE DEF next, todo
    <2> QED
      BY <1>6, SameThrough
  <1>8. DOMAIN new \subseteq S
    OBVIOUS
  <1>9. Writes(f, kept, new)
    BY <1>1, <1>4
  <1>q. queue = Behind(f)
    OBVIOUS
  <1> HIDE DEF hit, new, next, kept, todo, queue, S
  <1>10. OwnSees(f, todo, queue, new)
    <2>1. Free(f)
      BY <1>1
    <2>2. fl[f].inTx
      BY <1>2
    <2>3. Needs(f) = Written(S)
      BY <1>2
    <2> QED
      BY <1>7, <1>8, <1>9, <2>1, <2>2, <2>3, OwnWrite
  <1>11. Call(f).ids \subseteq Key /\ fl[f].queue \in Seq(SUBSET Call(f).ids)
    BY <1>2 DEF Sending, WriteInv, Keeps
  <1>12. RowLocks /\ fl[f].inTx => HoldsBatches(f)'
    <2> SUFFICES ASSUME RowLocks, fl[f].inTx, NEW i \in DOMAIN queue, NEW k \in queue[i]
                 PROVE  lock'[k] = f
      BY <1>10 DEF HoldsBatches, OwnSees
    <2>1. CASE fl[f].queue = <<>>
      <3>1. DOMAIN <<>> = {}
        OBVIOUS
      <3> QED
        BY <1>q, <2>1, <3>1 DEF Behind
    <2>2. CASE fl[f].queue # <<>>
      <3>1. /\ DOMAIN fl[f].queue = 1..Len(fl[f].queue) /\ Len(fl[f].queue) \in Nat
            /\ DOMAIN queue = 1..Len(fl[f].queue) - 1 /\ queue[i] = fl[f].queue[i + 1]
        BY <1>q, <1>11, <2>2, TailItems DEF Behind
      <3>2. i + 1 \in DOMAIN fl[f].queue
        BY <3>1
      <3>3. fl[f].queue[i + 1] \in SUBSET Call(f).ids
        BY <1>11, <3>2, ElementOfSeq
      <3>4. k \in Key /\ lock[k] = f
        BY <1>11, <3>1, <3>2, <3>3 DEF Deletes, HoldsBatches
      <3> QED
        BY <1>10, <3>4 DEF OwnSees
    <2> QED
      BY <2>1, <2>2
  <1>13. /\ todo # <<"begin", "doom", "commit">> /\ (Call(f).hard => todo # <<"remove", "hook", "commit">>)
    <2>1. /\ <<"children", "remove", "hook", "commit">> # <<"begin", "doom", "commit">>
          /\ <<"children", "remove", "hook", "commit">> # <<"remove", "hook", "commit">>
          /\ <<"remove", "hook", "commit">> # <<"begin", "doom", "commit">>
          /\ <<"hook", "commit">> # <<"begin", "doom", "commit">> /\ <<"hook", "commit">> # <<"remove", "hook", "commit">>
      OBVIOUS
    <2> QED
      BY <1>5, <2>1
  <1>14. todo \in DeleteTodo(Call(f))
    BY <1>5 DEF DeleteTodo
  <1>15. Call(f)' = Call(f) /\ RowLocks' = RowLocks
    BY <1>10 DEF OwnSees, Call, RowLocks
  <1> QED
    BY <1>3, <1>10, <1>12, <1>13, <1>14, <1>15 DEF Deletes, OwnSees

LEMMA FaultDeletes ==
    ASSUME WriteInv, NEW f \in Flow, HookThrows(f) \/ Refused(f) \/ Deadlocked(f) \/ Racer(f)
    PROVE  Deletes(f)'
  <1>1. PICK why \in {"late", "hook", "refused", "deadlock"} : plan' = plan /\ fl' = [fl EXCEPT ![f] = Thrown(f, why)]
    BY DEF HookThrows, Refused, Deadlocked, Racer, Throw
  <1>2. why \in Failure \ {"foreignKey"}
    BY DEF Failure
  <1> QED
    BY <1>1, <1>2, DeleteThrown

LEMMA OwnStepDeletes ==
    ASSUME WriteInv, NEW f \in Flow, Deletes(f), Write(f)
    PROVE  Deletes(f)'
  BY DeleteStatements, BeginDeletes, HookDeletes, EndDeletes, DoomDeletes, ChildrenDeletes, RemoveDeletes, FaultDeletes
     DEF Write, Proceeds

LEMMA DeletesStart ==
    ASSUME Init, NEW f \in Flow, Call(f).op = "delete"
    PROVE  Deletes(f)
  <1> DEFINE c == Call(f)
  <1>1. fl[f] = Idle(c) /\ c.op = "delete"
    BY DEF Init
  <1>2. CallBody(c) = DeleteRows(c)
    BY <1>1 DEF CallBody
  <1>3. Program(c) = IF c.outer THEN <<"begin">> \o <<>> \o CallBody(c) \o <<"commit">> ELSE <<>> \o CallBody(c)
    BY <1>1 DEF Program
  <1>4. <<"begin">> \o <<"doom">> = <<"begin", "doom">> /\ <<"begin", "doom">> \o <<"commit">> = <<"begin", "doom", "commit">>
    BY Pair, Triple
  <1>5. /\ <<"begin">> \o <<>> = <<"begin">>
        /\ <<>> \o <<"begin", "doom", "commit">> = <<"begin", "doom", "commit">>
    <2>1. <<"begin">> \in Seq({"begin"}) /\ <<"begin", "doom", "commit">> \in Seq({"begin", "doom", "commit"})
      OBVIOUS
    <2> QED
      BY <2>1, ConcatEmptySeq
  <1>6. Program(c) = <<"begin", "doom", "commit">>
    BY <1>2, <1>3, <1>4, <1>5 DEF DeleteRows, Atomically
  <1> HIDE DEF c
  <1>7. fl[f].todo = Program(c) /\ fl[f].queue = <<>> /\ fl[f].out = None
    BY <1>1 DEF Idle
  <1>8. None # "foreignKey"
    BY OutcomeAssumption DEF Failure
  <1>9. DOMAIN <<>> = {} /\ <<"begin", "doom", "commit">> # <<"remove", "hook", "commit">>
    OBVIOUS
  <1> QED
    BY <1>6, <1>7, <1>8, <1>9 DEF Deletes, DeleteTodo, HoldsBatches

LEMMA DeletesStay == DeleteInv /\ [Next]_vars => DeleteInv'
  <1> SUFFICES ASSUME DeleteInv, [Next]_vars PROVE DeleteInv'
    OBVIOUS
  <1>1. WriteInv' /\ WriteInv /\ Apart
    BY NextKeeps DEF DeleteInv
  <1>2. CASE UNCHANGED vars
    <2>1. plan' = plan /\ rows' = rows /\ base' = base /\ lock' = lock /\ fl' = fl
      BY <1>2 DEF vars
    <2>2. ASSUME NEW f \in Flow, Deletes(f) PROVE Deletes(f)'
      <3>1. /\ Call(f)' = Call(f) /\ RowLocks' = RowLocks /\ Batch(f)' = Batch(f) /\ Current(f)' = Current(f)
            /\ HoldsBatches(f)' = HoldsBatches(f)
        BY <2>1 DEF Call, RowLocks, Batch, Current, HoldsBatches
      <3> QED
        BY <2>1, <2>2, <3>1 DEF Deletes, Childless
    <2>3. Apart'
      BY <1>1, <2>1 DEF Apart
    <2>4. \A f \in Flow : Call(f)' = Call(f)
      BY <2>1 DEF Call
    <2> QED
      BY <1>1, <2>2, <2>3, <2>4 DEF DeleteInv
  <1>3. CASE Next
    <2>1. PICK h \in Flow : Write(h)
      BY <1>3 DEF Next
    <2>2. Apart' /\ plan' = plan
      BY <1>1, <2>1, ApartKeeps, StepKinds
    <2>3. ASSUME NEW f \in Flow, Call(f)'.op = "delete" PROVE Deletes(f)'
      <3>1. Deletes(f)
        BY <2>2, <2>3 DEF DeleteInv, Call
      <3>2. CASE f = h
        BY <1>1, <2>1, <3>1, <3>2, OwnStepDeletes
      <3>3. CASE f # h
        BY <2>1, <3>1, <3>3, OthersLetDelete
      <3> QED
        BY <3>2, <3>3
    <2> QED
      BY <1>1, <2>2, <2>3 DEF DeleteInv
  <1> QED
    BY <1>2, <1>3

\* The database never refuses a delete over a child: those that point at its rows went first, and none is put under
\* them before they go, on each engine of `Engine`, whatever else inserts, moves or deletes children
\* (`deleteRows`, `deleteChildren`).  SQL Server is none of them: its update lock lets the check of a foreign key by.
THEOREM CascadeReachesAlways == Spec => []CascadeReaches
  <1>1. Init => DeleteInv
    <2> SUFFICES ASSUME Init PROVE DeleteInv
      OBVIOUS
    <2>1. WriteInv
      BY WritesStart
    <2>2. Apart
      BY WriterAssumption, KeyAssumption DEF Apart, Init, Key
    <2> QED
      BY <2>1, <2>2, DeletesStart DEF DeleteInv
  <1>2. DeleteInv => CascadeReaches
    BY DEF DeleteInv, Deletes, CascadeReaches
  <1> QED
    BY <1>1, <1>2, DeletesStay, PTL DEF Spec
=============================================================================
