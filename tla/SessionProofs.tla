---------------------------- MODULE SessionProofs ----------------------------
(***************************************************************************)
(* What a flow that awaits each call before the next may rely on: it       *)
(* starts no other flow inside its transactions.  Every callback it        *)
(* registers runs or is undone, a nested transaction that fails undoes its *)
(* own writes alone, and each connection is the serial session that        *)
(* SerialSession describes.                                                *)
(*                                                                         *)
(* The invariant follows the savepoints of such a flow: each nested        *)
(* transaction it is in has its own, in the order they are nested.         *)
(***************************************************************************)
EXTENDS FateProofs, SequenceTheorems

NoBranches == \A plan \in Plan : plan.branches = {}

-----------------------------------------------------------------------------
(***************************************************************************)
(* The invariant.                                                          *)
(***************************************************************************)
\* A flow runs in transactions of its own alone.
ByItself(f) == pc[f] # "idle" /\ \A x \in Lineage(ctx[f]) : scope[x].flow = f
Outermost == \A s \in Scope : Used(s) /\ scope[s].parent = NoScope => scope[s].outer = NoScope

\* The last savepoint of a depth is the one its name names.
LastOf(saves, d, i) ==
    /\ i \in DOMAIN saves
    /\ saves[i].depth = d
    /\ \A k \in DOMAIN saves : saves[k].depth = d => k <= i

\* The nested transactions a flow is in whose savepoint the database took: each still has it, an inner
\* one after an outer one, unless the transaction is gone.
Marked(f) == {x \in Lineage(ctx[f]) : scope[x].parent # NoScope /\ (x = ctx[f] => ~Asks(f, {"savepoint"}))}
Marks(f) ==
    LET saves == engine[SlotOf(on[f])].saves IN
    engine[SlotOf(on[f])].tx # NoScope =>
        \A x \in Marked(f) :
            \E i \in DOMAIN saves :
                /\ LastOf(saves, scope[x].depth, i)
                /\ \A y \in Marked(f) : scope[y].depth < scope[x].depth =>
                      \E k \in DOMAIN saves : LastOf(saves, scope[y].depth, k) /\ k < i

\* What a failed COMMIT left open is still open, or was undone.
Aborts(f) ==
    Asks(f, {"rollback"}) \/ (pc[f] = "abort" /\ AtRoot(f)) =>
        engine[SlotOf(on[f])].tx = ctx[f] \/ ctx[f] \in undone

LinearInv ==
    /\ FateInv
    /\ Outermost
    /\ \A f \in Flow : ByItself(f) /\ Marks(f) /\ Aborts(f)

-----------------------------------------------------------------------------
(***************************************************************************)
(* One flow, its own transactions.                                         *)
(***************************************************************************)
LEMMA ContextStays ==
    ASSUME FateInv, Kept, NEW f \in Flow, ctx'[f] = ctx[f]
    PROVE  /\ Lineage(ctx[f])' = Lineage(ctx[f])
           /\ \A x \in Lineage(ctx[f]) : x \in Scope /\ Used(x) /\ scope'[x] = scope[x]
  <1>1. \A x \in Where(f) : x \in Scope /\ Used(x) /\ scope'[x] = scope[x]
    BY WhereStays
  <1>2. Lineage(ctx[f]) \subseteq Where(f)
    BY DEF Where
  <1>3. ctx[f] # NoScope => ctx[f] \in Scope /\ Used(ctx[f])
    BY DEF FateInv, HeldInv, FlowInv, Calls, TypeInv, TypeOK
  <1>4. ctx[f] # NoScope => scope'[ctx[f]] = scope[ctx[f]]
    BY <1>3 DEF Kept
  <1> QED
    BY <1>1, <1>2, <1>4 DEF Lineage

\* Inside any transaction, it is in its own.
LEMMA InsideOwn ==
    ASSUME FateInv, NEW f \in Flow, ByItself(f), ctx[f] # NoScope
    PROVE  /\ ctx[f] \in Scope /\ Used(ctx[f]) /\ scope[ctx[f]].flow = f
           /\ ctx[f] \in Lineage(ctx[f])
           /\ RootOf(ctx[f]) \in Scope /\ RootOf(ctx[f]) \in Lineage(ctx[f])
           /\ InOwn(f)
  <1>1. PICK s \in Scope : s = ctx[f] /\ Used(s)
    BY DEF FateInv, HeldInv, FlowInv, Calls, TypeInv, TypeOK
  <1>2. s \in Lineage(s) /\ RootOf(s) \in Lineage(s)
    BY <1>1 DEF FateInv, Lineages, LineageMade
  <1>3. RootOf(s) \in Scope
    BY <1>1 DEF FateInv, HeldInv, Scopes, ScopeMade
  <1> QED
    BY <1>1, <1>2, <1>3 DEF ByItself, InOwn

\* What is around a nested scope is at a smaller depth.
LEMMA AroundNested ==
    ASSUME FateInv, NEW s \in Scope, Used(s), scope[s].parent # NoScope
    PROVE  LET p == scope[s].parent IN
           /\ p \in Scope /\ Used(p)
           /\ Lineage(s) = {s} \cup Lineage(p) /\ s \notin Lineage(p)
           /\ \A x \in Lineage(s) : x \in Scope /\ Used(x)
           /\ \A x \in Lineage(s) : scope[x].depth \in Nat
           /\ \A x \in Lineage(p) : scope[x].depth < scope[s].depth
  <1> DEFINE p == scope[s].parent
  <1>1. HeldInv /\ Lineages
    BY DEF FateInv
  <1>2. p \in Scope /\ Used(p)
    BY <1>1 DEF HeldInv, Scopes, NestedMade, TypeInv, TypeOK, ScopeRecord
  <1>3. Lineage(s) = {s} \cup Lineage(p) /\ scope[s].depth = scope[p].depth + 1
    BY <1>1, <1>2 DEF Lineages, LineageMade
  <1>4. \A x \in Scope : scope[x].depth \in Nat
    BY <1>1 DEF HeldInv, TypeInv, TypeOK, ScopeRecord
  <1>5. Lineage(s) \subseteq Scope
    BY <1>1 DEF Lineage, HeldInv, TypeInv, TypeOK, ScopeRecord
  <1>6. \A x \in Lineage(s) : Used(x)
    BY <1>1 DEF Lineages, LineageMade
  <1> HIDE DEF p
  <1>7. \A x \in Lineage(p) : x # p => scope[x].depth < scope[p].depth
    BY <1>1, <1>2 DEF Lineages, LineageMade
  <1>8. \A x \in Lineage(p) : scope[x].depth < scope[s].depth
    <2> TAKE x \in Lineage(p)
    <2>1. x \in Scope
      BY <1>3, <1>5
    <2>2. scope[x].depth <= scope[p].depth
      BY <1>2, <1>4, <1>7, <2>1
    <2> QED
      BY <1>2, <1>3, <1>4, <2>1, <2>2
  <1>9. s \notin Lineage(p)
    BY <1>4, <1>8
  <1> QED
    BY <1>2, <1>3, <1>4, <1>5, <1>6, <1>8, <1>9 DEF p

LEMMA AroundRoot ==
    ASSUME FateInv, NEW s \in Scope, Used(s), scope[s].parent = NoScope
    PROVE  Lineage(s) = {s}
  <1>1. Lineage(s) = {s} \cup Lineage(NoScope)
    BY DEF FateInv, Lineages, LineageMade
  <1> QED
    BY <1>1 DEF Lineage

LEMMA AnswerStaysByItself ==
    ASSUME FateInv, Outermost, NEW f \in Flow, NEW ok \in BOOLEAN, Answers(f, ok),
           NEW g \in Flow, ByItself(g)
    PROVE  /\ ByItself(g)' /\ Outermost' /\ Kept
           /\ g # f => Marked(g)' = Marked(g)
           /\ Lineage(ctx[g])' \subseteq Lineage(ctx[g])
  <1> DEFINE s == ctx[f]
             j == job[f]
  <1>1. /\ scope' = scope
        /\ j.kind \in Deep => s \in Scope /\ Used(s) /\ scope[s].parent # NoScope /\ scope[s].outer = scope[s].parent
        /\ j.kind \in {"begin", "commit", "rollback"} => s \in Scope /\ Used(s) /\ scope[s].parent = NoScope
        /\ Ends(j, ok) => j.kind \in Deep \cup {"begin", "commit", "rollback"}
        /\ ctx'[f] = (IF Ends(j, ok) THEN scope[s].outer ELSE s)
        /\ pc'[f] \in {"run", "callbacks", "abort"}
    BY Settles
  <1>2. Kept /\ Outermost'
    BY <1>1 DEF Kept, Outermost, Used
  <1>3. CASE g # f
    <2>1. Steady(g)
      BY <1>3 DEF Answers
    <2>2. Lineage(ctx[g])' = Lineage(ctx[g])
      BY <1>2, <2>1, ContextStays DEF Steady
    <2> QED
      BY <1>1, <1>2, <2>1, <2>2 DEF ByItself, Steady, Marked, Asks
  <1>4. CASE g = f
    <2>1. Lineage(ctx[f])' \subseteq Lineage(ctx[f])
      <3>1. CASE ~Ends(j, ok)
        BY <1>1, <3>1 DEF Lineage
      <3>2. CASE Ends(j, ok) /\ j.kind \in Deep
        <4>1. ctx'[f] = scope[s].parent
          BY <1>1, <3>2
        <4>2. Lineage(ctx[f])' = Lineage(scope[s].parent)
          BY <1>1, <4>1 DEF Lineage
        <4> QED
          BY <1>1, <3>2, <4>2, AroundNested
      <3>3. CASE Ends(j, ok) /\ j.kind \in {"begin", "commit", "rollback"}
        BY <1>1, <3>3 DEF Outermost, Lineage
      <3> QED
        BY <1>1, <3>1, <3>2, <3>3
    <2> QED
      BY <1>1, <1>2, <1>4, <2>1 DEF ByItself
  <1> QED
    BY <1>3, <1>4

LEMMA MarkedAround ==
    ASSUME FateInv, NEW f \in Flow
    PROVE  \A x \in Marked(f) : x \in Scope /\ Used(x) /\ ctx[f] # NoScope /\ scope[x].parent # NoScope
  <1>1. ctx[f] # NoScope => ctx[f] \in Scope /\ Used(ctx[f])
    BY DEF FateInv, HeldInv, FlowInv, Calls, TypeInv, TypeOK
  <1>2. Lineage(ctx[f]) \subseteq Scope
    BY <1>1 DEF Lineage, FateInv, HeldInv, TypeInv, TypeOK, ScopeRecord
  <1>3. ctx[f] # NoScope => \A x \in Lineage(ctx[f]) : Used(x)
    BY <1>1 DEF FateInv, Lineages, LineageMade
  <1>4. \A x \in Marked(f) : x \in Lineage(ctx[f]) /\ scope[x].parent # NoScope
    BY DEF Marked
  <1>5. ctx[f] = NoScope => Lineage(ctx[f]) = {}
    BY DEF Lineage
  <1> QED
    BY <1>2, <1>3, <1>4, <1>5

\* A step of a flow's own takes it into nothing but its own transactions, and its savepoints with it.
LEMMA OwnStaysByItself ==
    ASSUME FateInv, Outermost, \A g \in Flow : ByItself(g), Kept,
           NEW f \in Flow, UserStep(f) \/ FlowStep(f), ~Refuse(f)
    PROVE  /\ Outermost'
           /\ \A g \in Flow : ByItself(g)' /\ Marked(g)' \subseteq Marked(g)
           /\ \A g \in Flow \ {f} : Steady(g)
  <1>1. HeldInv /\ Lineages
    BY DEF FateInv
  <1>2. \A g \in Flow \ {f} : Steady(g)
    BY <1>1, OthersStay DEF ByItself, Starts
  <1>3. \A g \in Flow \ {f} : Lineage(ctx[g])' = Lineage(ctx[g]) /\ \A x \in Lineage(ctx[g]) : scope'[x] = scope[x]
    BY <1>2, ContextStays DEF Steady
  <1>4. \A g \in Flow \ {f} : ByItself(g)' /\ Marked(g)' \subseteq Marked(g)
    BY <1>2, <1>3 DEF Steady, ByItself, Marked, Asks
  <1>5. Opens(f) \/ Nests(f) \/ GoesIn(f) \/ GoesOut(f) \/ Remains(f)
    BY <1>1, FlowMoves
  <1>6. ByItself(f) /\ (ctx'[f] = ctx[f] => /\ Lineage(ctx[f])' = Lineage(ctx[f])
                                            /\ \A x \in Lineage(ctx[f]) : scope'[x] = scope[x])
    BY ContextStays
  <1>7. CASE Opens(f)
    <2>1. ctx[f] = NoScope
      BY <1>6, <1>7, InsideOwn DEF Opens
    <2>2. PICK n \in Scope : /\ n = NextScope
                             /\ \A s \in Scope \ {n} : scope'[s] = scope[s]
                             /\ scope'[n].flow = f /\ scope'[n].parent = NoScope /\ scope'[n].outer = NoScope
                             /\ scope'[n].lineage = {n}
      <3>1. scope' [NextScope].lineage = {NextScope} \cup Lineage(NoScope)
        BY <1>1, <1>7, LineageIsNew DEF Opens
      <3> QED
        BY <1>1, <1>7, <2>1, <3>1, LineageIsNew DEF Opens, Lineage
    <2>3. Outermost'
      BY <2>2 DEF Outermost, Used
    <2>4. n # NoScope
      BY FlowAssumption
    <2>5. ctx'[f] = n /\ pc'[f] # "idle"
      BY <1>7, <2>2 DEF Opens
    <2>6. Lineage(ctx[f])' = {n}
      BY <2>2, <2>4, <2>5 DEF Lineage
    <2>7. ByItself(f)' /\ Marked(f)' = {}
      BY <2>2, <2>5, <2>6 DEF ByItself, Marked
    <2> QED
      BY <1>2, <1>4, <2>3, <2>7
  <1>8. CASE Nests(f)
    <2>1. ctx[f] \in Scope
      BY <1>1, <1>8 DEF Nests, HeldInv, TypeInv, TypeOK
    <2>2. PICK n \in Scope : /\ n = NextScope
                             /\ \A s \in Scope \ {n} : scope'[s] = scope[s]
                             /\ scope'[n].parent # NoScope
      BY <1>1, <1>8, <2>1, LineageIsNew DEF Nests
    <2>3. Outermost'
      BY <2>2 DEF Outermost, Used
    <2>4. ByItself(f)' /\ Marked(f)' \subseteq Marked(f)
      BY <1>6, <1>8 DEF Nests, ByItself, Marked, Asks
    <2> QED
      BY <1>2, <1>4, <2>3, <2>4
  <1>9. CASE GoesIn(f)
    <2>1. PICK n \in Scope : /\ n = job[f].scope /\ Used(n) /\ scope[n].flow = f
                             /\ ctx[f] # NoScope /\ scope[n].parent = ctx[f] /\ job[f].kind = "savepoint"
      BY <1>1, <1>9 DEF GoesIn, HeldInv, FlowInv, Sends, TypeInv, TypeOK, Job
    <2>2. Lineage(n) = {n} \cup Lineage(ctx[f]) /\ n \notin Lineage(ctx[f])
      BY <2>1, AroundNested
    <2>3. ctx'[f] = n /\ scope' = scope /\ pc[f] = "nest" /\ pc'[f] = "call" /\ job'[f] = job[f]
      BY <1>9, <2>1 DEF GoesIn
    <2>4. Lineage(ctx[f])' = Lineage(n)
      BY <2>3 DEF Lineage
    <2>5. Outermost' /\ ByItself(f)'
      BY <1>6, <2>1, <2>2, <2>3, <2>4 DEF Outermost, Used, ByItself
    <2>6. Marked(f)' \subseteq Marked(f)
      BY <2>1, <2>2, <2>3, <2>4 DEF Marked, Asks
    <2> QED
      BY <1>2, <1>4, <2>5, <2>6
  <1>10. CASE GoesOut(f) \/ Remains(f)
    <2>1. scope' = scope /\ ctx'[f] = ctx[f] /\ pc'[f] # "idle"
      BY <1>10 DEF GoesOut, Remains
    <2>2. Asks(f, {"savepoint"}) => Asks(f, {"savepoint"})'
      BY <1>10, <1>1, FlowFrame DEF GoesOut, Remains, Asks
    <2>3. Outermost' /\ ByItself(f)'
      BY <1>6, <2>1 DEF Outermost, Used, ByItself
    <2>4. Marked(f)' \subseteq Marked(f)
      BY <1>6, <2>1, <2>2 DEF Marked
    <2> QED
      BY <1>2, <1>4, <2>3, <2>4
  <1> QED
    BY <1>5, <1>7, <1>8, <1>9, <1>10

-----------------------------------------------------------------------------
(***************************************************************************)
(* The savepoints.                                                         *)
(***************************************************************************)
LEMMA NamedIsLast ==
    ASSUME NEW c, NEW s, NEW i
    PROVE  i \in Named(c, s) <=> LastOf(engine[c].saves, scope[s].depth, i)
  BY DEF Named, LastOf

\* A name names one savepoint.
LEMMA OneLast ==
    ASSUME NEW saves \in Seq(Savepoint), NEW d, NEW i, NEW k, LastOf(saves, d, i), LastOf(saves, d, k)
    PROVE  i = k
  <1>1. DOMAIN saves = 1..Len(saves) /\ Len(saves) \in Nat
    BY LenProperties
  <1> QED
    BY <1>1 DEF LastOf

\* Cut after it, or followed by one of another name, it is still the last of its name.
LEMMA LastAfterCut ==
    ASSUME NEW saves \in Seq(Savepoint), NEW m \in 0..Len(saves), NEW d, NEW i, LastOf(saves, d, i), i <= m
    PROVE  LastOf(SubSeq(saves, 1, m), d, i)
  <1>1. DOMAIN saves = 1..Len(saves) /\ Len(saves) \in Nat
    BY LenProperties
  <1>2. i \in 1..m /\ saves[i].depth = d /\ \A k \in 1..m : saves[k].depth = d => k <= i
    BY <1>1 DEF LastOf
  <1>3. DOMAIN SubSeq(saves, 1, m) = 1..m /\ \A k \in 1..m : SubSeq(saves, 1, m)[k] = saves[k]
    BY <1>1, SubSeqProperties
  <1> QED
    BY <1>2, <1>3 DEF LastOf

LEMMA LastAfterAppend ==
    ASSUME NEW saves \in Seq(Savepoint), NEW save \in Savepoint
    PROVE  /\ \A d, i : d # save.depth /\ LastOf(saves, d, i) => LastOf(Append(saves, save), d, i)
           /\ LastOf(Append(saves, save), save.depth, Len(saves) + 1)
  <1> DEFINE later == Append(saves, save)
             n == Len(saves)
  <1>1. DOMAIN saves = 1..n /\ n \in Nat
    BY LenProperties
  <1>2. DOMAIN later = 1..n + 1 /\ later[n + 1] = save /\ \A k \in 1..n : later[k] = saves[k]
    BY <1>1, AppendProperties
  <1> HIDE DEF later, n
  <1>3. ASSUME NEW d, NEW i, d # save.depth, LastOf(saves, d, i)
        PROVE  LastOf(later, d, i)
    <2>1. i \in 1..n /\ saves[i].depth = d /\ \A k \in 1..n : saves[k].depth = d => k <= i
      BY <1>1, <1>3 DEF LastOf
    <2>2. ASSUME NEW k \in 1..n + 1, later[k].depth = d PROVE k \in 1..n /\ saves[k].depth = d
      BY <1>1, <1>2, <1>3, <2>2
    <2> QED
      BY <1>1, <1>2, <2>1, <2>2 DEF LastOf
  <1>4. LastOf(later, save.depth, n + 1)
    BY <1>1, <1>2 DEF LastOf
  <1> QED
    BY <1>3, <1>4 DEF later, n

\* The savepoints of a flow stay marked while none of them is dropped, or until the transaction is gone.
LEMMA MarksFollow ==
    ASSUME FateInv, Kept, NEW f \in Flow, on'[f] = on[f], Marks(f), Marked(f)' \subseteq Marked(f),
           engine'[SlotOf(on[f])].tx # NoScope =>
               /\ engine[SlotOf(on[f])].tx # NoScope
               /\ \A x \in Marked(f)', i \in Nat : LastOf(engine[SlotOf(on[f])].saves, scope[x].depth, i)
                     => LastOf(engine'[SlotOf(on[f])].saves, scope[x].depth, i)
    PROVE  Marks(f)'
  <1> DEFINE saves == engine[SlotOf(on[f])].saves
  <1>1. \A x \in Marked(f)' : x \in Marked(f) /\ scope'[x] = scope[x]
    BY MarkedAround DEF Kept
  <1>2. SlotOf(on[f])' = SlotOf(on[f])
    BY DEF SlotOf
  <1>3. ASSUME NEW d, NEW i, LastOf(saves, d, i) PROVE i \in Nat
    <2>1. saves \in Seq(Savepoint)
      BY FlowAssumption DEF FateInv, HeldInv, TypeInv, TypeOK, Session, SlotOf
    <2> QED
      BY <1>3, <2>1, LenProperties DEF LastOf
  <1>4. SUFFICES ASSUME engine'[SlotOf(on[f])].tx # NoScope, NEW x \in Marked(f)'
                 PROVE  \E i \in DOMAIN saves' :
                          /\ LastOf(saves', scope'[x].depth, i)
                          /\ \A y \in Marked(f)' : scope'[y].depth < scope'[x].depth =>
                                \E k \in DOMAIN saves' : LastOf(saves', scope'[y].depth, k) /\ k < i
    BY <1>2 DEF Marks
  <1>5. PICK i \in DOMAIN saves :
               /\ LastOf(saves, scope[x].depth, i)
               /\ \A y \in Marked(f) : scope[y].depth < scope[x].depth =>
                     \E k \in DOMAIN saves : LastOf(saves, scope[y].depth, k) /\ k < i
    BY <1>1, <1>4 DEF Marks
  <1>6. \A y \in Marked(f)' : \A k : LastOf(saves, scope[y].depth, k) => LastOf(saves', scope'[y].depth, k)
    BY <1>1, <1>2, <1>3, <1>4
  <1> HIDE DEF saves
  <1>7. \A d, k : LastOf(saves', d, k) => k \in DOMAIN saves'
    BY DEF LastOf
  <1>8. LastOf(saves', scope'[x].depth, i) /\ i \in DOMAIN saves'
    BY <1>5, <1>6, <1>7
  <1>9. ASSUME NEW y \in Marked(f)', scope'[y].depth < scope'[x].depth
        PROVE  \E k \in DOMAIN saves' : LastOf(saves', scope'[y].depth, k) /\ k < i
    <2>1. PICK k \in DOMAIN saves : LastOf(saves, scope[y].depth, k) /\ k < i
      BY <1>1, <1>5, <1>9
    <2>2. LastOf(saves', scope'[y].depth, k) /\ k \in DOMAIN saves'
      BY <1>6, <1>7, <2>1
    <2> QED
      BY <2>1, <2>2
  <1> QED
    BY <1>8, <1>9

\* The savepoints of a flow that was answered: the innermost one was taken or dropped, or none.
LEMMA MarkedAfter ==
    ASSUME FateInv, Outermost, NEW f \in Flow, NEW ok \in BOOLEAN, Answers(f, ok), ByItself(f)
    PROVE  LET j == job[f]
               s == ctx[f]
           IN
           /\ j.kind # "savepoint" \/ ~ok => Marked(f)' \subseteq Marked(f)
           /\ j.kind \in {"begin", "commit", "rollback"} => Marked(f)' = {}
           /\ j.kind \in Deep => scope[s].depth \in Nat /\ \A x \in Marked(f)' : scope[x].depth \in Nat
           /\ j.kind = "rollbackTo" \/ (j.kind = "releaseSavepoint" /\ ok) =>
                s \in Marked(f) /\ \A x \in Marked(f)' : scope[x].depth < scope[s].depth
           /\ j.kind = "savepoint" /\ ok =>
                \A x \in Marked(f)' : x = s \/ (x \in Marked(f) /\ scope[x].depth < scope[s].depth)
  <1> DEFINE j == job[f]
  <1>1. PICK s \in Scope \cup {NoScope} : s = ctx[f]
    BY DEF FateInv, HeldInv, TypeInv, TypeOK
  <1>2. /\ scope' = scope
        /\ j.kind \in Deep => /\ s \in Scope /\ Used(s) /\ scope[s].parent # NoScope
                              /\ scope[s].outer = scope[s].parent
        /\ j.kind \in {"begin", "commit", "rollback"} => s \in Scope /\ Used(s) /\ scope[s].parent = NoScope
        /\ j.kind \in {"savepoint"} => (Ends(j, ok) <=> ~ok)
        /\ j.kind \in {"releaseSavepoint"} => (Ends(j, ok) <=> ok)
        /\ j.kind = "rollbackTo" => Ends(j, ok)
        /\ ctx'[f] = (IF Ends(j, ok) THEN scope[s].outer ELSE s)
        /\ pc'[f] \in {"run", "callbacks", "abort"}
    BY <1>1, Settles
  <1>3. Lineage(ctx[f])' \subseteq Lineage(s) /\ pc[f] \in {"call", "queued"}
    <2>1. Lineage(ctx[f])' \subseteq Lineage(ctx[f])
      BY AnswerStaysByItself
    <2> QED
      BY <1>1, <2>1 DEF Answers
  <1>4. \A x \in Marked(f)' : x \in Lineage(s) /\ scope[x].parent # NoScope
    BY <1>2, <1>3 DEF Marked
  <1>5. j.kind \in Deep => /\ Lineage(s) = {s} \cup Lineage(scope[s].parent) /\ s \notin Lineage(scope[s].parent)
                           /\ \A x \in Lineage(s) : x \in Scope /\ scope[x].depth \in Nat
                           /\ \A x \in Lineage(scope[s].parent) : scope[x].depth < scope[s].depth
    BY <1>2, AroundNested
  <1>6. j.kind \in Deep /\ Ends(j, ok) => Lineage(ctx[f])' = Lineage(scope[s].parent)
    BY <1>2 DEF Lineage
  <1>7. j.kind # "savepoint" \/ ~ok => Marked(f)' \subseteq Marked(f)
    <2>1. CASE j.kind # "savepoint"
      BY <1>1, <1>4, <2>1 DEF Marked, Asks
    <2>2. CASE j.kind = "savepoint" /\ ~ok
      BY <1>1, <1>2, <1>4, <1>5, <1>6, <2>2 DEF Marked, Deep
    <2> QED
      BY <2>1, <2>2
  <1>8. j.kind \in {"begin", "commit", "rollback"} => Marked(f)' = {}
    BY <1>2, <1>4, AroundRoot
  <1>9. j.kind \in Deep => scope[s].depth \in Nat /\ \A x \in Marked(f)' : scope[x].depth \in Nat
    BY <1>4, <1>5
  <1>10. ASSUME j.kind = "rollbackTo" \/ (j.kind = "releaseSavepoint" /\ ok)
         PROVE  s \in Marked(f) /\ \A x \in Marked(f)' : scope[x].depth < scope[s].depth
    <2>1. j.kind \in Deep /\ Ends(j, ok)
      BY <1>2, <1>10 DEF Deep
    <2>2. s \in Marked(f)
      BY <1>1, <1>2, <1>5, <1>10, <2>1 DEF Marked, Asks
    <2>3. \A x \in Marked(f)' : x \in Lineage(scope[s].parent)
      BY <1>6, <2>1 DEF Marked
    <2> QED
      BY <1>5, <2>1, <2>2, <2>3
  <1>11. ASSUME j.kind = "savepoint", ok
         PROVE  \A x \in Marked(f)' : x = s \/ (x \in Marked(f) /\ scope[x].depth < scope[s].depth)
    BY <1>1, <1>4, <1>5, <1>11 DEF Marked, Deep
  <1> QED
    BY <1>1, <1>7, <1>8, <1>9, <1>10, <1>11

\* An answer leaves its flow's savepoints as it left its flow: the one it took or dropped is the innermost.
LEMMA AnswerKeepsOwnMarks ==
    ASSUME FateInv, Outermost, NEW f \in Flow, NEW ok \in BOOLEAN, Answers(f, ok), ByItself(f), Marks(f)
    PROVE  Marks(f)'
  <1> DEFINE j == job[f]
             c == SlotOf(on[f])
             saves == engine[c].saves
  <1>1. PICK s \in Scope \cup {NoScope} : s = ctx[f]
    BY DEF FateInv, HeldInv, TypeInv, TypeOK
  <1>2. /\ on' = on /\ scope' = scope /\ Kept
        /\ j.kind \in Deep => j.scope = s /\ s \in Scope
    BY <1>1, Settles DEF Kept
  <1>3. saves \in Seq(Savepoint)
    BY FlowAssumption DEF FateInv, HeldInv, TypeInv, TypeOK, Session, SlotOf
  <1>4. /\ j.kind # "savepoint" \/ ~ok => Marked(f)' \subseteq Marked(f)
        /\ j.kind \in {"begin", "commit", "rollback"} => Marked(f)' = {}
        /\ j.kind \in Deep => scope[s].depth \in Nat /\ \A x \in Marked(f)' : scope[x].depth \in Nat
        /\ j.kind = "rollbackTo" \/ (j.kind = "releaseSavepoint" /\ ok) =>
             s \in Marked(f) /\ \A x \in Marked(f)' : scope[x].depth < scope[s].depth
        /\ j.kind = "savepoint" /\ ok =>
             \A x \in Marked(f)' : x = s \/ (x \in Marked(f) /\ scope[x].depth < scope[s].depth)
    BY <1>1, MarkedAfter
  <1>5. Changes(f, ok)
    BY DEF Answers
  <1>o. j.kind # "begin" => engine'[c].tx \in {engine[c].tx, NoScope}
    BY DEF Answers
  <1>n. ASSUME engine'[c].tx = NoScope
        PROVE  Marks(f)'
    BY <1>2, <1>n DEF Marks, SlotOf
  <1> DEFINE goesOn == engine'[c].tx # NoScope /\ engine[c].tx # NoScope
  <1>6. ASSUME goesOn, engine'[c].saves = saves, j.kind # "savepoint" \/ ~ok
        PROVE  Marks(f)'
    BY <1>2, <1>4, <1>6, MarksFollow
  <1>7. ASSUME j.kind \in {"begin", "commit", "rollback"}
        PROVE  Marks(f)'
    BY <1>4, <1>7 DEF Marks
  <1>8. ASSUME goesOn, j.kind = "rollbackTo" \/ (j.kind = "releaseSavepoint" /\ ok),
               NEW i \in Named(c, j.scope), NEW m \in {i - 1, i}, engine'[c].saves = SubSeq(saves, 1, m)
        PROVE  Marks(f)'
    <2>1. LastOf(saves, scope[s].depth, i)
      BY <1>2, <1>8, NamedIsLast DEF Deep
    <2>2. m \in 0..Len(saves) /\ i \in 1..Len(saves)
      BY <1>3, <2>1, LenProperties DEF LastOf
    <2>3. ASSUME NEW x \in Marked(f)', NEW k \in Nat, LastOf(saves, scope[x].depth, k)
          PROVE  LastOf(SubSeq(saves, 1, m), scope[x].depth, k)
      <3>1. PICK a \in DOMAIN saves : LastOf(saves, scope[s].depth, a)
                                     /\ \E b \in DOMAIN saves : LastOf(saves, scope[x].depth, b) /\ b < a
        BY <1>4, <1>8 DEF Marks
      <3>2. a = i
        BY <1>3, <2>1, <3>1, OneLast
      <3>3. PICK b \in DOMAIN saves : LastOf(saves, scope[x].depth, b) /\ b < i
        BY <3>1, <3>2
      <3>4. k = b
        BY <1>3, <2>3, <3>3, OneLast
      <3>5. k <= m
        BY <2>2, <2>3, <3>3, <3>4
      <3> QED
        BY <1>3, <2>2, <2>3, <3>5, LastAfterCut
    <2>4. Marked(f)' \subseteq Marked(f)
      BY <1>4, <1>8
    <2> QED
      BY <1>2, <1>8, <2>3, <2>4, MarksFollow
  <1>9. ASSUME goesOn, j.kind = "savepoint", ok,
                engine'[c].saves = Append(saves, [depth |-> scope[j.scope].depth, writes |-> engine[c].writes])
         PROVE  Marks(f)'
    <2> DEFINE save == [depth |-> scope[s].depth, writes |-> engine[c].writes]
               later == Append(saves, save)
               d(x) == scope[x].depth
    <2>1. engine'[c].saves = later /\ (engine[SlotOf(on[f])].saves)' = later
      BY <1>2, <1>9 DEF Deep, SlotOf
    <2>2. save \in Savepoint
      BY <1>4, <1>9, FlowAssumption DEF Deep, Savepoint, FateInv, HeldInv, TypeInv, TypeOK, Session, SlotOf
    <2>4. \A x \in Marked(f)' : x = s \/ (x \in Marked(f) /\ d(x) < d(s))
      BY <1>4, <1>9
    <2> DEFINE n == Len(saves)
    <2>5. n \in Nat /\ DOMAIN saves = 1..n
      BY <1>3, LenProperties
    <2>6. LastOf(later, d(s), n + 1) /\ \A x, i : d(x) # d(s) /\ LastOf(saves, d(x), i) => LastOf(later, d(x), i)
      BY <1>3, <2>2, LastAfterAppend
    <2>7. \A x, k : LastOf(later, d(x), k) => k \in DOMAIN later
      BY DEF LastOf
    <2>8. \A x \in Marked(f)' \ {s} : d(x) < d(s) /\ d(x) # d(s) /\ d(x) \in Nat /\ d(s) \in Nat
      BY <1>4, <1>9, <2>4 DEF Deep
    <2>9. \A x \in Marked(f)' \ {s} :
             \E i \in DOMAIN saves :
                /\ LastOf(saves, d(x), i)
                /\ \A y \in Marked(f) : d(y) < d(x) => \E k \in DOMAIN saves : LastOf(saves, d(y), k) /\ k < i
      BY <1>9, <2>4 DEF Marks
    <2> HIDE DEF d, n, later, save, saves
    <2>10. ASSUME NEW x \in Marked(f)'
           PROVE  \E i \in DOMAIN later :
                    /\ LastOf(later, d(x), i)
                    /\ \A y \in Marked(f)' : d(y) < d(x) =>
                          \E k \in DOMAIN later : LastOf(later, d(y), k) /\ k < i
      <3>1. CASE x = s
        <4>1. ASSUME NEW y \in Marked(f)', d(y) < d(x)
              PROVE  \E k \in DOMAIN later : LastOf(later, d(y), k) /\ k < n + 1
          <5>1. y # s
            <6>1. d(s) \in Nat
              BY <1>4, <1>9 DEF d, Deep
            <6> QED
              BY <3>1, <4>1, <6>1
          <5>2. PICK i \in DOMAIN saves : LastOf(saves, d(y), i)
            BY <2>9, <5>1
          <5>3. LastOf(later, d(y), i)
            BY <2>6, <2>8, <5>1, <5>2
          <5> QED
            BY <2>5, <2>7, <5>2, <5>3
        <4> QED
          BY <2>6, <2>7, <3>1, <4>1
      <3>2. CASE x # s
        <4>1. PICK i \in DOMAIN saves :
                  /\ LastOf(saves, d(x), i)
                  /\ \A y \in Marked(f) : d(y) < d(x) => \E k \in DOMAIN saves : LastOf(saves, d(y), k) /\ k < i
          BY <2>9, <3>2
        <4>2. LastOf(later, d(x), i) /\ i \in DOMAIN later
          BY <2>6, <2>7, <2>8, <3>2, <4>1
        <4>3. ASSUME NEW y \in Marked(f)', d(y) < d(x)
              PROVE  \E k \in DOMAIN later : LastOf(later, d(y), k) /\ k < i
          <5>1. y # s
            BY <2>8, <3>2, <4>3
          <5>2. PICK k \in DOMAIN saves : LastOf(saves, d(y), k) /\ k < i
            BY <2>4, <4>1, <4>3, <5>1
          <5>3. LastOf(later, d(y), k)
            BY <2>6, <2>8, <5>1, <5>2
          <5> QED
            BY <2>7, <5>2, <5>3
        <4> QED
          BY <4>2, <4>3
      <3> QED
        BY <3>1, <3>2
    <2>11. \A x : scope'[x].depth = d(x)
      BY <1>2 DEF d
    <2> QED
      BY <2>1, <2>10, <2>11 DEF Marks
  <1>10. CASE engine'[c].tx # NoScope /\ j.kind \notin {"begin", "commit", "rollback"}
    <2>1. goesOn
      BY <1>o, <1>10
    <2> HIDE DEF goesOn
    <2> QED
      BY <1>5, <1>6, <1>8, <1>9, <1>10, <2>1 DEF Changes, goesOn
  <1> QED
    BY <1>n, <1>7, <1>10

\* What changes a connection's session is the business of the one flow whose transaction holds it, but
\* that a command of another flow on its handle may be the one it ends at.
LEMMA ItsOwnSession ==
    ASSUME FateInv, NEW f \in Flow, NEW ok \in BOOLEAN, Answers(f, ok), ByItself(f),
           NEW g \in Flow \ {f}, InOwn(g), pc[g] # "claim"
    PROVE  LET e == engine[SlotOf(on[g])]
               later == engine'[SlotOf(on[g])]
           IN  \/ later.tx = e.tx /\ later.saves = e.saves
               \/ later.tx = NoScope /\ (e.tx # NoScope => e.tx \in undone')
  <1>1. HeldInv
    BY DEF FateInv
  <1>2. CASE SlotOf(on[g]) # SlotOf(on[f])
    <2>1. SlotOf(on[g]) \in Connection
      BY <1>1, FlowAssumption DEF HeldInv, TypeInv, TypeOK, SlotOf
    <2> QED
      BY <1>2, <2>1 DEF Answers
  <1>3. CASE SlotOf(on[g]) = SlotOf(on[f])
    <2>1. job[f].kind \notin Deep \cup {"begin", "commit", "rollback"}
      <3> SUFFICES ASSUME job[f].kind \in Deep \cup {"begin", "commit", "rollback"} PROVE FALSE
        OBVIOUS
      <3>1. ctx[f] \in Scope
        BY Settles
      <3>2. InOwn(f) /\ pc[f] # "claim"
        BY <3>1, InsideOwn, FlowAssumption DEF Answers
      <3> QED
        BY <1>1, <1>3, <3>2, OneOwner
    <2>2. Changes(f, ok)
      BY DEF Answers
    <2>3. engine'[SlotOf(on[f])].saves = engine[SlotOf(on[f])].saves \/ engine'[SlotOf(on[f])].tx = NoScope
      BY <2>1, <2>2 DEF Changes, Deep
    <2>4. LET e == engine[SlotOf(on[f])]
              later == engine'[SlotOf(on[f])]
          IN  later.tx = e.tx \/ (later.tx = NoScope /\ undone' = undone \cup ({e.tx} \ {NoScope}))
      BY <2>1 DEF Answers, Deep
    <2> QED
      BY <1>3, <2>3, <2>4
  <1> QED
    BY <1>2, <1>3

\* A flow with savepoints holds its connection.
LEMMA MarkedHolds ==
    ASSUME FateInv, NEW g \in Flow, ByItself(g), Marked(g) # {}
    PROVE  InOwn(g) /\ pc[g] # "claim"
  <1>1. PICK x \in Marked(g) : x \in Lineage(ctx[g]) /\ scope[x].parent # NoScope /\ ctx[g] # NoScope
    BY MarkedAround DEF Marked
  <1>2. pc[g] # "claim"
    <2> SUFFICES ASSUME pc[g] = "claim" PROVE FALSE
      OBVIOUS
    <2>1. AtRoot(g)
      BY DEF FateInv, HeldInv, FlowInv, Sends
    <2>2. Lineage(ctx[g]) = {ctx[g]}
      BY <1>1, <2>1, InsideOwn, AroundRoot DEF AtRoot
    <2> QED
      BY <1>1, <2>1, <2>2 DEF AtRoot
  <1> QED
    BY <1>1, <1>2, InsideOwn

LEMMA AnswerKeepsMarks ==
    ASSUME FateInv, Outermost, \A g \in Flow : ByItself(g) /\ Marks(g),
           NEW f \in Flow, NEW ok \in BOOLEAN, Answers(f, ok), NEW g \in Flow
    PROVE  Marks(g)'
  <1>1. HeldInv
    BY DEF FateInv
  <1>2. CASE g = f
    BY <1>2, AnswerKeepsOwnMarks
  <1>3. CASE g # f /\ Marked(g) = {}
    BY <1>3, AnswerStaysByItself DEF Marks
  <1>4. CASE g # f /\ Marked(g) # {}
    <2>1. Marked(g)' = Marked(g) /\ Kept
      BY <1>4, AnswerStaysByItself
    <2>2. InOwn(g) /\ pc[g] # "claim"
      BY <1>4, MarkedHolds
    <2>3. engine'[SlotOf(on[g])].tx # NoScope => /\ engine[SlotOf(on[g])].tx # NoScope
                                                /\ engine'[SlotOf(on[g])].saves = engine[SlotOf(on[g])].saves
      BY <1>4, <2>2, ItsOwnSession
    <2>4. on'[g] = on[g]
      BY <1>4 DEF Answers, Steady
    <2> QED
      BY <2>1, <2>3, <2>4, MarksFollow
  <1> QED
    BY <1>2, <1>3, <1>4

LEMMA RootIsOwn ==
    ASSUME HeldInv, NEW f \in Flow, AtRoot(f)
    PROVE  /\ ctx[f] \in Scope /\ Used(ctx[f]) /\ RootOf(ctx[f]) = ctx[f]
           /\ InOwn(f)
  <1>1. ctx[f] \in Scope /\ Used(ctx[f])
    BY DEF AtRoot, HeldInv, FlowInv, Calls, TypeInv, TypeOK
  <1>2. RootOf(ctx[f]) = ctx[f]
    BY <1>1 DEF AtRoot, HeldInv, Scopes, RootMade
  <1> QED
    BY <1>1, <1>2 DEF AtRoot, InOwn

\* A COMMIT that failed left its transaction open, or the database undid it.
LEMMA AnswerKeepsAborts ==
    ASSUME FateInv, Outermost, \A g \in Flow : ByItself(g) /\ Aborts(g),
           NEW f \in Flow, NEW ok \in BOOLEAN, Answers(f, ok), NEW g \in Flow
    PROVE  Aborts(g)'
  <1>1. HeldInv
    BY DEF FateInv
  <1>2. scope' = scope /\ on' = on /\ undone \subseteq undone'
    BY Settles, AnswerEnds
  <1>3. SlotOf(on[g])' = SlotOf(on[g])
    BY <1>2 DEF SlotOf
  <1>4. CASE g = f
    <2> SUFFICES ASSUME pc'[f] = "abort", AtRoot(f)'
                 PROVE  engine'[SlotOf(on[f])].tx = ctx'[f] \/ ctx'[f] \in undone'
      <3>1. pc'[f] \in {"run", "callbacks", "abort"}
        BY Settles
      <3> QED
        BY <1>3, <1>4, <3>1 DEF Aborts, Asks
    <2>1. job[f].kind \in {"commit", "releaseSavepoint"} /\ ~ok
      <3>1. pc'[f] = NextPlace(job[f], ok)
        BY <1>1 DEF Answers, Settle, HeldInv, TypeInv, TypeOK
      <3> QED
        BY <3>1 DEF NextPlace
    <2>2. ctx'[f] = ctx[f]
      BY <2>1, Settles
    <2>3. job[f].kind = "commit"
      <3> SUFFICES ASSUME job[f].kind = "releaseSavepoint" PROVE FALSE
        BY <2>1
      <3>1. scope[ctx[f]].parent # NoScope
        BY Settles DEF Deep
      <3> QED
        BY <1>2, <2>2, <3>1 DEF AtRoot
    <2>4. AtRoot(f)
      BY <1>2, <2>2 DEF AtRoot
    <2>5. (engine[SlotOf(on[f])].tx = ctx[f] \/ ctx[f] \in undone) /\ ctx[f] # NoScope
      <3>1. RootOf(ctx[f]) = ctx[f] /\ InOwn(f)
        BY <1>1, <2>4, RootIsOwn
      <3>2. Open(f) /\ pc[f] \in {"call", "queued"}
        BY <1>1 DEF HeldInv, FlowInv, Answers
      <3> QED
        BY <2>3, <2>4, <3>1, <3>2 DEF Open, Asks, AtRoot, Gone
    <2> QED
      BY <1>2, <2>1, <2>2, <2>3, <2>5 DEF Answers
  <1>5. CASE g # f
    <2>1. Steady(g)
      BY <1>5 DEF Answers
    <2> SUFFICES ASSUME Asks(g, {"rollback"}) \/ (pc[g] = "abort" /\ AtRoot(g))
                 PROVE  engine'[SlotOf(on[g])].tx = ctx[g] \/ ctx[g] \in undone'
      BY <1>2, <1>3, <2>1 DEF Aborts, Asks, AtRoot, Steady
    <2>2. AtRoot(g) /\ pc[g] # "claim"
      BY <1>1 DEF HeldInv, FlowInv, Sends, Asks
    <2>3. LET e == engine[SlotOf(on[g])]
              later == engine'[SlotOf(on[g])]
          IN  later.tx = e.tx \/ (e.tx # NoScope => e.tx \in undone')
      BY <1>1, <1>5, <2>2, RootIsOwn, ItsOwnSession
    <2>4. Aborts(g)
      OBVIOUS
    <2> QED
      BY <1>2, <2>2, <2>3, <2>4 DEF Aborts, AtRoot
  <1> QED
    BY <1>4, <1>5

LEMMA OwnKeepsAborts ==
    ASSUME FateInv, \A g \in Flow : ByItself(g) /\ Aborts(g), Kept,
           NEW f \in Flow, UserStep(f) \/ FlowStep(f), ~Refuse(f), NEW g \in Flow
    PROVE  Aborts(g)'
  <1>1. HeldInv
    BY DEF FateInv
  <1>2. UNCHANGED <<engine, undone>> /\ on'[g] = on[g]
    <2>1. g # f => Steady(g)
      BY <1>1, OthersStay DEF ByItself, Starts
    <2> QED
      BY <1>1, <2>1, StepGoes, FlowFrame DEF Goes, Steady
  <1>3. SlotOf(on[g])' = SlotOf(on[g])
    BY <1>2 DEF SlotOf
  <1>4. ctx[g] # NoScope => ctx[g] \in Scope /\ scope'[ctx[g]] = scope[ctx[g]]
    BY <1>1 DEF HeldInv, FlowInv, Calls, TypeInv, TypeOK, Kept
  <1>5. Aborts(g)
    OBVIOUS
  <1>6. ASSUME pc'[g] = pc[g] /\ job'[g] = job[g] /\ ctx'[g] = ctx[g]
        PROVE  Aborts(g)'
    BY <1>2, <1>3, <1>4, <1>5, <1>6 DEF Aborts, Asks, AtRoot
  <1>7. CASE g # f
    <2>1. Steady(g)
      BY <1>1, <1>7, OthersStay DEF ByItself, Starts
    <2> QED
      BY <1>6, <2>1 DEF Steady
  <1>8. CASE g = f
    <2>1. Opens(f) \/ Nests(f) \/ GoesIn(f) \/ GoesOut(f) \/ Remains(f)
      BY <1>1, FlowMoves
    <2>2. CASE Opens(f) \/ Nests(f) \/ GoesIn(f)
      <3>1. pc[f] = "nest" => job[f].kind = "savepoint"
        BY <1>1 DEF HeldInv, FlowInv, Sends
      <3>2. ~Asks(f, {"rollback"})' /\ pc'[f] # "abort"
        BY <2>2, <3>1 DEF Opens, Nests, GoesIn, Asks
      <3> QED
        BY <1>8, <3>2 DEF Aborts
    <2>3. CASE GoesOut(f)
      <3> SUFFICES ASSUME Asks(f, {"rollback"})'
                   PROVE  engine[SlotOf(on[f])].tx = ctx[f] \/ ctx[f] \in undone
        BY <1>2, <1>3, <1>8, <2>3 DEF Aborts, GoesOut
      <3>1. AtRoot(f)
        BY <2>3 DEF GoesOut, Asks, AtRoot, InCallback
      <3>2. RootOf(ctx[f]) = ctx[f] /\ InOwn(f)
        BY <1>1, <3>1, RootIsOwn
      <3>3. Open(f) /\ pc[f] \in {"run", "abort"}
        BY <1>1, <2>3 DEF HeldInv, FlowInv, GoesOut
      <3> QED
        BY <1>5, <1>8, <3>1, <3>2, <3>3 DEF Open, Asks, Aborts, Gone
    <2>4. CASE Remains(f)
      <3>1. pc[f] = "claim" => job[f].kind = "begin"
        BY <1>1 DEF HeldInv, FlowInv, Sends
      <3>2. CASE pc[f] = "call" /\ job'[f] = job[f]
        BY <1>2, <1>3, <1>4, <1>5, <1>8, <2>4, <3>2 DEF Remains, Aborts, Asks, AtRoot
      <3>3. CASE ~(pc[f] = "call" /\ job'[f] = job[f])
        BY <1>8, <2>4, <3>1, <3>3 DEF Remains, Aborts, Asks
      <3> QED
        BY <3>2, <3>3
    <2> QED
      BY <2>1, <2>2, <2>3, <2>4
  <1> QED
    BY <1>7, <1>8

LEMMA AnswerKeepsLinear ==
    ASSUME LinearInv, FateInv', NEW f \in Flow, NEW ok \in BOOLEAN, Answers(f, ok)
    PROVE  LinearInv'
  <1>1. FateInv /\ Outermost /\ \A g \in Flow : ByItself(g) /\ Marks(g) /\ Aborts(g)
    BY DEF LinearInv
  <1>2. \A g \in Flow : ByItself(g)' /\ Outermost'
    BY <1>1, AnswerStaysByItself
  <1>3. \A g \in Flow : Marks(g)' /\ Aborts(g)'
    BY <1>1, AnswerKeepsMarks, AnswerKeepsAborts
  <1> QED
    BY <1>2, <1>3 DEF LinearInv

LEMMA OwnKeepsLinear ==
    ASSUME LinearInv, FateInv', Kept, NEW f \in Flow, UserStep(f) \/ FlowStep(f), ~Refuse(f)
    PROVE  LinearInv'
  <1>1. FateInv /\ HeldInv /\ Outermost /\ \A g \in Flow : ByItself(g) /\ Marks(g) /\ Aborts(g)
    BY DEF LinearInv, FateInv
  <1>2. /\ Outermost'
        /\ \A g \in Flow : ByItself(g)' /\ Marked(g)' \subseteq Marked(g)
        /\ \A g \in Flow \ {f} : Steady(g)
    BY <1>1, OwnStaysByItself
  <1>3. engine' = engine /\ \A g \in Flow : on'[g] = on[g]
    BY <1>1, <1>2, FlowFrame DEF Steady
  <1>4. \A g \in Flow : Marks(g)'
    BY <1>1, <1>2, <1>3, MarksFollow
  <1>5. \A g \in Flow : Aborts(g)'
    BY <1>1, OwnKeepsAborts
  <1> QED
    BY <1>2, <1>4, <1>5 DEF LinearInv

LEMMA IdleKeepsLinear ==
    ASSUME LinearInv, FateInv', UNCHANGED vars
    PROVE  LinearInv'
  <1>1. UNCHANGED <<scope, pc, job, ctx, on, engine, undone>>
    BY DEF vars, slotVars, flowVars, engineVars
  <1>2. Outermost'
    BY <1>1 DEF LinearInv, Outermost, Used
  <1>3. ASSUME NEW f \in Flow PROVE ByItself(f)' /\ Marks(f)' /\ Aborts(f)'
    <2>1. ByItself(f) /\ Marks(f) /\ Aborts(f)
      BY DEF LinearInv
    <2>2. Lineage(ctx[f])' = Lineage(ctx[f]) /\ Asks(f, {"savepoint"})' = Asks(f, {"savepoint"})
      BY <1>1 DEF Lineage, Asks
    <2>3. Marked(f)' = Marked(f)
      BY <1>1, <2>2 DEF Marked
    <2>4. Marks(f)'
      BY <1>1, <2>1, <2>3 DEF Marks, SlotOf
    <2>5. ByItself(f)' /\ Aborts(f)'
      BY <1>1, <2>1, <2>2 DEF ByItself, Aborts, Asks, AtRoot, SlotOf
    <2> QED
      BY <2>4, <2>5
  <1> QED
    BY <1>2, <1>3 DEF LinearInv

\* What a step is, to these invariants: an answer, a refusal among them, or a flow's own.
LEMMA StepIs ==
    ASSUME HeldInv, [Next]_vars
    PROVE  \/ \E f \in Flow, ok \in BOOLEAN : Answers(f, ok)
           \/ \E f \in Flow : (UserStep(f) \/ FlowStep(f)) /\ ~Refuse(f)
           \/ UNCHANGED vars
  <1>1. ASSUME NEW q \in Querier, QuerierStep(q)
        PROVE  \E f \in Flow, ok \in BOOLEAN : Answers(f, ok)
    <2>1. Caller(q) \in Flow
      BY <1>1, CallerWaits, QuerierFrame
    <2> QED
      BY <1>1, <2>1, TaskAnswers
  <1> QED
    BY <1>1, RefusalAnswers DEF Next

LEMMA NextLinear ==
    ASSUME LinearInv, [Next]_vars
    PROVE  LinearInv'
  <1>1. FateInv /\ HeldInv /\ Lineages
    BY DEF LinearInv, FateInv
  <1>2. FateInv' /\ Kept
    BY <1>1, NextFate, LineagesStay
  <1> QED
    BY <1>1, <1>2, StepIs, AnswerKeepsLinear, OwnKeepsLinear, IdleKeepsLinear

LEMMA InitLinear ==
    ASSUME NothingByHand, NoBranches, Init
    PROVE  LinearInv
  <1>1. FateInv
    BY InitFate
  <1>2. \A f \in Flow : pc[f] = "run" /\ ctx[f] = NoScope
    BY DEF Init, NoBranches
  <1>3. \A f \in Flow : Lineage(ctx[f]) = {}
    BY <1>2 DEF Lineage
  <1>4. \A f \in Flow : ByItself(f) /\ Marks(f) /\ Aborts(f)
    BY <1>2, <1>3 DEF ByItself, Marks, Marked, Aborts, Asks
  <1>5. Outermost
    BY DEF Init, Outermost, Used, Unused
  <1> QED
    BY <1>1, <1>4, <1>5 DEF LinearInv

-----------------------------------------------------------------------------
(***************************************************************************)
(* The callbacks of such a flow.  Where no stream is read either no call   *)
(* is refused, so a ROLLBACK or ROLLBACK TO reaches the database.          *)
(***************************************************************************)
\* What a flow is about to open has gathered nothing.
Unregistered(f) ==
    pc[f] \in {"claim", "nest"} \/ Asks(f, {"begin", "savepoint"}) => onCommit[job[f].scope] = {}

\* What dropped a callback: its transaction was undone, or a nested one around it was, or would not be.
Dropped(s) == RootOf(s) \in undone \/ ~(Lineage(s) \cap (undone \cup spoiled) \subseteq {RootOf(s)})

\* A callback runs or is dropped, or is carried by a scope its flow is in, or by the root that committed.
Carried(s) ==
    s \in onCommit[s] =>
       LET f == scope[s].flow IN
       \/ s \in ran
       \/ Dropped(s)
       \/ \E u \in Lineage(s) : /\ s \in onCommit[u]
                                /\ u \in Lineage(ctx[f]) \/ (pc[f] = "callbacks" /\ job[f].scope = u)

LostInv ==
    /\ StillInv /\ LinearInv
    /\ \A f \in Flow : Unregistered(f)
    /\ \A s \in Scope : Carried(s)

LEMMA OwnKeepsUnregistered ==
    ASSUME LostInv, Kept, NEW f \in Flow, UserStep(f) \/ FlowStep(f), ~Refuse(f), NEW g \in Flow
    PROVE  Unregistered(g)'
  <1>1. /\ FateInv /\ HeldInv /\ Gathered
        /\ Unregistered(g) /\ ByItself(f) /\ ByItself(g)
        /\ onCommit \in [Scope -> SUBSET Scope]
    BY DEF LostInv, LinearInv, FateInv, HeldInv, TypeInv, TypeOK
  <1>2. Goes(f)
    BY <1>1, StepGoes
  <1>3. CASE g # f
    <2>1. Steady(g)
      BY <1>1, <1>3, OthersStay DEF ByItself, Starts
    <2>2. SUFFICES ASSUME pc[g] \in {"claim", "nest"} \/ Asks(g, {"begin", "savepoint"})
                   PROVE  onCommit'[job[g].scope] = onCommit[job[g].scope]
      BY <1>1, <2>1 DEF Unregistered, Steady, Asks
    <2>3. job[g].scope \in Scope /\ scope[job[g].scope].flow = g
      <3>1. CASE pc[g] = "nest"
        BY <1>1, <3>1 DEF HeldInv, FlowInv, Sends, TypeInv, TypeOK, Job
      <3>2. CASE pc[g] # "nest"
        <4>1. job[g].scope = ctx[g] /\ ctx[g] # NoScope
          BY <1>1, <2>2, <3>2 DEF HeldInv, FlowInv, Sends, AtRoot, Asks
        <4> QED
          BY <1>1, <4>1, InsideOwn
      <3> QED
        BY <3>1, <3>2
    <2>4. ctx[f] # NoScope => ctx[f] \in Scope /\ scope[ctx[f]].flow = f
      BY <1>1, InsideOwn
    <2> QED
      BY <1>1, <1>2, <1>3, <2>3, <2>4 DEF Goes
  <1>4. CASE g = f
    <2>1. Opens(f) \/ Nests(f) \/ GoesIn(f) \/ GoesOut(f) \/ Remains(f)
      BY <1>1, FlowMoves
    <2>2. CASE Opens(f) \/ Nests(f)
      <3>1. PICK n \in Scope : n = NextScope /\ ~Used(n)
        <4>1. Fresh # {}
          BY <2>2 DEF Opens, Nests, Grown
        <4> QED
          BY <4>1, NextScopeType DEF Used, Unused
      <3>2. job'[f].scope = n /\ pc'[f] # "callbacks"
        BY <2>2, <3>1 DEF Opens, Nests
      <3>3. onCommit[n] = {}
        BY <1>1, <3>1 DEF Gathered
      <3>4. ctx[f] # NoScope => ctx[f] # n
        BY <1>1, <3>1, InsideOwn
      <3>5. onCommit'[n] = {}
        BY <1>1, <1>2, <3>1, <3>3, <3>4 DEF Goes
      <3> QED
        BY <1>4, <3>2, <3>5 DEF Unregistered
    <2>3. CASE GoesIn(f)
      <3>1. onCommit' = onCommit /\ job'[f] = job[f]
        BY <1>2, <2>3 DEF Goes, GoesIn
      <3> QED
        BY <1>1, <1>4, <2>3, <3>1 DEF Unregistered, GoesIn
    <2>4. CASE GoesOut(f)
      BY <1>4, <2>4 DEF GoesOut, Unregistered, Asks
    <2>5. CASE Remains(f)
      <3>1. CASE pc[f] \in {"claim", "call"} /\ job'[f] = job[f]
        <4>1. onCommit' = onCommit
          BY <1>2, <3>1 DEF Goes
        <4> QED
          BY <1>1, <1>4, <2>5, <3>1, <4>1 DEF Remains, Unregistered, Asks, HeldInv, FlowInv, Sends
      <3>2. CASE ~(pc[f] \in {"claim", "call"} /\ job'[f] = job[f])
        BY <1>4, <2>5, <3>2 DEF Remains, Unregistered, Asks
      <3> QED
        BY <3>1, <3>2
    <2> QED
      BY <2>1, <2>2, <2>3, <2>4, <2>5
  <1> QED
    BY <1>3, <1>4

LEMMA AnswerKeepsUnregistered ==
    ASSUME LostInv, NEW f \in Flow, NEW ok \in BOOLEAN, Answers(f, ok), NEW g \in Flow
    PROVE  Unregistered(g)'
  <1>1. /\ FateInv /\ HeldInv
        /\ Unregistered(g) /\ ByItself(f) /\ ByItself(g)
        /\ onCommit \in [Scope -> SUBSET Scope]
    BY DEF LostInv, LinearInv, FateInv, HeldInv, TypeInv, TypeOK
  <1>2. CASE g = f
    <2>1. pc'[f] \in {"run", "callbacks", "abort"}
      BY <1>1, Settles
    <2> QED
      BY <1>2, <2>1 DEF Unregistered, Asks
  <1>3. CASE g # f
    <2>1. Steady(g)
      BY <1>3 DEF Answers
    <2>2. SUFFICES ASSUME pc[g] \in {"claim", "nest"} \/ Asks(g, {"begin", "savepoint"}), onCommit' # onCommit
                   PROVE  onCommit'[job[g].scope] = onCommit[job[g].scope]
      BY <1>1, <2>1 DEF Unregistered, Steady, Asks
    <2>3. job[g].scope \in Scope /\ scope[job[g].scope].flow = g
      <3>1. CASE pc[g] = "nest"
        BY <1>1, <3>1 DEF HeldInv, FlowInv, Sends, TypeInv, TypeOK, Job
      <3>2. CASE pc[g] # "nest"
        <4>1. job[g].scope = ctx[g] /\ ctx[g] # NoScope
          BY <1>1, <2>2, <3>2 DEF HeldInv, FlowInv, Sends, AtRoot, Asks
        <4> QED
          BY <1>1, <4>1, InsideOwn
      <3> QED
        BY <3>1, <3>2
    <2>4. PICK s \in Scope : /\ s = ctx[f] /\ Used(s) /\ scope[s].parent # NoScope
                             /\ onCommit' = [onCommit EXCEPT ![scope[s].parent] = @ \cup onCommit[s]]
      BY <1>1, <2>2, Settles DEF Deep
    <2>5. scope[s].parent \in Lineage(s)
      <3>1. scope[s].parent \in Scope /\ Used(scope[s].parent) /\ Lineage(s) = {s} \cup Lineage(scope[s].parent)
        BY <1>1, <2>4, AroundNested
      <3>2. scope[s].parent \in Lineage(scope[s].parent)
        BY <1>1, <3>1 DEF FateInv, Lineages, LineageMade
      <3> QED
        BY <3>1, <3>2
    <2>6. scope[scope[s].parent].flow = f
      BY <1>1, <2>4, <2>5 DEF ByItself
    <2> QED
      BY <1>1, <1>3, <2>3, <2>4, <2>6
  <1> QED
    BY <1>2, <1>3

LEMMA OwnKeepsCarried ==
    ASSUME LostInv, Kept, NEW f \in Flow, UserStep(f) \/ FlowStep(f), ~Refuse(f), NEW t \in Scope
    PROVE  Carried(t)'
  <1>1. /\ FateInv /\ HeldInv /\ Lineages /\ Gathered
        /\ \A g \in Flow : ByItself(g)
        /\ onCommit \in [Scope -> SUBSET Scope] /\ Carried(t)
    BY DEF LostInv, LinearInv, FateInv, HeldInv, TypeInv, TypeOK
  <1>2. Goes(f)
    BY <1>1, StepGoes
  <1>3. UNCHANGED <<undone, spoiled>> /\ ran \subseteq ran' /\ \A u \in Scope : onCommit[u] \subseteq onCommit'[u]
    BY <1>1, <1>2 DEF Goes
  <1>4. SUFFICES ASSUME t \in onCommit'[t]
                 PROVE  Carried(t)'
    BY DEF Carried
  <1>5. Used(t)
    <2>1. CASE t \in onCommit[t]
      BY <1>1, <2>1 DEF Gathered
    <2>2. CASE t \notin onCommit[t]
      <3>1. t = ctx[f] /\ ctx[f] # NoScope
        BY <1>1, <1>2, <1>4, <2>2 DEF Goes
      <3> QED
        BY <1>1, <3>1 DEF HeldInv, FlowInv, Calls
    <2> QED
      BY <2>1, <2>2
  <1>6. PICK g \in Flow : g = scope[t].flow /\ g = scope'[t].flow
    BY <1>1, <1>5 DEF Used, Kept, HeldInv, TypeInv, TypeOK, ScopeRecord
  <1>7. /\ Lineage(t)' = Lineage(t) /\ t \in Lineage(t) /\ Lineage(t) \subseteq Scope
        /\ RootOf(t)' = RootOf(t)
    BY <1>1, <1>5, LineageStays DEF Kept, RootOf
  <1>8. ASSUME NEW u \in Lineage(t), t \in onCommit'[u], u \in Lineage(ctx[g])'
        PROVE  Carried(t)'
    BY <1>6, <1>7, <1>8 DEF Carried
  <1>9. CASE t \notin onCommit[t]
    <2>1. t = ctx[f] /\ ctx[f] # NoScope /\ ctx'[f] = ctx[f]
      BY <1>1, <1>2, <1>4, <1>9 DEF Goes
    <2>2. g = f
      BY <1>1, <1>6, <2>1, InsideOwn
    <2>3. t \in Lineage(ctx[f])'
      <3>1. Lineage(ctx[f])' = Lineage(ctx[f])
        BY <1>1, <2>1, ContextStays
      <3> QED
        BY <1>7, <2>1, <3>1
    <2> QED
      BY <1>4, <1>7, <1>8, <2>2, <2>3
  <1>10. CASE t \in ran \/ Dropped(t)
    BY <1>3, <1>7, <1>10 DEF Carried, Dropped
  <1>11. ASSUME NEW u \in Lineage(t), t \in onCommit[u],
                u \in Lineage(ctx[g]) \/ (pc[g] = "callbacks" /\ job[g].scope = u)
         PROVE  Carried(t)'
    <2>1. t \in onCommit'[u]
      BY <1>3, <1>7, <1>11
    <2>2. CASE u \in Lineage(ctx[g]) /\ ctx'[g] = ctx[g]
      <3>1. Lineage(ctx[g])' = Lineage(ctx[g])
        BY <1>1, <2>2, ContextStays
      <3> QED
        BY <1>8, <2>1, <2>2, <3>1
    <2>3. CASE g # f
      <3>1. Steady(g)
        BY <1>1, <2>3, OthersStay DEF ByItself, Starts
      <3>2. CASE u \in Lineage(ctx[g])
        BY <2>2, <3>1, <3>2 DEF Steady
      <3>3. CASE pc[g] = "callbacks" /\ job[g].scope = u
        BY <1>6, <1>7, <2>1, <3>1, <3>3 DEF Steady, Carried
      <3> QED
        BY <1>11, <3>2, <3>3
    <2>4. CASE g = f /\ pc[f] = "callbacks" /\ job[f].scope = u
      BY <1>2, <1>11, <2>4 DEF Goes, Carried
    <2>5. CASE g = f /\ u \in Lineage(ctx[f]) /\ ctx'[f] # ctx[f]
      <3>1. Opens(f) \/ GoesIn(f)
        BY <1>1, <2>5, FlowMoves DEF Nests, GoesOut, Remains
      <3>2. ~Opens(f)
        BY <1>1, <2>5, InsideOwn DEF Opens, Lineage
      <3>3. PICK n \in Scope : n = job[f].scope /\ Used(n) /\ scope[n].parent = ctx[f] /\ ctx[f] # NoScope
        BY <1>1, <3>1, <3>2 DEF GoesIn, HeldInv, FlowInv, Sends, TypeInv, TypeOK, Job
      <3>4. u \in Lineage(n)
        BY <1>1, <2>5, <3>3, AroundNested
      <3>5. Lineage(ctx[f])' = Lineage(n)
        BY <3>1, <3>2, <3>3 DEF GoesIn, Lineage
      <3> QED
        BY <1>8, <2>1, <2>5, <3>4, <3>5
    <2> QED
      BY <1>11, <2>2, <2>3, <2>4, <2>5
  <1> QED
    BY <1>1, <1>9, <1>10, <1>11, <1>6 DEF Carried

\* A scope that ends hands what it gathered to the one around it, or drops it; a root that committed carries it on.
LEMMA AnswerKeepsCarried ==
    ASSUME LostInv, NEW f \in Flow, NEW ok \in BOOLEAN, Answers(f, ok), pc[f] = "queued", NEW t \in Scope
    PROVE  Carried(t)'
  <1> DEFINE j == job[f]
  <1>1. /\ FateInv /\ HeldInv /\ Lineages /\ Gathered /\ Outermost
        /\ \A g \in Flow : ByItself(g)
        /\ Unregistered(f) /\ Marks(f) /\ Aborts(f)
        /\ onCommit \in [Scope -> SUBSET Scope] /\ Carried(t)
    BY DEF LostInv, LinearInv, FateInv, HeldInv, TypeInv, TypeOK
  <1>2. PICK s \in Scope \cup {NoScope} : s = ctx[f]
    BY <1>1 DEF HeldInv, TypeInv, TypeOK
  <1>3. /\ UNCHANGED <<scope, on>>
        /\ j.kind \in Deep =>
             /\ j.scope = s /\ s \in Scope /\ Used(s) /\ scope[s].flow = f
             /\ scope[s].parent # NoScope /\ scope[s].outer = scope[s].parent
        /\ j.kind \in {"begin", "commit", "rollback"} =>
             j.scope = s /\ s \in Scope /\ Used(s) /\ scope[s].flow = f /\ scope[s].parent = NoScope
        /\ Ends(j, ok) => j.kind \in Deep \cup {"begin", "commit", "rollback"}
        /\ j.kind \in {"commit", "releaseSavepoint"} => (Ends(j, ok) <=> ok)
        /\ j.kind \in {"begin", "savepoint"} => (Ends(j, ok) <=> ~ok)
        /\ ctx'[f] = (IF Ends(j, ok) THEN scope[s].outer ELSE s)
        /\ pc'[f] = "callbacks" <=> j.kind = "commit" /\ ok
        /\ pc'[f] = "callbacks" => job'[f] = j
        /\ j.kind = "releaseSavepoint" /\ ok => onCommit' = [onCommit EXCEPT ![scope[s].parent] = @ \cup onCommit[s]]
        /\ ~(j.kind = "releaseSavepoint" /\ ok) => onCommit' = onCommit
    BY <1>1, <1>2, Settles
  <1>4. j.kind \in Deep => LET p == scope[s].parent IN
           p \in Scope /\ Used(p) /\ Lineage(s) = {s} \cup Lineage(p) /\ s \notin Lineage(p) /\ p \in Lineage(p)
    <2> SUFFICES ASSUME j.kind \in Deep
                 PROVE  LET p == scope[s].parent IN
                        p \in Scope /\ Used(p) /\ Lineage(s) = {s} \cup Lineage(p) /\ s \notin Lineage(p) /\ p \in Lineage(p)
      OBVIOUS
    <2>1. scope[s].parent \in Scope /\ Used(scope[s].parent)
      BY <1>1, <1>3, AroundNested
    <2> QED
      BY <1>1, <1>3, <2>1, AroundNested DEF Lineages, LineageMade
  <1>5. /\ ran' = ran /\ undone \subseteq undone' /\ spoiled \subseteq spoiled'
        /\ \A u \in Scope : onCommit[u] \subseteq onCommit'[u]
    BY <1>1, <1>3, AnswerEnds, SMTT(30) DEF Answers
  <1>6. t \in onCommit'[t] => t \in onCommit[t]
    <2> SUFFICES ASSUME t \in onCommit'[t], t \notin onCommit[t] PROVE FALSE
      OBVIOUS
    <2>1. j.kind \in Deep /\ t = scope[s].parent /\ t \in onCommit[s]
      BY <1>1, <1>3 DEF Deep
    <2>2. s \in Lineage(t)
      BY <1>1, <1>3, <2>1 DEF Gathered
    <2> QED
      BY <1>4, <2>1, <2>2
  <1>7. SUFFICES ASSUME t \in onCommit'[t], t \in onCommit[t]
                 PROVE  Carried(t)'
    BY <1>6 DEF Carried
  <1>8. Used(t)
    BY <1>1, <1>7 DEF Gathered
  <1>9. PICK g \in Flow : g = scope[t].flow
    BY <1>1, <1>8 DEF Used, HeldInv, TypeInv, TypeOK, ScopeRecord
  <1>10. /\ Lineage(t)' = Lineage(t) /\ Lineage(t) \subseteq Scope
         /\ \A u \in Lineage(t) : Lineage(u) \subseteq Lineage(t) /\ RootOf(u) = RootOf(t)
         /\ RootOf(t)' = RootOf(t) /\ scope[RootOf(t)].parent = NoScope
    BY <1>1, <1>3, <1>8, LineageStays DEF Kept, Lineages, LineageMade, RootOf, HeldInv, Scopes, ScopeMade
  <1>11. ASSUME NEW u \in Lineage(t), t \in onCommit'[u],
                u \in Lineage(ctx[g])' \/ (pc'[g] = "callbacks" /\ job'[g].scope = u)
         PROVE  Carried(t)'
    BY <1>3, <1>9, <1>10, <1>11 DEF Carried
  <1>12. CASE t \in ran \/ RootOf(t) \in undone' \/ ~(Lineage(t) \cap (undone' \cup spoiled') \subseteq {RootOf(t)})
    BY <1>5, <1>10, <1>12 DEF Carried, Dropped
  <1>13. ASSUME NEW u \in Lineage(t), t \in onCommit[u],
                u \in Lineage(ctx[g]) \/ (pc[g] = "callbacks" /\ job[g].scope = u)
         PROVE  Carried(t)'
    <2>1. t \in onCommit'[u]
      BY <1>5, <1>10, <1>13
    <2>2. CASE g # f
      <3>1. Steady(g)
        BY <2>2 DEF Answers
      <3>2. Lineage(ctx[g])' = Lineage(ctx[g])
        BY <1>3, <3>1 DEF Lineage, Steady
      <3> QED
        BY <1>11, <1>13, <2>1, <3>1, <3>2 DEF Steady
    <2>3. CASE g = f
      <3>1. u \in Lineage(s)
        BY <1>2, <1>13, <2>3
      <3>2. CASE ~Ends(j, ok)
        <4>1. Lineage(ctx[f])' = Lineage(s)
          BY <1>3, <3>2 DEF Lineage
        <4> QED
          BY <1>11, <2>1, <2>3, <3>1, <4>1
      <3>3. CASE Ends(j, ok) /\ j.kind \in Deep
        <4>1. Lineage(ctx[f])' = Lineage(scope[s].parent)
          BY <1>3, <3>3 DEF Lineage
        <4>2. CASE u # s
          BY <1>4, <1>11, <2>1, <2>3, <3>1, <3>3, <4>1, <4>2
        <4>3. CASE u = s /\ j.kind = "savepoint"
          BY <1>1, <1>3, <1>13, <3>3, <4>3 DEF Unregistered, Asks
        <4>4. CASE u = s /\ j.kind = "releaseSavepoint"
          <5>1. t \in onCommit'[scope[s].parent]
            BY <1>1, <1>3, <1>4, <1>13, <3>3, <4>4
          <5>2. scope[s].parent \in Lineage(t)
            BY <1>4, <1>10, <3>3, <4>4
          <5> QED
            BY <1>4, <1>11, <2>3, <3>3, <4>1, <5>1, <5>2
        <4>5. CASE u = s /\ j.kind = "rollbackTo"
          <5>1. s \in undone' \cup spoiled'
            BY <1>3, <3>3, <4>5 DEF Answers
          <5>2. s # RootOf(t)
            BY <1>3, <1>10, <3>3
          <5> QED
            BY <1>12, <4>5, <5>1, <5>2
        <4> QED
          BY <3>3, <4>2, <4>3, <4>4, <4>5 DEF Deep
      <3>4. CASE Ends(j, ok) /\ j.kind \in {"begin", "commit", "rollback"}
        <4>1. u = s
          BY <1>1, <1>3, <3>1, <3>4, AroundRoot
        <4>2. CASE j.kind = "begin"
          BY <1>1, <1>3, <1>13, <3>4, <4>1, <4>2 DEF Unregistered, Asks
        <4>3. CASE j.kind = "commit"
          BY <1>3, <1>11, <2>1, <2>3, <3>4, <4>1, <4>3
        <4>4. CASE j.kind = "rollback"
          <5>1. engine[SlotOf(on[f])].tx = s \/ s \in undone
            BY <1>1, <1>2, <4>4 DEF Aborts, Asks
          <5>2. undone' = undone \cup ({engine[SlotOf(on[f])].tx} \ {NoScope})
            BY <4>4 DEF Answers
          <5>3. s \in undone'
            BY <1>3, <3>4, <5>1, <5>2, FlowAssumption
          <5>4. RootOf(t) = s
            BY <1>1, <1>3, <1>10, <3>4, <4>1 DEF HeldInv, Scopes, RootMade
          <5> QED
            BY <1>12, <5>3, <5>4
        <4> QED
          BY <3>4, <4>2, <4>3, <4>4
      <3> QED
        BY <1>3, <3>2, <3>3, <3>4
    <2> QED
      BY <2>2, <2>3
  <1> QED
    BY <1>1, <1>5, <1>7, <1>9, <1>12, <1>13 DEF Carried, Dropped

LEMMA NextLost ==
    ASSUME LostInv, [Next]_vars
    PROVE  LostInv'
  <1>1. StillInv /\ LinearInv /\ FateInv /\ HeldInv /\ Lineages /\ Still
    BY DEF LostInv, LinearInv, StillInv, FateInv
  <1>2. StillInv' /\ LinearInv' /\ Kept
    BY <1>1, NextStill, NextLinear, LineagesStay
  <1>3. CASE \E f \in Flow : UserStep(f) \/ FlowStep(f)
    <2>1. PICK f \in Flow : UserStep(f) \/ FlowStep(f)
      BY <1>3
    <2>2. ~Refuse(f)
      BY <1>1, FlowAssumption DEF Refuse, Still, HeldInv, TypeInv, TypeOK
    <2>3. \A g \in Flow : Unregistered(g)'
      BY <1>2, <2>1, <2>2, OwnKeepsUnregistered
    <2>4. \A t \in Scope : Carried(t)'
      BY <1>2, <2>1, <2>2, OwnKeepsCarried
    <2> QED
      BY <1>2, <2>3, <2>4 DEF LostInv
  <1>4. CASE \E q \in Querier : QuerierStep(q)
    <2>1. PICK q \in Querier : QuerierStep(q)
      BY <1>4
    <2>2. PICK f \in Flow : f = Caller(q) /\ pc[f] = "queued"
      BY <1>1, <2>1, CallerWaits, QuerierFrame
    <2>3. PICK ok \in BOOLEAN : Answers(f, ok)
      BY <1>1, <2>1, <2>2, TaskAnswers
    <2>4. \A g \in Flow : Unregistered(g)'
      BY <2>3, AnswerKeepsUnregistered
    <2>5. \A t \in Scope : Carried(t)'
      BY <2>2, <2>3, AnswerKeepsCarried
    <2> QED
      BY <1>2, <2>4, <2>5 DEF LostInv
  <1>5. CASE UNCHANGED vars
    <2>1. UNCHANGED <<scope, onCommit, pc, job, ctx, undone, spoiled, ran>>
      BY <1>5 DEF vars, slotVars, flowVars, engineVars
    <2>2. \A g \in Flow : Unregistered(g)'
      BY <2>1 DEF LostInv, Unregistered, Asks
    <2>3. ASSUME NEW t \in Scope PROVE Carried(t)'
      <3>1. Carried(t) /\ (\A u : Lineage(u)' = Lineage(u)) /\ RootOf(t)' = RootOf(t)
        BY <2>1 DEF LostInv, Lineage, RootOf
      <3>2. Dropped(t)' = Dropped(t)
        BY <2>1, <3>1 DEF Dropped
      <3> QED
        BY <2>1, <3>1, <3>2 DEF Carried, Lineage
    <2> QED
      BY <1>2, <2>2, <2>3 DEF LostInv
  <1> QED
    BY <1>3, <1>4, <1>5 DEF Next

LEMMA InitLost ==
    ASSUME NothingByHand, NoStreams, NoBranches, Init
    PROVE  LostInv
  <1>1. StillInv /\ LinearInv
    BY InitStill, InitLinear
  <1>2. \A s \in Scope : onCommit[s] = {}
    BY DEF Init
  <1>3. \A f \in Flow : pc[f] = "run"
    BY DEF Init, NoBranches
  <1>4. \A s \in Scope : Carried(s)
    BY <1>2 DEF Carried
  <1>5. \A f \in Flow : Unregistered(f)
    BY <1>3 DEF Unregistered, Asks
  <1> QED
    BY <1>1, <1>4, <1>5 DEF LostInv

\* Where each call is awaited before the next one, and no stream is read, no callback is lost: with every flow
\* between two calls, each one registered in a transaction that committed, and in no nested one that was rolled
\* back or whose ROLLBACK TO was refused, has run.  What a nested scope gathered goes to its parent as its
\* savepoint is released, what the root gathered to `runCallbacks`, and what a failure drops was undone with it: a
\* ROLLBACK finds its transaction, or the database ended that one.  A branch may register one too late.
THEOREM NoCallbackLostAlways ==
    ASSUME NothingByHand, NoStreams, NoBranches
    PROVE  Spec => []NoCallbackLost
  <1>1. Init => LostInv
    BY InitLost
  <1>2. LostInv /\ [Next]_vars => LostInv'
    BY NextLost
  <1>3. LostInv => NoCallbackLost
    <2> SUFFICES ASSUME LostInv, \A f \in Flow : pc[f] \in {"idle", "run"} /\ ~InCallback(f),
                        NEW s \in Scope, s \in onCommit[s], RootOf(s) \in committed,
                        Lineage(s) \cap (undone \cup spoiled) \subseteq {RootOf(s)}
                 PROVE  s \in ran
      BY DEF NoCallbackLost
    <2>1. FateInv /\ Gathered /\ Carried(s) /\ \A f \in Flow : ByItself(f)
      BY DEF LostInv, LinearInv, FateInv
    <2>2. PICK f \in Flow : f = scope[s].flow
      BY <2>1 DEF Gathered, Used, FateInv, HeldInv, TypeInv, TypeOK, ScopeRecord
    <2>3. ctx[f] = NoScope
      BY <2>1, InsideOwn DEF InCallback
    <2>4. Lineage(ctx[f]) = {} /\ pc[f] # "callbacks"
      BY <2>3 DEF Lineage
    <2>5. ~Dropped(s)
      BY <2>1 DEF Dropped, FateInv, CommittedAreRoots
    <2> QED
      BY <2>1, <2>2, <2>4, <2>5 DEF Carried
  <1> QED
    BY <1>1, <1>2, <1>3, PTL DEF Spec

-----------------------------------------------------------------------------
(***************************************************************************)
(* The writes of such a flow, where no handle is shared: those since a     *)
(* savepoint are of the nested transaction that took it.                   *)
(***************************************************************************)
Begins(early, late) ==
    /\ Len(early) <= Len(late)
    /\ \A k \in 1..Len(early) : early[k] = late[k]

\* What a savepoint goes back to is where the writes began, as they did for each later one.
Stacked(session) ==
    \A i \in DOMAIN session.saves :
        /\ Begins(session.saves[i].writes, session.writes)
        /\ \A k \in DOMAIN session.saves : i < k => Begins(session.saves[i].writes, session.saves[k].writes)

\* A queued statement was sent from where its flow still is.
Within(q) == \A i \in 1..Len(queue[q]) : queue[q][i].within \in {NoScope, ctx[queue[q][i].flow]}

WritesUsed(session) == \A k \in DOMAIN session.writes : session.writes[k] # NoScope /\ Used(session.writes[k])

OwnSince(f) ==
    LET e == engine[SlotOf(on[f])] IN
    \A x \in Marked(f), i \in DOMAIN e.saves :
        LastOf(e.saves, scope[x].depth, i) =>
            \A k \in DOMAIN e.writes : k > Len(e.saves[i].writes) => x \in Lineage(e.writes[k])

SessionInv ==
    /\ LinearInv /\ ApartInv
    /\ \A q \in Querier : Within(q)
    /\ \A c \in Connection : Stacked(engine[c]) /\ WritesUsed(engine[c])
    /\ \A f \in Flow : OwnSince(f)

\* Every element of a beginning is the one at its place in the whole.
LEMMA BeginsWithin ==
    ASSUME NEW T, NEW early \in Seq(T), NEW late \in Seq(T), Begins(early, late)
    PROVE  \A k \in DOMAIN early : k \in DOMAIN late /\ early[k] = late[k]
  <1>1. /\ DOMAIN early = 1..Len(early) /\ Len(early) \in Nat
        /\ DOMAIN late = 1..Len(late) /\ Len(late) \in Nat
    BY LenProperties
  <1> QED
    BY <1>1 DEF Begins

LEMMA BeginsAppend ==
    ASSUME NEW early \in Seq(Scope \cup {NoScope}), NEW late \in Seq(Scope \cup {NoScope}),
           NEW w \in Scope \cup {NoScope}, Begins(early, late)
    PROVE  Begins(early, Append(late, w))
  <1>1. /\ Len(early) \in Nat /\ Len(late) \in Nat /\ Len(Append(late, w)) = Len(late) + 1
        /\ \A k \in 1..Len(late) : Append(late, w)[k] = late[k]
    BY AppendProperties, LenProperties
  <1> QED
    BY <1>1 DEF Begins

LEMMA StackedAppend ==
    ASSUME NEW session \in Session, Stacked(session), NEW save \in Savepoint, save.writes = session.writes,
           NEW later \in Session, later.writes = session.writes, later.saves = Append(session.saves, save)
    PROVE  Stacked(later)
  <1> DEFINE saves == session.saves
             n == Len(saves)
  <1>1. saves \in Seq(Savepoint) /\ session.writes \in Seq(Scope \cup {NoScope})
    BY DEF Session
  <1>2. n \in Nat /\ DOMAIN saves = 1..n
    BY <1>1, LenProperties
  <1>3. DOMAIN later.saves = 1..n + 1 /\ later.saves[n + 1] = save /\ \A k \in 1..n : later.saves[k] = saves[k]
    BY <1>1, <1>2, AppendProperties
  <1>4. Begins(session.writes, session.writes)
    BY <1>1, LenProperties DEF Begins
  <1>5. \A i \in 1..n : /\ Begins(saves[i].writes, session.writes)
                        /\ \A k \in 1..n : i < k => Begins(saves[i].writes, saves[k].writes)
    BY <1>2 DEF Stacked
  <1> HIDE DEF saves, n
  <1>6. ASSUME NEW i \in 1..n + 1
        PROVE  /\ Begins(later.saves[i].writes, later.writes)
               /\ \A k \in 1..n + 1 : i < k => Begins(later.saves[i].writes, later.saves[k].writes)
    <2>0. \A k \in 1..n + 1 : k = n + 1 \/ k \in 1..n
      BY <1>2
    <2>1. CASE i = n + 1
      <3>1. \A k \in 1..n + 1 : ~(i < k)
        BY <1>2, <2>1
      <3> QED
        BY <1>3, <1>4, <2>1, <3>1
    <2>2. CASE i \in 1..n
      <3>1. ASSUME NEW k \in 1..n + 1, i < k PROVE Begins(later.saves[i].writes, later.saves[k].writes)
        <4>1. CASE k = n + 1
          BY <1>3, <1>5, <2>2, <4>1
        <4>2. CASE k \in 1..n
          BY <1>3, <1>5, <2>2, <3>1, <4>2
        <4> QED
          BY <2>0, <4>1, <4>2
      <3> QED
        BY <1>3, <1>5, <2>2, <3>1
    <2> QED
      BY <2>0, <2>1, <2>2
  <1> QED
    BY <1>3, <1>6 DEF Stacked

LEMMA StackedCut ==
    ASSUME NEW session \in Session, Stacked(session), NEW later \in Session,
           NEW m \in 0..Len(session.saves), later.saves = SubSeq(session.saves, 1, m),
           \/ later.writes = session.writes
           \/ m # 0 /\ later.writes = session.saves[m].writes
    PROVE  Stacked(later)
  <1> DEFINE saves == session.saves
  <1>1. saves \in Seq(Savepoint)
    BY DEF Session
  <1>2. Len(saves) \in Nat /\ DOMAIN saves = 1..Len(saves)
    BY <1>1, LenProperties
  <1>3. DOMAIN later.saves = 1..m /\ \A k \in 1..m : later.saves[k] = saves[k] /\ k \in DOMAIN saves
    BY <1>1, <1>2, SubSeqProperties
  <1>4. ASSUME NEW i \in 1..m PROVE Begins(saves[i].writes, later.writes)
    <2>1. CASE later.writes = session.writes
      BY <1>3, <2>1 DEF Stacked
    <2>2. CASE m # 0 /\ later.writes = saves[m].writes /\ i # m
      <3>1. m \in 1..m /\ i < m
        BY <1>2, <2>2
      <3> QED
        BY <1>3, <2>2, <3>1 DEF Stacked
    <2>3. CASE later.writes = saves[m].writes /\ i = m
      <3>1. saves[m] \in Savepoint
        BY <1>1, <1>2, <1>3, <2>3, ElementOfSeq
      <3>2. saves[m].writes \in Seq(Scope \cup {NoScope})
        BY <3>1 DEF Savepoint
      <3> QED
        BY <2>3, <3>2, LenProperties DEF Begins
    <2> QED
      BY <2>1, <2>2, <2>3
  <1> QED
    BY <1>3, <1>4 DEF Stacked

LEMMA AnswerKeepsStacked ==
    ASSUME FateInv, TypeInv', NEW f \in Flow, NEW ok \in BOOLEAN, Answers(f, ok),
           \A c \in Connection : Stacked(engine[c]),
           NEW d \in Connection
    PROVE  Stacked(engine'[d])
  <1> DEFINE c == SlotOf(on[f])
             e == engine[c]
             later == engine'[c]
             j == job[f]
  <1>1. HeldInv /\ c \in Connection /\ e \in Session /\ later \in Session /\ Stacked(e) /\ Changes(f, ok)
    BY FlowAssumption DEF FateInv, HeldInv, TypeInv, TypeOK, SlotOf, Answers
  <1>2. SUFFICES ASSUME d = c PROVE Stacked(later)
    BY DEF Answers
  <1>3. CASE later.writes = e.writes /\ later.saves = e.saves
    BY <1>1, <1>3 DEF Stacked
  <1>4. CASE later.writes = <<>> /\ later.saves = <<>>
    BY <1>4 DEF Stacked
  <1>5. CASE /\ Running(on[f], {"statement"})
             /\ later.writes = Append(e.writes, Head(queue[on[f]]).within) /\ later.saves = e.saves
    <2> DEFINE w == Head(queue[on[f]]).within
    <2>1. w \in Scope \cup {NoScope}
      <3>1. on[f] \in Querier /\ queue[on[f]] # <<>> /\ TypeOK
        BY <1>1, <1>5 DEF Running, HeldInv, TypeInv, TypeOK
      <3> QED
        BY <3>1, TaskType DEF Task
    <2>2. e.writes \in Seq(Scope \cup {NoScope}) /\ e.saves \in Seq(Savepoint)
      BY <1>1 DEF Session
    <2>3. \A i \in DOMAIN e.saves : e.saves[i].writes \in Seq(Scope \cup {NoScope})
      <3>1. \A i \in DOMAIN e.saves : e.saves[i] \in Savepoint
        BY <2>2, LenProperties, ElementOfSeq
      <3> QED
        BY <3>1 DEF Savepoint
    <2> HIDE DEF w
    <2>4. \A i \in DOMAIN e.saves : Begins(e.saves[i].writes, Append(e.writes, w))
      BY <1>1, <2>1, <2>2, <2>3, BeginsAppend DEF Stacked
    <2> QED
      BY <1>1, <1>5, <2>4 DEF Stacked, w
  <1>6. CASE /\ j.kind = "savepoint" /\ later.writes = e.writes
             /\ later.saves = Append(e.saves, [depth |-> scope[j.scope].depth, writes |-> e.writes])
    <2> DEFINE save == [depth |-> scope[j.scope].depth, writes |-> e.writes]
    <2>1. j.scope \in Scope /\ scope[j.scope].depth \in Nat
      <3>1. j.scope \in Scope
        BY <1>6, Settles, SMTT(30) DEF Deep
      <3> QED
        BY <1>1, <3>1 DEF HeldInv, TypeInv, TypeOK, ScopeRecord
    <2>2. save \in Savepoint
      BY <1>1, <2>1 DEF Savepoint, Session
    <2>3. save.writes = e.writes
      OBVIOUS
    <2> HIDE DEF save, e, later
    <2> QED
      BY <1>1, <1>6, <2>2, <2>3, StackedAppend DEF save
  <1>7. ASSUME NEW i \in Named(c, j.scope), NEW m \in {i - 1, i}, later.saves = SubSeq(e.saves, 1, m),
               later.writes = e.writes \/ (m = i /\ later.writes = e.saves[i].writes)
        PROVE  Stacked(later)
    <2>1. i \in 1..Len(e.saves)
      BY <1>1, LenProperties DEF Named, Session
    <2>2. m \in 0..Len(e.saves) /\ (m = i => m # 0)
      BY <1>1, <2>1, LenProperties DEF Session
    <2> QED
      BY <1>1, <1>7, <2>2, StackedCut
  <1> QED
    BY <1>1, <1>3, <1>4, <1>5, <1>6, <1>7 DEF Changes

\* A flow whose task is queued stays where it is until that task ran.
LEMMA FlowStepsKeepWithin ==
    ASSUME HeldInv, NEW f \in Flow, UserStep(f) \/ FlowStep(f), NEW q \in Querier, Within(q)
    PROVE  Within(q)'
  <1>1. pc[f] \notin {"idle", "queued"} /\ \A g \in Flow \ {f} : pc[g] # "idle" => Steady(g)
    BY FlowFrame
  <1>2. queue[q] \in Seq(Task) /\ Len(queue[q]) \in Nat
    BY DEF HeldInv, TypeInv, TypeOK
  <1>3. ASSUME NEW i \in 1..Len(queue[q])
        PROVE  queue[q][i].within \in {NoScope, ctx'[queue[q][i].flow]}
    <2>1. queue[q][i] \in Task
      BY <1>2, <1>3
    <2>2. queue[q][i].flow \in Flow /\ pc[queue[q][i].flow] = "queued"
      BY <2>1 DEF Task, HeldInv, Tasks
    <2>3. Steady(queue[q][i].flow)
      BY <1>1, <2>2
    <2> QED
      BY <1>3, <2>3 DEF Within, Steady
  <1>4. CASE queue'[q] = queue[q]
    BY <1>3, <1>4 DEF Within
  <1>5. CASE Serialize(f) /\ q = on[f]
    <2> DEFINE new == [flow |-> f, kind |-> job[f].kind, scope |-> job[f].scope, within |-> ScopeHere(f)]
    <2>1. queue'[q] = Append(queue[q], new) /\ ctx' = ctx
      BY <1>5 DEF Serialize, HeldInv, TypeInv, TypeOK
    <2>2. new \in Task
      <3>1. job[f] \in Job /\ ScopeHere(f) \in Scope \cup {NoScope}
        BY ScopeHereType DEF HeldInv, TypeInv, TypeOK
      <3> QED
        BY <3>1 DEF Job, Task
    <2>3. new.flow = f /\ new.within \in {NoScope, ctx[f]}
      BY ScopeHereIsContext
    <2> HIDE DEF new
    <2>4. /\ Len(queue'[q]) = Len(queue[q]) + 1
          /\ \A i \in 1..Len(queue[q]) : queue'[q][i] = queue[q][i]
          /\ queue'[q][Len(queue[q]) + 1] = new
      BY <1>2, <2>1, <2>2, AppendProperties
    <2>5. \A i \in 1..Len(queue'[q]) : i \in 1..Len(queue[q]) \/ i = Len(queue[q]) + 1
      BY <1>2, <2>4
    <2> QED
      BY <1>3, <2>1, <2>3, <2>4, <2>5 DEF Within
  <1>6. queue'[q] = queue[q] \/ (Serialize(f) /\ q = on[f])
    BY NeverByHand
    DEF UserStep, FlowStep, Statement, Transaction, Nested, OnCommit, StreamNext, StreamEnd, Return, Throw, Start,
        Claim, NestedTurn, StreamTurn, Serialize, Refuse, RunCallbacks, querierVars, HeldInv, TypeInv, TypeOK
  <1> QED
    BY <1>4, <1>5, <1>6

LEMMA TasksKeepWithin ==
    ASSUME HeldInv, NEW p \in Querier, QuerierStep(p), NEW q \in Querier, Within(q)
    PROVE  Within(q)'
  <1> DEFINE f == Caller(p)
  <1>1. queue[p] # <<>> /\ Pop(p) /\ \A g \in Flow \ {f} : Steady(g)
    BY QuerierFrame
  <1>2. f = queue[p][1].flow /\ f \in Flow /\ on[f] = p
    BY <1>1, CallerWaits DEF HeldInv, TypeInv, TypeOK, Caller
  <1>3. /\ queue[q] \in Seq(Task) /\ queue[p] \in Seq(Task)
        /\ Len(queue[q]) \in Nat
    BY DEF HeldInv, TypeInv, TypeOK
  <1>4. ASSUME NEW i \in 1..Len(queue[q]), q = p => i # 1
        PROVE  queue[q][i].within \in {NoScope, ctx'[queue[q][i].flow]}
    <2>1. queue[q][i] \in Task /\ Tasks(q)
      BY <1>3, <1>4 DEF HeldInv
    <2>2. queue[q][i].flow \in Flow
      BY <2>1 DEF Task
    <2>3. queue[q][i].flow # f
      <3>1. CASE q # p
        BY <1>2, <2>1, <3>1 DEF Tasks
      <3>2. CASE q = p
        <4>1. 1 \in 1..Len(queue[q])
          BY <1>3, <1>4
        <4> QED
          BY <1>2, <1>4, <2>1, <3>2, <4>1 DEF Tasks
      <3> QED
        BY <3>1, <3>2
    <2>4. Steady(queue[q][i].flow)
      BY <1>1, <2>2, <2>3
    <2> QED
      BY <1>4, <2>4 DEF Within, Steady
  <1>5. CASE q # p
    <2>1. queue'[q] = queue[q]
      BY <1>1, <1>5 DEF Pop, HeldInv, TypeInv, TypeOK
    <2> QED
      BY <1>4, <1>5, <2>1 DEF Within
  <1>6. CASE q = p
    <2>1. queue'[q] = Tail(queue[q])
      BY <1>1, <1>6 DEF Pop, HeldInv, TypeInv, TypeOK
    <2>2. Len(queue'[q]) = Len(queue[q]) - 1 /\ \A k \in 1..Len(queue'[q]) : queue'[q][k] = queue[q][k + 1]
      BY <1>1, <1>3, <1>6, <2>1, HeadTailProperties
    <2>3. \A k \in 1..Len(queue'[q]) : k + 1 \in 1..Len(queue[q]) /\ k + 1 # 1
      BY <1>3, <2>2
    <2> QED
      BY <1>4, <2>2, <2>3 DEF Within
  <1> QED
    BY <1>5, <1>6

\* A statement that finds a transaction open runs in it, where its flow is.
LEMMA StatementIsHere ==
    ASSUME ApartInv, NEW q \in Querier, Within(q), Running(q, {"statement"}), engine[SlotOf(q)].tx # NoScope
    PROVE  LET f == Caller(q)
               w == Head(queue[q]).within
           IN  f \in Flow /\ on[f] = q /\ w = ctx[f] /\ w \in Scope /\ Used(w) /\ RootOf(w) = engine[SlotOf(q)].tx
  <1>1. HeldInv /\ queue[q] # <<>>
    BY DEF ApartInv, Running
  <1>2. Caller(q) \in Flow /\ on[Caller(q)] = q
    BY <1>1, CallerWaits
  <1>3. /\ Head(queue[q]).within \in Scope \cup {NoScope}
        /\ Root(Head(queue[q]).within) = engine[SlotOf(q)].tx
    BY StatementIsInside
  <1>4. Head(queue[q]).within \in Scope /\ RootOf(Head(queue[q]).within) = engine[SlotOf(q)].tx
    BY <1>3 DEF Root
  <1>5. Head(queue[q]) = queue[q][1] /\ 1 \in 1..Len(queue[q])
    BY <1>1 DEF HeldInv, TypeInv, TypeOK
  <1>6. Head(queue[q]).within = ctx[Caller(q)]
    BY <1>4, <1>5, FlowAssumption DEF Within, Caller
  <1> QED
    BY <1>1, <1>2, <1>4, <1>6, FlowAssumption DEF HeldInv, FlowInv, Calls

\* Its writes too are the business of that flow alone, while the transaction goes on.
LEMMA ItsOwnWrites ==
    ASSUME SessionInv, NEW f \in Flow, NEW ok \in BOOLEAN, Answers(f, ok),
           NEW g \in Flow \ {f}, InOwn(g), pc[g] # "claim", engine'[SlotOf(on[g])].tx # NoScope
    PROVE  engine'[SlotOf(on[g])].writes = engine[SlotOf(on[g])].writes
  <1>1. HeldInv /\ FateInv /\ ApartInv /\ ByItself(f) /\ Within(on[f]) /\ on[f] \in Querier
    BY DEF SessionInv, LinearInv, FateInv, HeldInv, TypeInv, TypeOK
  <1>2. CASE SlotOf(on[g]) # SlotOf(on[f])
    <2>1. SlotOf(on[g]) \in Connection
      BY <1>1, FlowAssumption DEF HeldInv, TypeInv, TypeOK, SlotOf
    <2> QED
      BY <1>2, <2>1 DEF Answers
  <1>3. CASE SlotOf(on[g]) = SlotOf(on[f])
    <2>1. ~(ctx[f] \in Scope)
      <3> SUFFICES ASSUME ctx[f] \in Scope PROVE FALSE
        OBVIOUS
      <3>1. InOwn(f) /\ pc[f] # "claim"
        BY <1>1, InsideOwn, FlowAssumption DEF Answers
      <3> QED
        BY <1>1, <1>3, <3>1, OneOwner
    <2>2. job[f].kind \notin Deep \cup {"begin", "commit", "rollback"}
      BY <1>1, <2>1, Settles
    <2>3. Changes(f, ok)
      BY DEF Answers
    <2>4. ~(Running(on[f], {"statement"}) /\ Caller(on[f]) = f /\ engine[SlotOf(on[f])].tx # NoScope)
      BY <1>1, <2>1, StatementIsHere
    <2>5. engine'[SlotOf(on[f])].writes = engine[SlotOf(on[f])].writes
      BY <1>3, <2>2, <2>3, <2>4 DEF Changes, Deep
    <2> QED
      BY <1>3, <2>5
  <1> QED
    BY <1>2, <1>3

LEMMA AnswerKeepsWritesUsed ==
    ASSUME SessionInv, NEW f \in Flow, NEW ok \in BOOLEAN, Answers(f, ok), NEW d \in Connection
    PROVE  WritesUsed(engine[d])'
  <1> DEFINE c == SlotOf(on[f])
             e == engine[c]
             later == engine'[c]
  <1>1. /\ HeldInv /\ FateInv /\ ApartInv /\ Within(on[f]) /\ on[f] \in Querier /\ Changes(f, ok)
        /\ \A b \in Connection : WritesUsed(engine[b])
    BY DEF SessionInv, LinearInv, FateInv, HeldInv, TypeInv, TypeOK, Answers
  <1>2. scope' = scope
    BY <1>1, Settles
  <1>3. c \in Connection /\ e \in Session /\ WritesUsed(e) /\ Stacked(e)
    BY <1>1, FlowAssumption DEF HeldInv, TypeInv, TypeOK, SlotOf, SessionInv
  <1>4. SUFFICES ASSUME d = c
                 PROVE  \A k \in DOMAIN later.writes : later.writes[k] # NoScope /\ Used(later.writes[k])
    <2>1. d # c => WritesUsed(engine[d])'
      BY <1>1, <1>2, SMTT(30) DEF Answers, WritesUsed, Used
    <2>2. ASSUME d = c, \A k \in DOMAIN later.writes : later.writes[k] # NoScope /\ Used(later.writes[k])
          PROVE  WritesUsed(engine[d])'
      BY <1>2, <2>2 DEF WritesUsed, Used
    <2> QED
      BY <2>1, <2>2
  <1>5. CASE later.writes = e.writes \/ later.writes = <<>>
    BY <1>3, <1>5 DEF WritesUsed
  <1>6. CASE /\ Running(on[f], {"statement"}) /\ Caller(on[f]) = f /\ e.tx # NoScope
             /\ later.writes = Append(e.writes, Head(queue[on[f]]).within)
    <2> DEFINE w == Head(queue[on[f]]).within
    <2>1. w \in Scope /\ Used(w)
      BY <1>1, <1>6, StatementIsHere
    <2>2. e.writes \in Seq(Scope \cup {NoScope})
      BY <1>3 DEF Session
    <2> HIDE DEF w, e, later
    <2>3. /\ Len(e.writes) \in Nat /\ DOMAIN e.writes = 1..Len(e.writes)
          /\ DOMAIN Append(e.writes, w) = 1..Len(e.writes) + 1
          /\ \A k \in 1..Len(e.writes) : Append(e.writes, w)[k] = e.writes[k]
          /\ Append(e.writes, w)[Len(e.writes) + 1] = w
      BY <2>1, <2>2, AppendProperties, LenProperties
    <2>4. ASSUME NEW k \in 1..Len(e.writes) + 1
          PROVE  Append(e.writes, w)[k] # NoScope /\ Used(Append(e.writes, w)[k])
      <3>1. k \in 1..Len(e.writes) \/ k = Len(e.writes) + 1
        BY <2>3
      <3> QED
        BY <1>3, <2>1, <2>3, <3>1, FlowAssumption DEF WritesUsed
    <2> QED
      BY <1>6, <2>3, <2>4 DEF w
  <1>7. ASSUME NEW i \in DOMAIN e.saves, later.writes = e.saves[i].writes
        PROVE  \A k \in DOMAIN later.writes : later.writes[k] # NoScope /\ Used(later.writes[k])
    <2>1. e.saves \in Seq(Savepoint) /\ e.writes \in Seq(Scope \cup {NoScope})
      BY <1>3 DEF Session
    <2>2. e.saves[i] \in Savepoint
      BY <1>7, <2>1, ElementOfSeq, LenProperties
    <2>3. later.writes \in Seq(Scope \cup {NoScope}) /\ Begins(later.writes, e.writes)
      BY <1>3, <1>7, <2>2 DEF Savepoint, Stacked
    <2>4. \A k \in DOMAIN later.writes : k \in DOMAIN e.writes /\ later.writes[k] = e.writes[k]
      BY <1>3, <2>1, <2>3, BeginsWithin DEF Session
    <2> QED
      BY <1>3, <2>4 DEF WritesUsed
  <1> QED
    BY <1>1, <1>5, <1>6, <1>7 DEF Changes, Named

\* What a flow wrote since its savepoints stays its own where no savepoint or write is added but in it.
LEMMA OwnSinceFollows ==
    ASSUME FateInv, Kept, NEW f \in Flow, on'[f] = on[f], OwnSince(f), WritesUsed(engine[SlotOf(on[f])]),
           \A k \in DOMAIN engine'[SlotOf(on[f])].writes :
               LET w == engine'[SlotOf(on[f])].writes[k] IN
               \/ k \in DOMAIN engine[SlotOf(on[f])].writes /\ w = engine[SlotOf(on[f])].writes[k]
               \/ w \in Scope /\ Used(w) /\ \A x \in Marked(f)' : x \in Lineage(w),
           \A x \in Marked(f)', a \in DOMAIN engine'[SlotOf(on[f])].saves :
               LastOf(engine'[SlotOf(on[f])].saves, scope'[x].depth, a) =>
                 \/ /\ x \in Marked(f) /\ LastOf(engine[SlotOf(on[f])].saves, scope[x].depth, a)
                    /\ engine'[SlotOf(on[f])].saves[a] = engine[SlotOf(on[f])].saves[a]
                 \/ \A k \in DOMAIN engine'[SlotOf(on[f])].writes : ~(k > Len(engine'[SlotOf(on[f])].saves[a].writes))
    PROVE  OwnSince(f)'
  <1> DEFINE e == engine[SlotOf(on[f])]
             later == engine'[SlotOf(on[f])]
  <1>1. HeldInv /\ Lineages /\ SlotOf(on[f])' = SlotOf(on[f])
    BY DEF FateInv, SlotOf
  <1>2. e \in Session
    BY <1>1, FlowAssumption DEF HeldInv, TypeInv, TypeOK, SlotOf
  <1>3. SUFFICES ASSUME NEW x \in Marked(f)', NEW a \in DOMAIN later.saves, LastOf(later.saves, scope'[x].depth, a),
                        NEW k \in DOMAIN later.writes, k > Len(later.saves[a].writes)
                 PROVE  later.writes[k] # NoScope /\ x \in scope'[later.writes[k]].lineage
    BY <1>1 DEF OwnSince, Lineage
  <1>4. PICK w : w = later.writes[k]
    OBVIOUS
  <1>5. x \in Marked(f) /\ LastOf(e.saves, scope[x].depth, a) /\ later.saves[a] = e.saves[a]
    BY <1>3
  <1>6. a \in DOMAIN e.saves
    BY <1>5 DEF LastOf
  <1>7. w # NoScope /\ w \in Scope /\ Used(w) /\ x \in Lineage(w)
    <2>1. CASE k \in DOMAIN e.writes /\ w = e.writes[k]
      <3>1. w # NoScope /\ Used(w) /\ w \in Scope \cup {NoScope}
        <4>1. e.writes \in Seq(Scope \cup {NoScope})
          BY <1>2 DEF Session
        <4> QED
          BY <2>1, <4>1, ElementOfSeq, LenProperties DEF WritesUsed
      <3>2. x \in Lineage(w)
        BY <1>3, <1>5, <1>6, <2>1 DEF OwnSince
      <3> QED
        BY <3>1, <3>2
    <2>2. CASE w \in Scope /\ Used(w) /\ \A y \in Marked(f)' : y \in Lineage(w)
      BY <2>2, FlowAssumption
    <2> QED
      BY <1>4, <2>1, <2>2
  <1> QED
    BY <1>4, <1>7 DEF Kept, Lineage

LEMMA AnswerKeepsOwnSince ==
    ASSUME SessionInv, ApartInv', NEW f \in Flow, NEW ok \in BOOLEAN, Answers(f, ok), NEW g \in Flow
    PROVE  OwnSince(g)'
  <1>1. /\ FateInv /\ HeldInv /\ ApartInv /\ Outermost
        /\ ByItself(f) /\ ByItself(g) /\ Marks(f) /\ OwnSince(g) /\ Within(on[f])
        /\ on[f] \in Querier /\ SlotOf(on[f]) \in Connection /\ SlotOf(on[g]) \in Connection
    BY FlowAssumption DEF SessionInv, LinearInv, FateInv, HeldInv, TypeInv, TypeOK, SlotOf
  <1>2. scope' = scope /\ on' = on /\ Kept /\ Changes(f, ok)
    BY <1>1, Settles DEF Kept, Answers
  <1>3. WritesUsed(engine[SlotOf(on[g])])
    BY <1>1 DEF SessionInv
  <1>4. ASSUME Marked(g)' = {} PROVE OwnSince(g)'
    BY <1>4 DEF OwnSince
  <1>e. ASSUME engine'[SlotOf(on[g])].tx = NoScope PROVE OwnSince(g)'
    <2>1. engine'[SlotOf(on[g])].writes = <<>>
      BY <1>1, <1>e DEF ApartInv, Inside
    <2>2. SlotOf(on[g])' = SlotOf(on[g])
      BY <1>2 DEF SlotOf
    <2> QED
      BY <2>1, <2>2 DEF OwnSince
  <1>5. ASSUME Marked(g)' \subseteq Marked(g),
               engine'[SlotOf(on[g])].writes = engine[SlotOf(on[g])].writes,
               engine'[SlotOf(on[g])].saves = engine[SlotOf(on[g])].saves
        PROVE  OwnSince(g)'
    BY <1>1, <1>2, <1>3, <1>5, OwnSinceFollows
  <1>6. CASE g # f
    <2>1. Marked(g)' = Marked(g)
      BY <1>1, <1>6, AnswerStaysByItself
    <2>2. CASE Marked(g) = {}
      BY <1>4, <2>1, <2>2
    <2>3. CASE Marked(g) # {}
      <3>1. InOwn(g) /\ pc[g] # "claim"
        BY <1>1, <2>3, MarkedHolds
      <3> QED
        BY <1>1, <1>5, <1>6, <1>e, <2>1, <3>1, ItsOwnSession, ItsOwnWrites
    <2> QED
      BY <2>2, <2>3
  <1>7. CASE g = f
    <2> DEFINE c == SlotOf(on[f])
               e == engine[c]
               later == engine'[c]
               j == job[f]
               s == ctx[f]
    <2>1. /\ j.kind # "savepoint" \/ ~ok => Marked(f)' \subseteq Marked(f)
          /\ j.kind \in {"begin", "commit", "rollback"} => Marked(f)' = {}
          /\ j.kind \in Deep => scope[s].depth \in Nat /\ \A x \in Marked(f)' : scope[x].depth \in Nat
          /\ j.kind = "rollbackTo" \/ (j.kind = "releaseSavepoint" /\ ok) =>
               s \in Marked(f) /\ \A x \in Marked(f)' : scope[x].depth < scope[s].depth
          /\ j.kind = "savepoint" /\ ok =>
               \A x \in Marked(f)' : x = s \/ (x \in Marked(f) /\ scope[x].depth < scope[s].depth)
      BY <1>1, MarkedAfter
    <2>2. /\ e.saves \in Seq(Savepoint) /\ e.writes \in Seq(Scope \cup {NoScope}) /\ Stacked(e)
          /\ Len(e.saves) \in Nat /\ DOMAIN e.saves = 1..Len(e.saves)
          /\ Len(e.writes) \in Nat /\ DOMAIN e.writes = 1..Len(e.writes)
      BY <1>1, LenProperties DEF HeldInv, TypeInv, TypeOK, Session, SessionInv
    <2>3. j.kind \in Deep => j.scope = s
      BY <1>1, Settles
    <2>4. CASE later.writes = e.writes /\ later.saves = e.saves /\ (j.kind # "savepoint" \/ ~ok)
      BY <1>5, <1>7, <2>1, <2>4
    <2>5. CASE j.kind \in {"begin", "commit", "rollback"}
      BY <1>4, <1>7, <2>1, <2>5
    <2>6. CASE /\ j.kind = "statement" /\ Running(on[f], {"statement"}) /\ Caller(on[f]) = f /\ e.tx # NoScope
               /\ later.writes = Append(e.writes, Head(queue[on[f]]).within) /\ later.saves = e.saves
      <3>1. PICK w \in Scope : w = Head(queue[on[f]]).within /\ w = ctx[f] /\ Used(w)
        BY <1>1, <2>6, StatementIsHere
      <3>2. later.writes = Append(e.writes, w)
        BY <2>6, <3>1
      <3>3. /\ DOMAIN later.writes = 1..Len(e.writes) + 1
            /\ \A k \in 1..Len(e.writes) : later.writes[k] = e.writes[k]
            /\ later.writes[Len(e.writes) + 1] = w
        BY <2>2, <3>2, AppendProperties
      <3>4. Marked(f)' \subseteq Marked(f) /\ \A x \in Marked(f)' : x \in Lineage(w) /\ scope'[x] = scope[x]
        BY <1>2, <2>1, <2>6, <3>1 DEF Marked
      <3>5. ASSUME NEW k \in DOMAIN later.writes
            PROVE  \/ k \in DOMAIN e.writes /\ later.writes[k] = e.writes[k]
                   \/ later.writes[k] \in Scope /\ Used(later.writes[k]) /\ \A x \in Marked(f)' : x \in Lineage(later.writes[k])
        <4>1. k \in 1..Len(e.writes) \/ k = Len(e.writes) + 1
          BY <2>2, <3>3
        <4> QED
          BY <2>2, <3>1, <3>3, <3>4, <4>1
      <3> QED
        BY <1>1, <1>2, <1>3, <1>7, <2>6, <3>4, <3>5, OwnSinceFollows
    <2>7. CASE /\ j.kind = "savepoint" /\ ok /\ later.writes = e.writes
               /\ later.saves = Append(e.saves, [depth |-> scope[j.scope].depth, writes |-> e.writes])
      <3> DEFINE save == [depth |-> scope[s].depth, writes |-> e.writes]
                 n == Len(e.saves)
      <3>1. save \in Savepoint /\ later.saves = Append(e.saves, save)
        BY <2>1, <2>2, <2>3, <2>7 DEF Deep, Savepoint
      <3>2. save.depth = scope[s].depth /\ save.writes = e.writes
        OBVIOUS
      <3> HIDE DEF save
      <3>3. /\ DOMAIN later.saves = 1..n + 1 /\ later.saves[n + 1] = save
            /\ \A k \in 1..n : later.saves[k] = e.saves[k]
        BY <2>2, <3>1, AppendProperties
      <3>4. ASSUME NEW x \in Marked(f)', NEW a \in DOMAIN later.saves, LastOf(later.saves, scope'[x].depth, a)
            PROVE  \/ /\ x \in Marked(f) /\ LastOf(e.saves, scope[x].depth, a)
                      /\ later.saves[a] = e.saves[a]
                   \/ \A k \in DOMAIN later.writes : ~(k > Len(later.saves[a].writes))
        <4>1. CASE a = n + 1
          <5>1. later.saves[a].writes = e.writes
            BY <3>2, <3>3, <4>1
          <5>2. DOMAIN later.writes = 1..Len(e.writes) /\ Len(e.writes) \in Nat
            BY <2>2, <2>7
          <5> QED
            BY ONLY <5>1, <5>2
        <4>2. CASE a \in 1..n
          <5>1. later.saves[a].depth = scope[x].depth /\ \A k \in 1..n + 1 : later.saves[k].depth = scope[x].depth => k <= a
            BY <1>2, <3>3, <3>4 DEF LastOf
          <5>2. scope[x].depth # scope[s].depth
            <6>1. n + 1 \in 1..n + 1 /\ ~(n + 1 <= a)
              BY <2>2, <4>2
            <6> QED
              BY <3>2, <3>3, <5>1, <6>1
          <5>3. x \in Marked(f)
            BY <2>1, <2>7, <5>2
          <5>4. later.saves[a] = e.saves[a] /\ e.saves[a].depth = scope[x].depth
            BY <3>3, <4>2, <5>1
          <5>5. ASSUME NEW k \in 1..n, e.saves[k].depth = scope[x].depth PROVE k <= a
            <6>1. k \in 1..n + 1
              BY <2>2
            <6> QED
              BY <3>3, <5>1, <5>5, <6>1
          <5>6. LastOf(e.saves, scope[x].depth, a)
            BY <2>2, <4>2, <5>4, <5>5 DEF LastOf
          <5> QED
            BY <5>3, <5>4, <5>6
        <4> QED
          BY <2>2, <3>3, <4>1, <4>2, SMTT(30)
      <3> QED
        BY <1>1, <1>2, <1>3, <1>7, <2>7, <3>4, OwnSinceFollows
    <2>8. ASSUME e.tx # NoScope, j.kind = "rollbackTo" \/ (j.kind = "releaseSavepoint" /\ ok),
                 NEW i \in Named(c, j.scope), NEW m \in {i - 1, i}, later.saves = SubSeq(e.saves, 1, m),
                 later.writes = e.writes \/ later.writes = e.saves[i].writes
          PROVE  OwnSince(g)'
      <3>1. LastOf(e.saves, scope[s].depth, i) /\ i \in 1..Len(e.saves)
        BY <2>2, <2>3, <2>8, NamedIsLast DEF Deep, LastOf
      <3>2. m \in 0..Len(e.saves)
        BY <2>2, <3>1
      <3>3. DOMAIN later.saves = 1..m /\ \A k \in 1..m : later.saves[k] = e.saves[k]
        BY <2>2, <2>8, <3>2, SubSeqProperties
      <3>4. \A k \in DOMAIN later.writes : k \in DOMAIN e.writes /\ later.writes[k] = e.writes[k]
        <4>1. CASE later.writes = e.writes
          BY <4>1
        <4>2. CASE later.writes = e.saves[i].writes
          <5>1. e.saves[i] \in Savepoint
            BY <2>2, <3>1, ElementOfSeq
          <5>2. later.writes \in Seq(Scope \cup {NoScope}) /\ Begins(later.writes, e.writes)
            BY <2>2, <3>1, <4>2, <5>1 DEF Savepoint, Stacked
          <5> QED
            BY <2>2, <5>2, BeginsWithin
        <4> QED
          BY <2>8, <4>1, <4>2
      <3>5. ASSUME NEW x \in Marked(f)', NEW a \in DOMAIN later.saves, LastOf(later.saves, scope'[x].depth, a)
            PROVE  /\ x \in Marked(f) /\ LastOf(e.saves, scope[x].depth, a)
                   /\ later.saves[a] = e.saves[a]
        <4>1. x \in Marked(f) /\ s \in Marked(f) /\ scope[x].depth < scope[s].depth /\ scope'[x] = scope[x]
          BY <1>2, <2>1, <2>8 DEF Deep
        <4>2. PICK b \in DOMAIN e.saves : LastOf(e.saves, scope[s].depth, b)
                                       /\ \E k \in DOMAIN e.saves : LastOf(e.saves, scope[x].depth, k) /\ k < b
          BY <1>1, <2>8, <4>1 DEF Marks
        <4>3. b = i
          BY <2>2, <3>1, <4>2, OneLast
        <4>4. PICK k \in DOMAIN e.saves : LastOf(e.saves, scope[x].depth, k) /\ k < i
          BY <4>2, <4>3
        <4>5. LastOf(later.saves, scope[x].depth, k)
          <5>1. k <= m
            BY <2>2, <3>1, <4>4, <2>8
          <5> QED
            BY <2>2, <2>8, <3>2, <4>4, <5>1, LastAfterCut
        <4>6. later.saves \in Seq(Savepoint)
          BY <2>2, <2>8, <3>2, SubSeqProperties
        <4>7. a = k
          BY <3>5, <4>1, <4>5, <4>6, OneLast
        <4> QED
          BY <3>3, <3>5, <4>1, <4>4, <4>7
      <3> QED
        BY <1>1, <1>2, <1>3, <1>7, <3>4, <3>5, OwnSinceFollows
    <2>9. CASE j.kind \notin {"begin", "commit", "rollback"} /\ later.tx # NoScope
      <3>1. e.tx # NoScope
        BY <2>9 DEF Answers
      <3> QED
        BY <1>2, <2>3, <2>4, <2>6, <2>7, <2>8, <2>9, <3>1 DEF Changes
    <2> QED
      BY <1>7, <1>e, <2>5, <2>9
  <1> QED
    BY <1>6, <1>7

LEMMA OwnKeepsSession ==
    ASSUME SessionInv, Kept, NEW f \in Flow, UserStep(f) \/ FlowStep(f), ~Refuse(f)
    PROVE  /\ \A c \in Connection : (Stacked(engine[c]) /\ WritesUsed(engine[c]))'
           /\ \A g \in Flow : OwnSince(g)'
  <1>1. /\ FateInv /\ HeldInv /\ Outermost /\ \A g \in Flow : ByItself(g) /\ OwnSince(g)
        /\ \A c \in Connection : Stacked(engine[c]) /\ WritesUsed(engine[c])
    BY DEF SessionInv, LinearInv, FateInv
  <1>2. /\ \A g \in Flow : ByItself(g)' /\ Marked(g)' \subseteq Marked(g)
        /\ \A g \in Flow \ {f} : Steady(g)
    BY <1>1, OwnStaysByItself
  <1>3. engine' = engine /\ \A g \in Flow : on'[g] = on[g]
    BY <1>1, <1>2, FlowFrame DEF Steady
  <1>4. ASSUME NEW c \in Connection PROVE (Stacked(engine[c]) /\ WritesUsed(engine[c]))'
    <2>1. engine[c].writes \in Seq(Scope \cup {NoScope})
      BY <1>1 DEF HeldInv, TypeInv, TypeOK, Session
    <2>2. \A k \in DOMAIN engine[c].writes : engine[c].writes[k] \in Scope /\ engine[c].writes[k] # NoScope
                                             /\ Used(engine[c].writes[k])
      BY <1>1, <2>1, ElementOfSeq, LenProperties DEF WritesUsed
    <2>3. WritesUsed(engine[c])'
      BY <1>3, <2>2 DEF WritesUsed, Kept, Used
    <2>4. Stacked(engine[c])'
      BY <1>1, <1>3 DEF Stacked
    <2> QED
      BY <2>3, <2>4
  <1>5. ASSUME NEW g \in Flow PROVE OwnSince(g)'
    <2>1. WritesUsed(engine[SlotOf(on[g])])
      BY <1>1, FlowAssumption DEF HeldInv, TypeInv, TypeOK, SlotOf
    <2>2. \A x \in Marked(g)' : x \in Marked(g) /\ scope'[x] = scope[x]
      BY <1>1, <1>2, MarkedAround DEF Kept
    <2> QED
      BY <1>1, <1>2, <1>3, <2>1, <2>2, OwnSinceFollows
  <1> QED
    BY <1>4, <1>5

LEMMA NextSession ==
    ASSUME NothingShared, SessionInv, [Next]_vars
    PROVE  SessionInv'
  <1>1. LinearInv /\ ApartInv /\ FateInv /\ HeldInv /\ Lineages /\ \A q \in Querier : Within(q)
    BY DEF SessionInv, LinearInv, FateInv
  <1>2. LinearInv' /\ ApartInv' /\ Kept /\ TypeInv'
    BY <1>1, NextLinear, NextApart, LineagesStay DEF LinearInv, FateInv, HeldInv
  <1>3. ASSUME NEW f \in Flow, NEW ok \in BOOLEAN, Answers(f, ok)
        PROVE  /\ \A c \in Connection : (Stacked(engine[c]) /\ WritesUsed(engine[c]))'
               /\ \A g \in Flow : OwnSince(g)'
    <2>1. \A c \in Connection : Stacked(engine'[c])
      BY <1>1, <1>2, <1>3, AnswerKeepsStacked DEF SessionInv
    <2>2. \A c \in Connection : WritesUsed(engine[c])' /\ Stacked(engine[c])'
      BY <1>3, <2>1, AnswerKeepsWritesUsed DEF Stacked
    <2> QED
      BY <1>2, <1>3, <2>2, AnswerKeepsOwnSince
  <1>4. CASE \E f \in Flow : UserStep(f) \/ FlowStep(f)
    <2>1. PICK f \in Flow : UserStep(f) \/ FlowStep(f)
      BY <1>4
    <2>2. \A q \in Querier : Within(q)'
      BY <1>1, <2>1, FlowStepsKeepWithin
    <2>3. CASE Refuse(f)
      <3>1. Answers(f, FALSE)
        BY <1>1, <2>3, RefusalAnswers
      <3> QED
        BY <1>2, <1>3, <2>2, <3>1 DEF SessionInv
    <2>4. CASE ~Refuse(f)
      BY <1>2, <2>1, <2>2, <2>4, OwnKeepsSession DEF SessionInv
    <2> QED
      BY <2>3, <2>4
  <1>5. CASE \E q \in Querier : QuerierStep(q)
    <2>1. PICK q \in Querier : QuerierStep(q)
      BY <1>5
    <2>2. \A p \in Querier : Within(p)'
      BY <1>1, <2>1, TasksKeepWithin
    <2>3. Caller(q) \in Flow /\ \E ok \in BOOLEAN : Answers(Caller(q), ok)
      BY <1>1, <2>1, CallerWaits, QuerierFrame, TaskAnswers
    <2> QED
      BY <1>2, <1>3, <2>2, <2>3 DEF SessionInv
  <1>6. CASE UNCHANGED vars
    <2>1. UNCHANGED <<scope, queue, pc, job, ctx, on, engine>>
      BY <1>6 DEF vars, slotVars, querierVars, flowVars, engineVars
    <2>2. \A q \in Querier : Within(q)'
      BY <1>1, <2>1 DEF Within
    <2>3. \A c \in Connection : (Stacked(engine[c]) /\ WritesUsed(engine[c]))'
      BY <2>1 DEF SessionInv, Stacked, WritesUsed, Used
    <2>4. ASSUME NEW g \in Flow PROVE OwnSince(g)'
      <3>1. OwnSince(g)
        BY DEF SessionInv
      <3>2. Lineage(ctx[g])' = Lineage(ctx[g]) /\ Asks(g, {"savepoint"})' = Asks(g, {"savepoint"})
        BY <2>1 DEF Lineage, Asks
      <3>3. Marked(g)' = Marked(g)
        BY <2>1, <3>2 DEF Marked
      <3> QED
        BY <2>1, <3>1, <3>3, SMTT(30) DEF OwnSince, SlotOf, Lineage
    <2> QED
      BY <1>2, <2>2, <2>3, <2>4 DEF SessionInv
  <1> QED
    BY <1>4, <1>5, <1>6 DEF Next

LEMMA InitSession ==
    ASSUME NothingByHand, NoBranches, Init
    PROVE  SessionInv
  <1>1. LinearInv /\ ApartInv
    BY InitLinear, InitApart
  <1>2. /\ \A q \in Querier : queue[q] = <<>>
        /\ \A c \in Connection : engine[c].writes = <<>> /\ engine[c].saves = <<>>
        /\ \A f \in Flow : ctx[f] = NoScope
    BY DEF Init, NoTransaction
  <1>3. \A q \in Querier : Within(q)
    BY <1>2 DEF Within
  <1>4. \A c \in Connection : Stacked(engine[c]) /\ WritesUsed(engine[c])
    BY <1>2 DEF Stacked, WritesUsed
  <1>5. \A f \in Flow : OwnSince(f)
    BY <1>2 DEF OwnSince, Marked, Lineage
  <1> QED
    BY <1>1, <1>3, <1>4, <1>5 DEF SessionInv

\* What a ROLLBACK TO drops, in such a flow: the writes since its savepoint, or nothing.
LEMMA RollbackToDrops ==
    ASSUME SessionInv, NEW f \in Flow, NEW ok \in BOOLEAN, Answers(f, ok), job[f].kind = "rollbackTo",
           engine'[SlotOf(on[f])].tx = engine[SlotOf(on[f])].tx
    PROVE  LET e == engine[SlotOf(on[f])]
               later == engine'[SlotOf(on[f])]
           IN  /\ Begins(later.writes, e.writes)
               /\ \A i \in DOMAIN e.writes : i > Len(later.writes) => ctx[f] \in Lineage(e.writes[i])
  <1> DEFINE e == engine[SlotOf(on[f])]
             later == engine'[SlotOf(on[f])]
             s == ctx[f]
  <1>1. FateInv /\ Outermost /\ ByItself(f) /\ Stacked(e) /\ OwnSince(f) /\ e \in Session /\ Changes(f, ok)
    BY FlowAssumption DEF SessionInv, LinearInv, FateInv, HeldInv, TypeInv, TypeOK, SlotOf, Answers
  <1>2. e.writes \in Seq(Scope \cup {NoScope}) /\ e.saves \in Seq(Savepoint)
    BY <1>1 DEF Session
  <1>3. Len(e.writes) \in Nat /\ DOMAIN e.writes = 1..Len(e.writes) /\ DOMAIN e.saves = 1..Len(e.saves)
    BY <1>2, LenProperties
  <1>4. CASE later.writes = e.writes
    BY <1>3, <1>4 DEF Begins
  <1>6. CASE later.tx = NoScope /\ later.writes = <<>>
    <2>1. e.writes = <<>>
      BY <1>1, <1>6, FlowAssumption DEF SessionInv, ApartInv, Inside, HeldInv, TypeInv, TypeOK, SlotOf
    <2> QED
      BY <1>4, <1>6, <2>1
  <1>5. ASSUME NEW i \in Named(SlotOf(on[f]), job[f].scope), later.writes = e.saves[i].writes
        PROVE  /\ Begins(later.writes, e.writes)
               /\ \A k \in DOMAIN e.writes : k > Len(later.writes) => ctx[f] \in Lineage(e.writes[k])
    <2>1. job[f].scope = s
      BY <1>1, Settles DEF Deep
    <2>2. LastOf(e.saves, scope[s].depth, i) /\ i \in DOMAIN e.saves
      BY <1>5, <2>1, NamedIsLast DEF LastOf
    <2>3. s \in Marked(f)
      BY <1>1, MarkedAfter
    <2> QED
      BY <1>1, <1>5, <2>2, <2>3 DEF OwnSince, Stacked
  <1> QED
    BY <1>1, <1>4, <1>5, <1>6 DEF Changes

\* A nested transaction's failure undoes its own writes alone, in a flow that awaits each call before the next:
\* what its ROLLBACK TO drops was all written inside it, since its savepoint is the last of its name and each
\* write after it came from where the flow still was.  A branch that writes beside it is undone with it.
THEOREM SavepointUndoesItsOwnAlways ==
    ASSUME NothingByHand, NothingShared, NoBranches
    PROVE  Spec => SavepointUndoesItsOwn
  <1>1. Init => SessionInv
    BY InitSession
  <1>2. SessionInv /\ [Next]_vars => SessionInv'
    BY NextSession
  <1> DEFINE ItsOwn(q) == \A i \in DOMAIN engine[SlotOf(q)].writes :
                 i > Len(engine'[SlotOf(q)].writes) => ctx[Caller(q)] \in Lineage(engine[SlotOf(q)].writes[i])
             Step == \A q \in Querier : RunRollbackTo(q) => ItsOwn(q)
  <1>3. SessionInv => Step
    <2> SUFFICES ASSUME SessionInv, NEW q \in Querier, RunRollbackTo(q) PROVE ItsOwn(q)
      OBVIOUS
    <2>1. HeldInv /\ queue[q] # <<>> /\ Head(queue[q]).kind = "rollbackTo" /\ QuerierStep(q)
      BY DEF SessionInv, LinearInv, FateInv, RunRollbackTo, Running, QuerierStep
    <2>2. Caller(q) \in Flow /\ on[Caller(q)] = q /\ job[Caller(q)].kind = "rollbackTo"
      BY <2>1, CallerWaits
    <2>3. PICK ok \in BOOLEAN : Answers(Caller(q), ok)
      BY <2>1, TaskAnswers
    <2>4. engine'[SlotOf(q)].tx = engine[SlotOf(q)].tx
      BY <2>1, TaskKeepsTx, FlowAssumption DEF HeldInv, SlotOf
    <2> QED
      BY <2>2, <2>3, <2>4, RollbackToDrops
  <1>4. Step <=> \A q \in Querier : RunRollbackTo(q) =>
                    LET c == SlotOf(q)
                        s == ctx[Caller(q)]
                    IN  \A i \in DOMAIN engine[c].writes :
                          i > Len(engine[c].writes') => s \in Lineage(engine[c].writes[i])
    BY DEF SlotOf
  <1> QED
    BY <1>1, <1>2, <1>3, <1>4, PTL DEF Spec, SavepointUndoesItsOwn

-----------------------------------------------------------------------------
(***************************************************************************)
(* The refinement: what a step of the program is to a flow that relies on  *)
(* the connection.                                                         *)
(***************************************************************************)
Fate(s) == IF s \in committed THEN "committed"
           ELSE IF s \in undone /\ scope[s].parent = NoScope THEN "undone" ELSE "new"

\* All a flow may see of the connections but one, and of the scopes.
Elsewhere(c) == \A d \in Connection \ {c} : engine'[d].tx = engine[d].tx /\ engine'[d].writes = engine[d].writes
SameFates == \A s \in Scope : Fate(s)' = Fate(s)
SameLineages == \A s \in Scope : Lineage(s)' = Lineage(s)

LEMMA NothingHappens ==
    ASSUME SameFates, SameLineages,
           \A c \in Connection : engine'[c].tx = engine[c].tx /\ engine'[c].writes = engine[c].writes
    PROVE  UNCHANGED Promised!svars
  BY DEF Promised!svars, Fate, SameFates, SameLineages

LEMMA SessionOpens ==
    ASSUME NEW c \in Connection, NEW s \in Scope, engine[c].tx = NoScope, Fate(s) = "new", Lineage(s) = {s},
           engine'[c].tx = s, engine'[c].writes = engine[c].writes, Elsewhere(c), SameFates, SameLineages
    PROVE  Promised!Next
  <1>1. Promised!Open(c, s)
    BY DEF Promised!Open, Fate, SameFates, SameLineages, Elsewhere
  <1> QED
    BY <1>1 DEF Promised!Next

LEMMA SessionWrites ==
    ASSUME NEW c \in Connection, NEW s \in Scope, engine[c].tx \in Lineage(s), engine'[c].tx = engine[c].tx,
           engine'[c].writes = Append(engine[c].writes, s), Elsewhere(c), SameFates, SameLineages
    PROVE  Promised!Next
  <1>1. Promised!Write(c, s)
    BY DEF Promised!Write, Fate, SameFates, SameLineages, Elsewhere
  <1> QED
    BY <1>1 DEF Promised!Next

LEMMA SessionUndoes ==
    ASSUME NEW c \in Connection, NEW s \in Scope, engine[c].tx \in Lineage(s) \ {s}, engine'[c].tx = engine[c].tx,
           NEW n \in 0..Len(engine[c].writes), engine'[c].writes = SubSeq(engine[c].writes, 1, n),
           \A i \in n+1..Len(engine[c].writes) : engine[c].writes[i] \in Scope /\ s \in Lineage(engine[c].writes[i]),
           Elsewhere(c), SameFates, SameLineages
    PROVE  Promised!Next
  <1>1. Promised!UndoNested(c, s)
    BY DEF Promised!UndoNested, Fate, SameFates, SameLineages, Elsewhere
  <1> QED
    BY <1>1 DEF Promised!Next

LEMMA SessionEnds ==
    ASSUME NEW c \in Connection, NEW how \in {"committed", "undone"}, NEW s \in Scope,
           engine[c].tx = s, s # NoScope, engine'[c].tx = NoScope, engine'[c].writes = <<>>,
           Fate(s)' = how, \A t \in Scope \ {s} : Fate(t)' = Fate(t), Elsewhere(c), SameLineages
    PROVE  Promised!Next
  <1>1. Promised!End(c, how)
    BY DEF Promised!End, Fate, SameLineages, Elsewhere
  <1> QED
    BY <1>1 DEF Promised!Next

LEMMA SessionGrows ==
    ASSUME NEW n \in Scope, NEW t \in Scope \cup {NoScope}, Lineage(n) = {}, Lineage(n)' = {n} \cup Lineage(t),
           \A s \in Scope \ {n} : Lineage(s)' = Lineage(s), SameFates,
           \A c \in Connection : engine'[c].tx = engine[c].tx /\ engine'[c].writes = engine[c].writes
    PROVE  Promised!Next
  <1>1. Promised!Create(n)
    BY ZenonT(60) DEF Promised!Create, Fate, SameFates, Lineage
  <1> QED
    BY <1>1 DEF Promised!Next

LEMMA BeginsIsCut ==
    ASSUME NEW S, NEW early \in Seq(S), NEW late \in Seq(S), Begins(early, late)
    PROVE  early = SubSeq(late, 1, Len(early)) /\ Len(early) \in 0..Len(late)
  <1>1. Len(early) \in Nat /\ Len(late) \in Nat /\ Len(early) <= Len(late)
    BY LenProperties DEF Begins
  <1>2. DOMAIN early = 1..Len(early)
    BY LenProperties
  <1>3. early = [k \in 1..Len(early) |-> late[k]]
    BY <1>2 DEF Begins
  <1>4. SubSeq(late, 1, Len(early)) = [k \in 1..Len(early) |-> late[k]]
    BY <1>1
  <1> QED
    BY <1>1, <1>3, <1>4

\* An answer opens a transaction, ends it, writes in it or undoes a nested one; or is not to be seen.
LEMMA AnswerIsPromised ==
    ASSUME SessionInv, SessionInv', NEW f \in Flow, NEW ok \in BOOLEAN, Answers(f, ok)
    PROVE  Promised!Next \/ UNCHANGED Promised!svars
  <1> DEFINE s == ctx[f]
             j == job[f]
  <1>1. PICK c \in Connection : c = SlotOf(on[f])
    BY FlowAssumption DEF SessionInv, LinearInv, FateInv, HeldInv, TypeInv, TypeOK, SlotOf
  <1>2. /\ FateInv /\ HeldInv /\ ApartInv /\ ByItself(f) /\ Within(on[f]) /\ on[f] \in Querier
        /\ Changes(f, ok) /\ pc[f] \in {"call", "queued"} /\ scope' = scope
        /\ engine[c] \in Session /\ engine'[c] \in Session
    <2>1. FateInv /\ HeldInv /\ ApartInv /\ ByItself(f) /\ TypeInv
      BY DEF SessionInv, LinearInv, FateInv, HeldInv
    <2>2. TypeInv'
      BY DEF SessionInv, LinearInv, FateInv, HeldInv
    <2>3. on[f] \in Querier /\ engine[c] \in Session /\ engine'[c] \in Session
      BY <2>1, <2>2 DEF TypeInv, TypeOK
    <2> QED
      BY <2>1, <2>3, Settles DEF SessionInv, Answers
  <1>3. SameLineages /\ Elsewhere(c)
    BY <1>1, <1>2 DEF SameLineages, Lineage, Elsewhere, Answers
  <1>4. /\ engine[c].tx = NoScope => engine[c].writes = <<>>
        /\ engine'[c].tx = NoScope => engine'[c].writes = <<>>
    BY DEF SessionInv, ApartInv, Inside
  <1>5. committed' = committed /\ undone' = undone => SameFates
    BY <1>2 DEF SameFates, Fate
  <1>6. engine'[c].tx = engine[c].tx /\ engine'[c].writes = engine[c].writes /\ SameFates => UNCHANGED Promised!svars
    BY <1>3, NothingHappens DEF Elsewhere
  <1>7. CASE j.kind = "begin" /\ ok /\ engine'[c].tx = j.scope /\ UNCHANGED <<committed, undone>>
    <2>1. j.scope = s /\ s \in Scope /\ Used(s) /\ scope[s].parent = NoScope /\ held[c] = s
      BY <1>1, <1>2, <1>7, Settles
    <2>2. engine[c].tx # s /\ s \notin committed /\ s \notin undone
      BY <1>2, <1>7, <2>1 DEF HeldInv, FlowInv, NotYet, FateInv, NotEnded, Asks
    <2>3. engine[c].tx = NoScope
      BY <1>2, <2>1, <2>2 DEF HeldInv, OpenIsHeld
    <2>4. engine'[c].writes = <<>>
      BY <1>1, <1>2, <1>7 DEF Changes
    <2>5. Lineage(s) = {s}
      BY <1>2, <2>1, AroundRoot
    <2> QED
      BY <1>3, <1>4, <1>5, <1>7, <2>1, <2>2, <2>3, <2>4, <2>5, SessionOpens DEF Fate
  <1>8. CASE j.kind = "commit" /\ ok /\ engine[c].tx = j.scope /\ engine'[c].tx = NoScope
             /\ committed' = committed \cup {j.scope} /\ undone' = undone
    <2>1. PICK t \in Scope : t = j.scope
      BY <1>2, <1>8, Settles
    <2>2. Fate(t)' = "committed" /\ \A u \in Scope \ {t} : Fate(u)' = Fate(u)
      BY <1>2, <1>8, <2>1 DEF Fate
    <2> QED
      BY <1>3, <1>4, <1>8, <2>1, <2>2, SessionEnds, FlowAssumption
  <1>9. CASE engine'[c].tx = NoScope /\ undone' = undone \cup ({engine[c].tx} \ {NoScope}) /\ committed' = committed
    <2>1. CASE engine[c].tx = NoScope
      BY <1>4, <1>5, <1>6, <1>9, <2>1
    <2>2. CASE engine[c].tx # NoScope
      <3>1. PICK t \in Scope : t = engine[c].tx
        BY <1>2, <2>2 DEF Session
      <3>2. scope[t].parent = NoScope /\ t \notin committed
        BY <1>2, <2>2, <3>1 DEF FateInv, OpenOnce
      <3>3. Fate(t)' = "undone" /\ \A u \in Scope \ {t} : Fate(u)' = Fate(u)
        BY <1>2, <1>9, <2>2, <3>1, <3>2 DEF Fate
      <3> QED
        BY <1>3, <1>4, <1>9, <2>2, <3>1, <3>3, SessionEnds
    <2> QED
      BY <2>1, <2>2
  <1>10. CASE j.kind = "rollbackTo" /\ ok /\ engine'[c].tx = engine[c].tx
              /\ undone' = undone \cup {j.scope} /\ committed' = committed
    <2>1. j.scope = s /\ s \in Scope /\ s # NoScope /\ Used(s) /\ scope[s].parent # NoScope
      <3>1. j.kind \in Deep
        BY <1>10 DEF Deep
      <3>2. FateInv /\ Answers(f, ok)
        BY <1>2
      <3> HIDE DEF j
      <3>3. j.scope = s /\ s \in Scope /\ Used(s) /\ scope[s].parent # NoScope
        BY <3>1, <3>2, Settles DEF j
      <3> QED
        BY <3>3, FlowAssumption
    <2>2. SameFates
      BY <1>2, <1>10, <2>1 DEF SameFates, Fate
    <2>3. InOwn(f) /\ RootOf(s) \in Lineage(s) /\ scope[RootOf(s)].parent = NoScope
      BY <1>2, <2>1, InsideOwn DEF HeldInv, Scopes, ScopeMade
    <2>c. CASE engine[c].tx = NoScope
      BY <1>4, <1>6, <1>10, <2>2, <2>c
    <2>4. engine[c].tx # NoScope => engine[c].tx = RootOf(s)
      <3>1. held[c] = RootOf(s)
        BY <1>1, <1>2, <1>10, <2>3 DEF HeldInv, FlowInv, Holding
      <3> QED
        BY <1>2, <3>1 DEF HeldInv, OpenIsHeld
    <2>5. /\ engine[c].writes \in Seq(Scope \cup {NoScope}) /\ engine'[c].writes \in Seq(Scope \cup {NoScope})
          /\ DOMAIN engine[c].writes = 1..Len(engine[c].writes)
          /\ \A i \in DOMAIN engine[c].writes : engine[c].writes[i] \in Scope
      <3>1. WritesUsed(engine[c])
        BY DEF SessionInv
      <3>2. engine[c].writes \in Seq(Scope \cup {NoScope}) /\ engine'[c].writes \in Seq(Scope \cup {NoScope})
        BY <1>2 DEF Session
      <3>3. \A i \in 1..Len(engine[c].writes) : engine[c].writes[i] \in Scope \cup {NoScope}
        BY <3>2, ElementOfSeq
      <3> QED
        BY <3>1, <3>2, <3>3, LenProperties DEF WritesUsed
    <2>6. /\ Begins(engine'[c].writes, engine[c].writes)
          /\ \A i \in DOMAIN engine[c].writes : i > Len(engine'[c].writes) => s \in Lineage(engine[c].writes[i])
      BY <1>1, <1>10, RollbackToDrops
    <2>7. PICK n \in 0..Len(engine[c].writes) :
            n = Len(engine'[c].writes) /\ engine'[c].writes = SubSeq(engine[c].writes, 1, n)
      BY <2>5, <2>6, BeginsIsCut
    <2>8. \A i \in n+1..Len(engine[c].writes) :
             engine[c].writes[i] \in Scope /\ s \in Lineage(engine[c].writes[i])
      BY <2>5, <2>6, <2>7, LenProperties
    <2> QED
      BY <1>3, <1>10, <2>1, <2>2, <2>3, <2>4, <2>7, <2>8, <2>c, SessionUndoes
  <1>11. CASE /\ j.kind \in {"begin", "commit", "rollbackTo"} => ~ok
              /\ engine'[c].tx = engine[c].tx
              /\ UNCHANGED <<committed, undone>>
    <2>1. CASE engine'[c].writes = engine[c].writes
      BY <1>5, <1>6, <1>11, <2>1
    <2>2. CASE /\ j.kind = "statement" /\ Running(on[f], {"statement"}) /\ Caller(on[f]) = f
               /\ engine[c].tx # NoScope
               /\ engine'[c].writes = Append(engine[c].writes, Head(queue[on[f]]).within)
      <3>1. PICK w \in Scope : w = Head(queue[on[f]]).within /\ Used(w) /\ RootOf(w) = engine[c].tx
        BY <1>1, <1>2, <2>2, StatementIsHere
      <3>2. RootOf(w) \in Lineage(w)
        BY <1>2, <3>1 DEF FateInv, Lineages, LineageMade
      <3> QED
        BY <1>3, <1>5, <1>11, <2>2, <3>1, <3>2, SessionWrites
    <2>3. CASE engine'[c].tx = NoScope
      BY <1>4, <1>5, <1>6, <1>11, <2>3
    <2> QED
      BY <1>1, <1>2, <1>11, <2>1, <2>2, <2>3 DEF Changes
  <1> QED
    BY <1>1, <1>7, <1>8, <1>9, <1>10, <1>11 DEF Answers

\* What a flow does on its own creates a scope, or is not to be seen.
LEMMA OwnIsPromised ==
    ASSUME SessionInv, [Next]_vars, UNCHANGED <<engine, committed, undone>>
    PROVE  Promised!Next \/ UNCHANGED Promised!svars
  <1>1. HeldInv /\ FateInv
    BY DEF SessionInv, LinearInv, FateInv
  <1>2. CASE scope' = scope
    <2>1. SameFates /\ SameLineages
      BY <1>2 DEF SameFates, Fate, SameLineages, Lineage
    <2> QED
      BY <2>1, NothingHappens
  <1>3. ASSUME NEW f \in Flow, NEW parent \in Scope \cup {NoScope}, Grown(f, parent)
        PROVE  Promised!Next
    <2>1. PICK n \in Scope : /\ n = NextScope /\ ~Used(n) /\ scope[n] = Unused
                             /\ \A s \in Scope \ {n} : scope'[s] = scope[s]
                             /\ scope'[n].lineage = {n} \cup Lineage(parent)
      BY <1>1, <1>3, LineageIsNew
    <2>2. n \notin committed' /\ n \notin undone'
      BY <1>1, <2>1 DEF FateInv, CommittedAreRoots, UndoneAreSettled
    <2>3. SameFates
      BY <2>1, <2>2 DEF SameFates, Fate
    <2>4. Lineage(n) = {} /\ Lineage(n)' = {n} \cup Lineage(parent)
      BY <2>1, FlowAssumption DEF Lineage, Unused
    <2>5. \A s \in Scope \ {n} : Lineage(s)' = Lineage(s)
      BY <2>1, FlowAssumption DEF Lineage
    <2> QED
      BY <2>3, <2>4, <2>5, SessionGrows
  <1>4. \A f \in Flow : ctx[f] \in Scope \cup {NoScope}
    BY <1>1 DEF HeldInv, TypeInv, TypeOK
  <1> QED
    BY <1>1, <1>2, <1>3, <1>4, ScopeStep

LEMMA NextIsPromised ==
    ASSUME NothingShared, SessionInv, [Next]_vars
    PROVE  [Promised!Next]_(Promised!svars)
  <1>1. SessionInv' /\ HeldInv
    BY NextSession DEF SessionInv, LinearInv, FateInv
  <1>2. CASE \E f \in Flow : UserStep(f) \/ FlowStep(f)
    <2>1. PICK f \in Flow : UserStep(f) \/ FlowStep(f)
      BY <1>2
    <2>2. CASE Refuse(f)
      BY <1>1, <2>2, RefusalAnswers, AnswerIsPromised
    <2>3. CASE ~Refuse(f)
      <3>1. UNCHANGED <<engine, committed, undone>>
        BY <1>1, <2>1, <2>3, StepGoes DEF Goes
      <3> QED
        BY <3>1, OwnIsPromised
    <2> QED
      BY <2>2, <2>3
  <1>3. CASE \E q \in Querier : QuerierStep(q)
    <2>1. PICK q \in Querier : QuerierStep(q)
      BY <1>3
    <2>2. Caller(q) \in Flow /\ \E ok \in BOOLEAN : Answers(Caller(q), ok)
      BY <1>1, <2>1, CallerWaits, QuerierFrame, TaskAnswers
    <2> QED
      BY <1>1, <2>2, AnswerIsPromised
  <1>4. CASE UNCHANGED vars
    BY <1>4, OwnIsPromised DEF vars, engineVars
  <1> QED
    BY <1>2, <1>3, <1>4 DEF Next

LEMMA InitIsPromised ==
    ASSUME Init
    PROVE  Promised!Init
  <1>1. \A s \in Scope : Lineage(s) = {} /\ Fate(s) = "new"
    BY FlowAssumption DEF Init, Unused, Lineage, Fate
  <1>2. \A c \in Connection : engine[c].tx = NoScope /\ engine[c].writes = <<>>
    BY DEF Init, NoTransaction
  <1> QED
    BY <1>1, <1>2 DEF Promised!Init, Fate

\* A connection keeps the promise of SerialSession to flows that await each call before the next, where no two
\* queriers share its handle: one transaction at a time, which opens once and ends once; a write in it comes from
\* inside it; and a nested transaction is undone alone, back to where its own writes began.  Every step of the
\* queues, the slot, the savepoints and the refused commands is one of those steps, or is not to be seen.
THEOREM IsSerialSessionAlways ==
    ASSUME NothingByHand, NothingShared, NoBranches
    PROVE  Spec => IsSerialSession
  <1>1. Init => SessionInv /\ Promised!Init
    BY InitSession, InitIsPromised
  <1>2. SessionInv /\ [Next]_vars => SessionInv' /\ [Promised!Next]_(Promised!svars)
    BY NextSession, NextIsPromised
  <1> QED
    BY <1>1, <1>2, PTL DEF Spec, IsSerialSession, Promised!Spec

=============================================================================
