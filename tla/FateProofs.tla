----------------------------- MODULE FateProofs -----------------------------
(***************************************************************************)
(* How the transactions and the nested ones of a program that uses         *)
(* `transaction` alone end, and what it means for the callbacks they       *)
(* gathered: an onCommit callback runs only for a transaction that         *)
(* committed, or whose COMMIT the database answered over a rollback, in no *)
(* savepoint that was undone; and, where no stream is read, a transaction  *)
(* holds its connection only while its flow runs it.                       *)
(*                                                                         *)
(* The invariant says of each scope which are around it, of each set of    *)
(* ended scopes what is in it, and of each flow that what it still runs    *)
(* has not ended.                                                          *)
(***************************************************************************)
EXTENDS TransactionsProofs

-----------------------------------------------------------------------------
(***************************************************************************)
(* The invariant.                                                          *)
(***************************************************************************)
\* The scopes around a scope: of one transaction, each at a smaller depth.
LineageMade(s) ==
    Used(s) =>
      /\ Lineage(s) = {s} \cup Lineage(scope[s].parent)
      /\ RootOf(s) \in Lineage(s)
      /\ \A t \in Lineage(s) : /\ Used(t)
                               /\ RootOf(t) = RootOf(s)
                               /\ Lineage(t) \subseteq Lineage(s)
                               /\ t # s => scope[t].depth < scope[s].depth
      /\ scope[s].parent # NoScope => scope[s].depth = scope[scope[s].parent].depth + 1
Lineages == \A s \in Scope : LineageMade(s)

\* A nested transaction settles, and it alone; one that was undone has settled.  A root that committed was not undone.
SettledAreNested == \A s \in settled : Used(s) /\ scope[s].parent # NoScope
UndoneAreSettled == \A s \in undone : Used(s) /\ (scope[s].parent # NoScope => s \in settled)
CommittedAreRoots == \A s \in committed : Used(s) /\ scope[s].parent = NoScope /\ s \notin undone

\* The database's transaction is a root of a querier on that connection, and has not ended.
OpenOnce(c) ==
    LET tx == engine[c].tx IN
    tx # NoScope => /\ scope[tx].parent = NoScope
                    /\ SlotOf(scope[tx].querier) = c
                    /\ tx \notin committed \cup undone
NotEnded(f) == pc[f] = "claim" \/ Asks(f, {"begin"}) => job[f].scope \notin committed \cup undone

\* Where a flow runs, and goes back to: what it opened there has not settled.
Deep == {"savepoint", "releaseSavepoint", "rollbackTo"}
Where(f) == Lineage(ctx[f]) \cup IF InOwn(f) THEN Lineage(scope[RootOf(ctx[f])].outer) ELSE {}
Unsettled(f) ==
    /\ \A x \in Where(f) : scope[x].flow = f => x \notin settled
    /\ pc[f] = "nest" => job[f].scope \notin settled
    /\ Asks(f, Deep) => scope[ctx[f]].flow = f

\* A scope gathers the callbacks of those inside it that released their savepoints.
Gathered ==
    \A u \in Scope : \A t \in onCommit[u] :
        /\ Used(u) /\ Used(t) /\ u \in Lineage(t)
        /\ \A x \in Lineage(t) \ Lineage(u) : x \in settled \ undone
Ran ==
    \A t \in ran : /\ Used(t)
                   /\ RootOf(t) \in committed \cup Gone
                   /\ Lineage(t) \cap undone \subseteq {RootOf(t)}
                   /\ \A x \in Lineage(t) : scope[x].parent # NoScope => x \in settled
RanRoots == \A f \in Flow : pc[f] = "callbacks" => Used(job[f].scope) /\ scope[job[f].scope].parent = NoScope

FateInv ==
    /\ HeldInv
    /\ Lineages
    /\ SettledAreNested /\ UndoneAreSettled /\ CommittedAreRoots
    /\ \A c \in Connection : OpenOnce(c)
    /\ \A f \in Flow : NotEnded(f) /\ Unsettled(f)
    /\ Gathered /\ Ran /\ RanRoots

-----------------------------------------------------------------------------
(***************************************************************************)
(* The scopes around a scope.                                              *)
(***************************************************************************)
\* A step creates one scope, or none.
Grown(f, parent) == Fresh # {} /\ scope' = NewScope(f, parent, FALSE)

LEMMA ScopeStep ==
    ASSUME HeldInv, [Next]_vars
    PROVE  \/ scope' = scope
           \/ \E f \in Flow : Grown(f, NoScope) \/ (ctx[f] # NoScope /\ Used(ctx[f]) /\ Grown(f, ctx[f]))
  <1> USE DEF slotVars, querierVars, flowVars, engineVars
  <1>1. CASE \E q \in Querier : QuerierStep(q)
    BY <1>1, QuerierFrame
  <1>2. ASSUME NEW f \in Flow, UserStep(f) \/ FlowStep(f)
        PROVE  \/ scope' = scope
               \/ Grown(f, NoScope) \/ (ctx[f] # NoScope /\ Used(ctx[f]) /\ Grown(f, ctx[f]))
    <2>1. ctx[f] # NoScope => Used(ctx[f])
      BY DEF HeldInv, FlowInv, Calls
    <2>2. Nested(f) => ctx[f] # NoScope /\ Grown(f, ctx[f])
      <3>1. ScopeHere(f) \in {ctx[f], NoScope}
        BY ScopeHereIsContext
      <3> QED
        BY <3>1 DEF Nested, Grown
    <2>3. Transaction(f) => Grown(f, NoScope)
      BY DEF Transaction, Grown
    <2> QED
      BY <1>2, <2>1, <2>2, <2>3, NeverByHand
      DEF UserStep, FlowStep, Statement, OnCommit, StreamNext, StreamEnd, Return, Throw, Start,
          Claim, NestedTurn, StreamTurn, Serialize, Refuse, Settle, RunCallbacks
  <1>3. CASE UNCHANGED vars
    BY <1>3 DEF vars
  <1> QED
    BY <1>1, <1>2, <1>3 DEF Next

LEMMA LineageIsNew ==
    ASSUME HeldInv, NEW f \in Flow, NEW parent \in Scope \cup {NoScope}, Grown(f, parent)
    PROVE  /\ NextScope \in Scope /\ ~Used(NextScope) /\ Kept /\ scope[NextScope] = Unused
           /\ \A s \in Scope \ {NextScope} : scope'[s] = scope[s]
           /\ scope'[NextScope].flow = f
           /\ scope'[NextScope].parent = parent
           /\ scope'[NextScope].outer = ctx[f]
           /\ scope'[NextScope].lineage = {NextScope} \cup Lineage(parent)
           /\ scope'[NextScope].root = IF parent = NoScope THEN NextScope ELSE RootOf(parent)
           /\ scope'[NextScope].depth = IF parent = NoScope THEN 0 ELSE scope[parent].depth + 1
  <1>n. PICK n \in Scope : n = NextScope /\ scope[n] = Unused
    BY NextScopeType DEF Grown
  <1>1. scope \in [Scope -> ScopeRecord]
    BY DEF HeldInv, TypeInv, TypeOK
  <1>2. ~Used(n)
    BY <1>n DEF Used, Unused
  <1>3. \A s \in Scope \ {n} : scope'[s] = scope[s]
    BY <1>n, <1>1 DEF NewScope, Grown
  <1>4. Kept
    BY <1>2, <1>3 DEF Kept
  <1>5. /\ scope'[n].flow = f
        /\ scope'[n].parent = parent
        /\ scope'[n].outer = ctx[f]
        /\ scope'[n].lineage = {n} \cup Lineage(parent)
        /\ scope'[n].root = IF parent = NoScope THEN n ELSE RootOf(parent)
        /\ scope'[n].depth = IF parent = NoScope THEN 0 ELSE scope[parent].depth + 1
    BY <1>n, <1>1 DEF NewScope, Grown
  <1> QED
    BY <1>n, <1>2, <1>3, <1>4, <1>5

\* What a used scope is, and those around it, stays.
LEMMA LineageStays ==
    ASSUME HeldInv, Lineages, Kept, NEW s \in Scope, Used(s)
    PROVE  /\ Used(s)'
           /\ scope'[s] = scope[s]
           /\ Lineage(s)' = Lineage(s)
           /\ RootOf(s)' = RootOf(s)
           /\ s \in Lineage(s)
           /\ RootOf(s) \in Scope /\ Used(RootOf(s)) /\ scope[RootOf(s)].parent = NoScope
           /\ RootOf(s) \in Lineage(s)
           /\ \A t \in Lineage(s) : /\ t \in Scope /\ Used(t)
                                    /\ scope'[t] = scope[t]
                                    /\ Lineage(t)' = Lineage(t)
                                    /\ RootOf(t) = RootOf(s)
                                    /\ scope[t].parent = NoScope => t = RootOf(s)
                                    /\ t # s => scope[t].depth < scope[s].depth
  <1>1. scope'[s] = scope[s] /\ Used(s)' /\ s # NoScope
    BY FlowAssumption DEF Kept, Used
  <1>2. Lineage(s) \subseteq Scope /\ Lineage(s)' = Lineage(s)
    BY <1>1 DEF Lineage, HeldInv, TypeInv, TypeOK, ScopeRecord
  <1>3. LineageMade(s) /\ ScopeMade(s)
    BY DEF Lineages, HeldInv, Scopes
  <1>4. ASSUME NEW t \in Lineage(s)
        PROVE  /\ t \in Scope /\ Used(t)
               /\ scope'[t] = scope[t]
               /\ Lineage(t)' = Lineage(t)
               /\ RootOf(t) = RootOf(s)
               /\ scope[t].parent = NoScope => t = RootOf(s)
               /\ t # s => scope[t].depth < scope[s].depth
    <2>1. t \in Scope /\ Used(t) /\ RootOf(t) = RootOf(s) /\ (t # s => scope[t].depth < scope[s].depth)
      BY <1>2, <1>3 DEF LineageMade
    <2>2. scope'[t] = scope[t]
      BY <2>1 DEF Kept
    <2>3. scope[t].parent = NoScope => RootOf(t) = t
      BY <2>1 DEF HeldInv, Scopes, RootMade
    <2> QED
      BY <2>1, <2>2, <2>3 DEF Lineage
  <1> QED
    BY <1>1, <1>2, <1>3, <1>4 DEF LineageMade, ScopeMade, RootOf

LEMMA LineagesStay ==
    ASSUME HeldInv, Lineages, [Next]_vars
    PROVE  Kept /\ Lineages'
  <1>1. CASE scope' = scope
    BY <1>1 DEF Kept, Lineages, LineageMade, Lineage, Used, RootOf
  <1>2. ASSUME NEW f \in Flow, NEW p \in Scope \cup {NoScope}, p # NoScope => Used(p), Grown(f, p)
        PROVE  Kept /\ Lineages'
    <2>n. PICK n \in Scope :
            /\ n = NextScope /\ ~Used(n) /\ Kept
            /\ \A s \in Scope \ {n} : scope'[s] = scope[s]
            /\ scope'[n].flow = f
            /\ scope'[n].parent = p
            /\ scope'[n].lineage = {n} \cup Lineage(p)
            /\ scope'[n].root = IF p = NoScope THEN n ELSE RootOf(p)
            /\ scope'[n].depth = IF p = NoScope THEN 0 ELSE scope[p].depth + 1
      BY <1>2, LineageIsNew
    <2>1. n # NoScope /\ f # NoFlow
      BY FlowAssumption
    <2>2. ASSUME NEW s \in Scope \ {n} PROVE LineageMade(s)'
      <3>1. scope'[s] = scope[s] /\ LineageMade(s)
        BY <2>n DEF Lineages
      <3>2. CASE ~Used(s)
        BY <3>1, <3>2 DEF LineageMade, Used
      <3>3. CASE Used(s)
        <4>1. \A t \in Lineage(s) : t \in Scope /\ Used(t) /\ scope'[t] = scope[t] /\ Lineage(t)' = Lineage(t)
          BY <2>n, <3>3, LineageStays
        <4>2. Lineage(s)' = Lineage(s) /\ RootOf(s)' = RootOf(s)
          BY <2>n, <3>3, LineageStays
        <4>3. scope[s].parent # NoScope => /\ scope'[scope[s].parent] = scope[scope[s].parent]
                                           /\ Lineage(scope[s].parent)' = Lineage(scope[s].parent)
          <5>1. scope[s].parent # NoScope => Used(scope[s].parent) /\ scope[s].parent \in Scope
            BY <3>3 DEF HeldInv, Scopes, NestedMade, TypeInv, TypeOK, ScopeRecord
          <5> QED
            BY <2>n, <3>1, <5>1 DEF Kept, Lineage
        <4>4. scope[s].parent = NoScope => Lineage(scope[s].parent)' = Lineage(scope[s].parent)
          BY <3>1 DEF Lineage
        <4> QED
          BY <3>1, <3>3, <4>1, <4>2, <4>3, <4>4 DEF LineageMade, Used, RootOf
      <3> QED
        BY <3>2, <3>3
    <2>3. LineageMade(n)'
      <3>1. Lineage(n)' = {n} \cup Lineage(p) /\ RootOf(n)' = (IF p = NoScope THEN n ELSE RootOf(p)) /\ Used(n)'
        BY <2>n, <2>1 DEF Lineage, RootOf, Used
      <3>2. CASE p = NoScope
        <4>1. Lineage(n)' = {n} /\ Lineage(p)' = {}
          BY <3>1, <3>2 DEF Lineage
        <4> QED
          BY <2>n, <3>1, <3>2, <4>1 DEF LineageMade
      <3>3. CASE p # NoScope
        <4>1. /\ p \in Scope /\ Used(p) /\ p # n
              /\ scope'[p] = scope[p] /\ Lineage(p)' = Lineage(p) /\ RootOf(p) \in Lineage(p)
              /\ scope[p].depth \in Nat
          BY <1>2, <2>n, <3>3, LineageStays DEF HeldInv, TypeInv, TypeOK, ScopeRecord
        <4>2. ASSUME NEW t \in Lineage(p)
              PROVE  /\ Used(t)' /\ RootOf(t)' = RootOf(p)
                     /\ Lineage(t)' \subseteq Lineage(p)
                     /\ scope'[t].depth < scope[p].depth + 1
          <5>1. /\ t \in Scope /\ Used(t) /\ scope'[t] = scope[t] /\ Lineage(t)' = Lineage(t)
                /\ RootOf(t) = RootOf(p)
                /\ t # p => scope[t].depth < scope[p].depth
            BY <2>n, <4>1, LineageStays
          <5>2. Lineage(t) \subseteq Lineage(p)
            BY <4>1 DEF Lineages, LineageMade
          <5>3. scope[t].depth \in Nat
            BY <5>1 DEF HeldInv, TypeInv, TypeOK, ScopeRecord
          <5>4. scope[t].depth < scope[p].depth + 1
            BY <4>1, <5>1, <5>3
          <5> QED
            BY <5>1, <5>2, <5>4 DEF Used, RootOf
        <4>3. scope'[n].depth = scope[p].depth + 1
          BY <2>n, <3>3
        <4> QED
          BY <2>n, <3>1, <3>3, <4>1, <4>2, <4>3 DEF LineageMade
      <3> QED
        BY <3>2, <3>3
    <2> QED
      BY <2>n, <2>2, <2>3 DEF Lineages
  <1>3. \A f \in Flow : ctx[f] \in Scope \cup {NoScope}
    BY DEF HeldInv, TypeInv, TypeOK
  <1> QED
    BY <1>1, <1>2, <1>3, ScopeStep

-----------------------------------------------------------------------------
(***************************************************************************)
(* What a step may end: an answer or a refusal, or nothing.                *)
(***************************************************************************)
\* What a task makes of the session of its connection: its writes and its savepoints.
Changes(f, ok) ==
    LET c == SlotOf(on[f])
        j == job[f]
        e == engine[c]
        later == engine'[c]
    IN
    \/ /\ later.writes = e.writes /\ later.saves = e.saves
       /\ j.kind \in {"begin", "releaseSavepoint", "rollbackTo", "commit"} => ~ok
       /\ j.kind = "savepoint" => ~ok \/ e.tx = NoScope
    \/ /\ j.kind = "statement" /\ Running(on[f], {"statement"}) /\ Caller(on[f]) = f /\ e.tx # NoScope
       /\ later.writes = Append(e.writes, Head(queue[on[f]]).within) /\ later.saves = e.saves
    \/ /\ j.kind \in {"begin", "commit", "rollback"} \/ (~ok /\ j.kind \in Commands)
       /\ j.kind = "begin" => ok
       /\ later.tx = IF j.kind = "begin" THEN j.scope ELSE NoScope
       /\ later.writes = <<>> /\ later.saves = <<>>
    \/ /\ j.kind = "savepoint" /\ ok
       /\ later.writes = e.writes
       /\ later.saves = Append(e.saves, [depth |-> scope[j.scope].depth, writes |-> e.writes])
    \/ /\ j.kind = "releaseSavepoint" /\ ok
       /\ later.writes = e.writes
       /\ \E i \in Named(c, j.scope) : later.saves = SubSeq(e.saves, 1, i - 1)
    \/ /\ j.kind = "rollbackTo" /\ ok
       /\ \E i \in Named(c, j.scope) : later.writes = e.saves[i].writes /\ later.saves = SubSeq(e.saves, 1, i)

Answers(f, ok) ==
    LET c == SlotOf(on[f])
        j == job[f]
    IN
    /\ pc[f] \in {"call", "queued"}
    /\ Settle(f, ok)
    /\ \A g \in Flow \ {f} : Steady(g)
    /\ \A d \in Connection \ {c} : engine'[d] = engine[d]
    /\ Changes(f, ok)
    /\ ran' = ran
    /\ Gone \subseteq Gone' /\ spoiled \subseteq spoiled'
    /\ j.kind = "rollbackTo" => pc[f] = "call" \/ j.scope \in undone' \cup spoiled'
    /\ \/ /\ j.kind = "begin" /\ ok
          /\ engine'[c].tx = j.scope
          /\ UNCHANGED <<committed, undone>>
       \/ /\ j.kind = "commit" /\ ok
          /\ engine[c].tx = j.scope
          /\ engine'[c].tx = NoScope
          /\ committed' = committed \cup {j.scope}
          /\ undone' = undone
       \/ /\ j.kind \in {"commit", "rollback"} \/ (~ok /\ j.kind \in Commands)
          /\ engine'[c].tx = NoScope
          /\ undone' = undone \cup ({engine[c].tx} \ {NoScope})
          /\ committed' = committed
       \/ /\ j.kind = "rollbackTo" /\ ok
          /\ engine'[c].tx = engine[c].tx
          /\ undone' = undone \cup {j.scope}
          /\ committed' = committed
       \/ /\ j.kind \in {"begin", "commit", "rollbackTo"} => ~ok
          /\ j.kind = "rollback" => pc[f] = "call"
          /\ engine'[c].tx = engine[c].tx
          /\ UNCHANGED <<committed, undone>>

LEMMA SettleSteady ==
    ASSUME HeldInv, NEW f \in Flow, NEW ok, Settle(f, ok)
    PROVE  \A g \in Flow \ {f} : Steady(g)
  BY DEF Settle, Steady, HeldInv, TypeInv, TypeOK

LEMMA RefusalAnswers ==
    ASSUME HeldInv, NEW f \in Flow, Refuse(f)
    PROVE  Answers(f, FALSE)
  <1>1. pc[f] = "call" /\ Settle(f, FALSE) /\ ran' = ran /\ UNCHANGED <<engine, committed, undone, spoiled>>
    BY DEF Refuse, engineVars
  <1>2. \A g \in Flow \ {f} : Steady(g)
    BY <1>1, SettleSteady
  <1>3. Changes(f, FALSE)
    BY <1>1 DEF Changes
  <1> HIDE DEF Settle
  <1> QED
    BY <1>1, <1>2, <1>3 DEF Answers, Gone

LEMMA TaskAnswers ==
    ASSUME HeldInv, NEW q \in Querier, QuerierStep(q)
    PROVE  \E ok \in BOOLEAN : Answers(Caller(q), ok)
  <1>f. PICK f \in Flow : f = Caller(q)
    BY CallerWaits, QuerierFrame
  <1>q. /\ queue[q] # <<>> /\ pc[f] = "queued" /\ on[f] = q
        /\ Head(queue[q]).kind = job[f].kind /\ Head(queue[q]).scope = job[f].scope
        /\ job[f].kind \notin {"check", "handback"}
        /\ SlotOf(on[f]) = SlotOf(q)
    BY <1>f, CallerWaits, QuerierFrame
  <1> DEFINE c == SlotOf(q)
             j == job[f]
             e == engine[c]
             later == engine'[c]
             Ended == later.tx = NoScope /\ later.writes = <<>> /\ later.saves = <<>>
             Rest == /\ \A d \in Connection \ {c} : engine'[d] = engine[d]
                     /\ ran' = ran
  <1>c. c \in Connection /\ engine \in [Connection -> Session] /\ e \in Session /\ conn[q] = "mine"
    BY FlowAssumption DEF HeldInv, TypeInv, TypeOK, SlotOf
  <1>1. Rest
    <2>1. \A d \in Connection \ {c} : engine'[d] = engine[d]
      BY QuerierFrame
    <2>2. ran' = ran
      BY DEF QuerierStep, CommandFails, RunStatement, RunBegin, CloseNothing, RunCommit, CommitFails, RunRollback, RunSavepoint,
             RunReleaseSavepoint, RunRollbackTo, RunHandBack, Closing
    <2> QED
      BY <2>1, <2>2
  <1>s. ASSUME NEW ok \in BOOLEAN, Settle(f, ok), Changes(f, ok),
               undone \subseteq undone', spoiled \subseteq spoiled',
               j.kind = "rollbackTo" => j.scope \in undone' \cup spoiled',
               \/ j.kind = "begin" /\ ok /\ later.tx = j.scope /\ UNCHANGED <<committed, undone>>
               \/ /\ j.kind = "commit" /\ ok
                  /\ e.tx = j.scope /\ later.tx = NoScope
                  /\ committed' = committed \cup {j.scope} /\ undone' = undone
               \/ /\ j.kind \in {"commit", "rollback"} \/ (~ok /\ j.kind \in Commands)
                  /\ later.tx = NoScope
                  /\ undone' = undone \cup ({e.tx} \ {NoScope}) /\ committed' = committed
               \/ /\ j.kind = "rollbackTo" /\ ok
                  /\ later.tx = e.tx
                  /\ undone' = undone \cup {j.scope} /\ committed' = committed
               \/ /\ j.kind \in {"begin", "commit", "rollbackTo"} => ~ok
                  /\ j.kind # "rollback"
                  /\ later.tx = e.tx /\ UNCHANGED <<committed, undone>>
        PROVE  \E k \in BOOLEAN : Answers(Caller(q), k)
    <2>1. \A g \in Flow \ {f} : Steady(g)
      BY <1>s, SettleSteady
    <2>2. Gone \subseteq Gone'
      BY <1>s DEF Gone
    <2>3. Answers(f, ok)
      BY <1>1, <1>q, <1>s, <2>1, <2>2 DEF Answers
    <2> QED
      BY <1>f, <2>3
  <1>n. ASSUME engine' = [engine EXCEPT ![c] = NoTransaction] PROVE Ended
    BY <1>c, <1>n DEF NoTransaction
  <1> HIDE DEF e, later
  <1>u. ASSUME NEW ok \in BOOLEAN, engine' = engine,
               j.kind \in {"begin", "releaseSavepoint", "rollbackTo", "commit"} => ~ok,
               j.kind = "savepoint" => ~ok \/ e.tx = NoScope
        PROVE  Changes(f, ok) /\ later.tx = e.tx
    BY <1>q, <1>u DEF Changes, e, later
  <1>2. CASE RunStatement(q)
    <2>1. Settle(f, TRUE) /\ j.kind = "statement" /\ UNCHANGED <<committed, undone, spoiled>>
      BY <1>2, <1>f, <1>q DEF RunStatement, Running
    <2>2. later.tx = e.tx
      BY <1>2, <1>c, TaskKeepsTx DEF e, later
    <2>4. CASE engine' = engine
      <3>1. Changes(f, TRUE)
        BY <1>u, <2>1, <2>4
      <3> QED
        BY <1>s, <2>1, <2>2, <3>1
    <2>5. CASE engine' # engine
      <3> DEFINE w == Head(queue[q]).within
      <3>1. engine' = [engine EXCEPT ![c].writes = Append(@, w)] /\ e.tx # NoScope /\ Running(q, {"statement"})
        BY <1>2, <2>5 DEF RunStatement, e
      <3> HIDE DEF w
      <3>2. later.writes = Append(e.writes, w) /\ later.saves = e.saves
        BY <1>c, <3>1 DEF e, later, Session
      <3>3. Changes(f, TRUE)
        BY <1>f, <1>q, <2>1, <3>1, <3>2 DEF Changes, e, later, w
      <3> QED
        BY <1>s, <2>1, <2>2, <3>3
    <2> QED
      BY <2>4, <2>5
  <1>10. CASE CommandFails(q)
    <2>1. /\ j.kind \in Commands /\ Settle(f, FALSE) /\ committed' = committed
          /\ spoiled \subseteq spoiled'
          /\ j.kind = "rollbackTo" => j.scope \in spoiled'
          /\ \/ UNCHANGED <<engine, undone>>
             \/ /\ engine' = [engine EXCEPT ![c] = NoTransaction]
                /\ e.tx # NoScope /\ undone' = undone \cup {e.tx}
      BY <1>10, <1>f, <1>q DEF CommandFails, Commands, Running, e
    <2>2. CASE UNCHANGED <<engine, undone>>
      <3>1. Changes(f, FALSE) /\ later.tx = e.tx
        BY <1>u, <2>2
      <3> QED
        BY <1>s, <2>1, <2>2, <3>1 DEF Commands
    <2>3. CASE /\ engine' = [engine EXCEPT ![c] = NoTransaction]
               /\ e.tx # NoScope /\ undone' = undone \cup {e.tx}
      <3>1. Ended
        BY <1>n, <2>3
      <3>2. Changes(f, FALSE)
        BY <1>q, <2>1, <3>1 DEF Changes, Commands, later
      <3>3. undone' = undone \cup ({e.tx} \ {NoScope}) /\ undone \subseteq undone'
        BY <2>3
      <3> HIDE DEF Changes, Settle
      <3> QED
        BY <1>s, <2>1, <3>1, <3>2, <3>3
    <2> QED
      BY <2>1, <2>2, <2>3
  <1>3. CASE RunBegin(q)
    <2>1. j.kind = "begin" /\ UNCHANGED <<committed, undone, spoiled>>
      BY <1>3, <1>q DEF RunBegin, Running
    <2>2. CASE Settle(f, TRUE) /\ engine' = [engine EXCEPT ![c] = [NoTransaction EXCEPT !.tx = Head(queue[q]).scope]]
      <3>1. later.tx = j.scope /\ later.writes = <<>> /\ later.saves = <<>>
        BY <1>c, <1>q, <2>2 DEF NoTransaction, later
      <3>2. Changes(f, TRUE)
        BY <1>q, <2>1, <3>1 DEF Changes, later
      <3> QED
        BY <1>s, <2>1, <2>2, <3>1, <3>2
    <2>3. CASE Settle(f, FALSE) /\ engine' = engine
      <3>1. Changes(f, FALSE) /\ later.tx = e.tx
        BY <1>u, <2>1, <2>3
      <3> QED
        BY <1>s, <2>1, <2>3, <3>1
    <2> QED
      BY <1>3, <1>f, <2>2, <2>3 DEF RunBegin
  <1>4. CASE RunCommit(q)
    <2>1. /\ j.kind = "commit" /\ Settle(f, TRUE) /\ spoiled' = spoiled
          /\ \/ undone' = undone \cup ({e.tx} \ {NoScope}) /\ committed' = committed
             \/ committed' = committed \cup ({e.tx} \ {NoScope}) /\ undone' = undone
          /\ engine' = [engine EXCEPT ![c] = NoTransaction]
      BY <1>4, <1>f, <1>q DEF RunCommit, Closing, Running, e
    <2>2. e.tx \in {NoScope, j.scope} /\ j.scope # NoScope
      BY <1>f, <1>q, <2>1, TaskHolds DEF e
    <2>3. Ended
      BY <1>n, <2>1
    <2>4. Changes(f, TRUE)
      BY <1>q, <2>1, <2>3 DEF Changes, later
    <2>5. CASE undone' = undone \cup ({e.tx} \ {NoScope}) /\ committed' = committed
      BY <1>s, <2>1, <2>3, <2>4, <2>5
    <2>6. CASE committed' = committed \cup ({e.tx} \ {NoScope}) /\ undone' = undone
      <3>1. CASE e.tx = NoScope
        <4>1. undone' = undone \cup ({e.tx} \ {NoScope}) /\ committed' = committed
          BY <2>6, <3>1
        <4> QED
          BY <2>5, <4>1
      <3>2. CASE e.tx = j.scope
        <4>1. committed' = committed \cup {j.scope}
          BY <2>2, <2>6, <3>2
        <4> QED
          BY <1>s, <2>1, <2>3, <2>4, <2>6, <3>2, <4>1
      <3> QED
        BY <2>2, <3>1, <3>2
    <2> QED
      BY <2>1, <2>5, <2>6
  <1>5. CASE CommitFails(q)
    <2>1. j.kind = "commit" /\ Settle(f, FALSE) /\ UNCHANGED <<committed, spoiled>>
      BY <1>5, <1>f, <1>q DEF CommitFails, Closing, Running
    <2>2. CASE UNCHANGED <<engine, undone>>
      <3>1. Changes(f, FALSE) /\ later.tx = e.tx
        BY <1>u, <2>1, <2>2
      <3> QED
        BY <1>s, <2>1, <2>2, <3>1
    <2>3. CASE /\ undone' = undone \cup ({e.tx} \ {NoScope})
               /\ engine' = [engine EXCEPT ![c] = NoTransaction]
      <3>1. Ended
        BY <1>n, <2>3
      <3>2. Changes(f, FALSE)
        BY <1>q, <2>1, <3>1 DEF Changes, later
      <3> QED
        BY <1>s, <2>1, <2>3, <3>1, <3>2
    <2> QED
      BY <1>5, <2>2, <2>3 DEF CommitFails, e
  <1>6. CASE RunRollback(q)
    <2>1. /\ j.kind = "rollback" /\ UNCHANGED <<committed, spoiled>>
          /\ Settle(f, TRUE) \/ Settle(f, FALSE)
          /\ undone' = undone \cup ({e.tx} \ {NoScope})
          /\ engine' = [engine EXCEPT ![c] = NoTransaction]
      BY <1>6, <1>c, <1>f, <1>q DEF RunRollback, Closing, Running, Connected, e
    <2>2. Ended
      BY <1>n, <2>1
    <2>3. \A ok \in BOOLEAN : Changes(f, ok)
      BY <1>q, <2>1, <2>2 DEF Changes, later
    <2> QED
      BY <1>s, <2>1, <2>2, <2>3
  <1>7. CASE RunSavepoint(q)
    <2>1. j.kind = "savepoint" /\ Settle(f, TRUE) /\ UNCHANGED <<committed, undone, spoiled>>
      BY <1>7, <1>f, <1>q DEF RunSavepoint, Running
    <2>2. later.tx = e.tx
      BY <1>7, <1>c, TaskKeepsTx DEF e, later
    <2>3. CASE e.tx = NoScope /\ engine' = engine
      <3>1. Changes(f, TRUE)
        BY <1>u, <2>1, <2>3
      <3> QED
        BY <1>s, <2>1, <2>2, <3>1
    <2> DEFINE save == [depth |-> scope[Head(queue[q]).scope].depth, writes |-> engine[c].writes]
    <2>4. CASE engine' = [engine EXCEPT ![c].saves = Append(@, save)]
      <3>1. save = [depth |-> scope[j.scope].depth, writes |-> e.writes]
        BY <1>q DEF e
      <3> HIDE DEF save
      <3>2. later.writes = e.writes /\ later.saves = Append(e.saves, save)
        BY <1>c, <2>4 DEF e, later, Session
      <3>3. Changes(f, TRUE)
        BY <1>q, <2>1, <3>1, <3>2 DEF Changes, e, later
      <3> QED
        BY <1>s, <2>1, <2>2, <3>3
    <2> QED
      BY <1>7, <2>3, <2>4 DEF RunSavepoint, e
  <1>8. CASE RunReleaseSavepoint(q)
    <2>1. j.kind = "releaseSavepoint" /\ Settle(f, TRUE) /\ UNCHANGED <<committed, undone, spoiled>>
      BY <1>8, <1>f, <1>q DEF RunReleaseSavepoint, Running
    <2>2. later.tx = e.tx
      BY <1>8, <1>c, TaskKeepsTx DEF e, later
    <2>4. PICK i \in Named(c, j.scope) : engine' = [engine EXCEPT ![c].saves = SubSeq(@, 1, i - 1)]
      BY <1>8, <1>q DEF RunReleaseSavepoint
    <2>5. later.writes = e.writes /\ later.saves = SubSeq(e.saves, 1, i - 1)
      BY <1>c, <2>4 DEF e, later, Session
    <2>6. Changes(f, TRUE)
      BY <1>q, <2>1, <2>5 DEF Changes, e, later
    <2> QED
      BY <1>s, <2>1, <2>2, <2>6
  <1>9. CASE RunRollbackTo(q)
    <2>1. /\ j.kind = "rollbackTo" /\ Settle(f, TRUE) /\ UNCHANGED <<committed, spoiled>>
          /\ undone' = undone \cup {j.scope}
      BY <1>9, <1>f, <1>q DEF RunRollbackTo, Running
    <2>2. later.tx = e.tx
      BY <1>9, <1>c, TaskKeepsTx DEF e, later
    <2>3. PICK i \in Named(c, j.scope) :
            engine' = [engine EXCEPT ![c].writes = engine[c].saves[i].writes, ![c].saves = SubSeq(@, 1, i)]
      BY <1>9, <1>q DEF RunRollbackTo
    <2> DEFINE w == engine[c].saves[i].writes
               v == SubSeq(engine[c].saves, 1, i)
    <2>4. engine' = [engine EXCEPT ![c].writes = w, ![c].saves = v]
      BY <1>c, <2>3 DEF e, Session
    <2>5. w = e.saves[i].writes /\ v = SubSeq(e.saves, 1, i)
      BY DEF e
    <2> HIDE DEF w, v
    <2>6. later.writes = w /\ later.saves = v
      BY <1>c, <2>4 DEF e, later, Session
    <2>7. Changes(f, TRUE)
      BY <1>q, <2>1, <2>5, <2>6 DEF Changes, e, later
    <2> QED
      BY <1>s, <2>1, <2>2, <2>7
  <1> QED
    BY <1>2, <1>3, <1>4, <1>5, <1>6, <1>7, <1>8, <1>9, <1>10, NothingToClose DEF QuerierStep

\* What a flow does on its own ends nothing: it registers a callback, or runs those of what committed.
Goes(f) ==
    /\ UNCHANGED <<settled, committed, undone, spoiled, engine>>
    /\ pc[f] \notin {"idle", "queued"}
    /\ \A g \in Flow \ {f} : pc[g] # "idle" => Steady(g)
    /\ \/ onCommit' = onCommit
       \/ /\ pc[f] = "run" /\ ctx[f] # NoScope /\ ctx'[f] = ctx[f]
          /\ onCommit' = [onCommit EXCEPT ![ctx[f]] = @ \cup {ctx[f]}]
    /\ ran' = IF pc[f] = "callbacks" THEN ran \cup onCommit[job[f].scope] ELSE ran

LEMMA StepGoes ==
    ASSUME HeldInv, NEW f \in Flow, UserStep(f) \/ FlowStep(f), ~Refuse(f)
    PROVE  Goes(f)
  <1> USE DEF slotVars, querierVars, engineVars, flowVars
  <1>1. /\ pc[f] \notin {"idle", "queued"}
        /\ \A g \in Flow \ {f} : pc[g] # "idle" => Steady(g)
        /\ engine' = engine
    BY FlowFrame
  <1>2. UNCHANGED <<settled, committed, undone, spoiled>>
    BY NeverByHand
    DEF UserStep, FlowStep, Statement, Transaction, Nested, OnCommit, StreamNext, StreamEnd, Return, Throw, Start,
        Claim, NestedTurn, StreamTurn, Serialize, RunCallbacks
  <1>3. CASE OnCommit(f)
    <2>1. ScopeHere(f) \in {ctx[f], NoScope}
      BY ScopeHereIsContext
    <2>2. /\ pc[f] = "run" /\ ctx[f] # NoScope /\ ctx' = ctx /\ ran' = ran
          /\ onCommit' = [onCommit EXCEPT ![ctx[f]] = @ \cup {ctx[f]}]
      BY <1>3, <2>1 DEF OnCommit, CanCall
    <2> QED
      BY <1>1, <1>2, <2>2 DEF Goes
  <1>4. CASE RunCallbacks(f)
    BY <1>1, <1>2, <1>4 DEF RunCallbacks, Goes
  <1>5. CASE ~OnCommit(f) /\ ~RunCallbacks(f)
    <2>1. UNCHANGED <<onCommit, ran>> /\ pc[f] # "callbacks"
      BY <1>5, NeverByHand
      DEF UserStep, FlowStep, Statement, Transaction, Nested, StreamNext, StreamEnd, Return, Throw, Start,
          Claim, NestedTurn, StreamTurn, Serialize, CanCall
    <2> QED
      BY <1>1, <1>2, <2>1 DEF Goes
  <1> QED
    BY <1>3, <1>4, <1>5

-----------------------------------------------------------------------------
(***************************************************************************)
(* An answer.                                                              *)
(***************************************************************************)
\* What the flow that is answered was asking about, and what becomes of it.
LEMMA Settles ==
    ASSUME FateInv, NEW f \in Flow, NEW ok \in BOOLEAN, Answers(f, ok)
    PROVE  LET j == job[f]
               s == ctx[f]
           IN
           /\ UNCHANGED <<scope, on>>
           /\ j.kind \in Deep =>
                /\ j.scope = s /\ s \in Scope /\ Used(s) /\ scope[s].flow = f
                /\ scope[s].parent # NoScope /\ scope[s].outer = scope[s].parent
                /\ s \notin settled
           /\ j.kind \in {"begin", "commit", "rollback"} =>
                /\ j.scope = s /\ s \in Scope /\ Used(s) /\ scope[s].flow = f
                /\ scope[s].parent = NoScope /\ RootOf(s) = s
                /\ scope[s].querier = on[f] /\ held[SlotOf(on[f])] = s
           /\ Ends(j, ok) => j.kind \in Deep \cup {"begin", "commit", "rollback"}
           /\ j.kind \in {"rollback", "rollbackTo"} => Ends(j, ok)
           /\ j.kind \in {"commit", "releaseSavepoint"} => (Ends(j, ok) <=> ok)
           /\ j.kind \in {"begin", "savepoint"} => (Ends(j, ok) <=> ~ok)
           /\ settled' = settled \cup (IF j.kind \in Deep /\ Ends(j, ok) THEN {s} ELSE {})
           /\ ctx'[f] = (IF Ends(j, ok) THEN scope[s].outer ELSE s)
           /\ pc'[f] \in {"run", "callbacks", "abort"}
           /\ pc'[f] = "callbacks" <=> j.kind = "commit" /\ ok
           /\ pc'[f] = "callbacks" => job'[f] = j
           /\ j.kind = "releaseSavepoint" /\ ok => onCommit' = [onCommit EXCEPT ![scope[s].parent] = @ \cup onCommit[s]]
           /\ ~(j.kind = "releaseSavepoint" /\ ok) => onCommit' = onCommit
  <1> DEFINE j == job[f]
             s == ctx[f]
  <1>1. pc[f] \in {"call", "queued"} /\ Settle(f, ok)
    BY DEF Answers
  <1>2. HeldInv /\ Calls(f) /\ Sends(f) /\ Unsettled(f) /\ j.kind \notin {"check", "handback"}
    BY DEF FateInv, HeldInv, FlowInv, Calls
  <1>3. ASSUME j.kind \in Deep
        PROVE  /\ j.scope = s /\ s \in Scope /\ Used(s) /\ scope[s].flow = f
               /\ scope[s].parent # NoScope /\ scope[s].outer = scope[s].parent
               /\ s \notin settled /\ OwnTransaction(j)
    <2>1. j.scope = s /\ s # NoScope /\ scope[s].parent # NoScope /\ scope[s].flow = f
      BY <1>1, <1>2, <1>3 DEF Sends, Asks, Deep, Unsettled
    <2>2. s \in Scope /\ Used(s)
      BY <1>2, <2>1 DEF Calls, HeldInv, TypeInv, TypeOK
    <2>3. s \in Lineage(s)
      BY <2>2 DEF FateInv, Lineages, LineageMade
    <2>4. s \in Where(f)
      BY <2>3 DEF Where
    <2>5. scope[s].outer = scope[s].parent /\ ~scope[s].manual
      BY <1>2, <2>1, <2>2 DEF HeldInv, Scopes, NestedMade, ScopeMade
    <2> QED
      BY <1>2, <2>1, <2>2, <2>4, <2>5 DEF Unsettled, OwnTransaction
  <1>4. ASSUME j.kind \in {"begin", "commit", "rollback"}
        PROVE  /\ j.scope = s /\ s \in Scope /\ Used(s) /\ scope[s].flow = f
               /\ scope[s].parent = NoScope /\ RootOf(s) = s
               /\ scope[s].querier = on[f] /\ held[SlotOf(on[f])] = s /\ OwnTransaction(j)
    <2>1. Asks(f, {"begin", "commit", "rollback"})
      BY <1>1, <1>4 DEF Asks
    <2>2. /\ j.scope = s /\ s \in Scope /\ AtRoot(f) /\ OwnTransaction(j)
          /\ RootOf(s) = s /\ held[SlotOf(on[f])] = s
      BY <1>2, <2>1, AtRootHolds
    <2>3. Used(s)
      BY <1>2, <2>2 DEF AtRoot, Calls
    <2> QED
      BY <1>2, <2>2, <2>3 DEF AtRoot, HeldInv, Scopes, ScopeMade
  <1>5. /\ Ends(j, ok) => j.kind \in Deep \cup {"begin", "commit", "rollback"}
        /\ j.kind \in {"rollback", "rollbackTo"} => Ends(j, ok)
        /\ j.kind \in {"commit", "releaseSavepoint"} => (Ends(j, ok) <=> ok)
        /\ j.kind \in {"begin", "savepoint"} => (Ends(j, ok) <=> ~ok)
    BY <1>3, <1>4 DEF Ends, Deep
  <1>6. EndsNested(j, ok) <=> j.kind \in Deep /\ Ends(j, ok)
    BY <1>3, <1>4, <1>5 DEF EndsNested
  <1>7. /\ UNCHANGED <<scope, on>>
        /\ pc'[f] = NextPlace(j, ok)
        /\ pc'[f] = "callbacks" => job'[f] = j
        /\ ctx'[f] = IF Ends(j, ok) THEN scope[j.scope].outer ELSE s
        /\ settled' = IF EndsNested(j, ok) THEN settled \cup {j.scope} ELSE settled
        /\ onCommit' = IF Ends(j, ok) /\ j.kind = "releaseSavepoint"
                       THEN [onCommit EXCEPT ![scope[j.scope].parent] = @ \cup onCommit[j.scope]]
                       ELSE onCommit
    BY <1>1, <1>2 DEF Settle, HeldInv, TypeInv, TypeOK
  <1>8. pc'[f] \in {"run", "callbacks", "abort"} /\ (pc'[f] = "callbacks" <=> j.kind = "commit" /\ ok)
    BY <1>2, <1>7 DEF NextPlace
  <1>9. settled' = settled \cup (IF j.kind \in Deep /\ Ends(j, ok) THEN {s} ELSE {})
    BY <1>3, <1>6, <1>7
  <1>10. ctx'[f] = IF Ends(j, ok) THEN scope[s].outer ELSE s
    BY <1>3, <1>4, <1>5, <1>7
  <1>11. /\ j.kind = "releaseSavepoint" /\ ok => onCommit' = [onCommit EXCEPT ![scope[s].parent] = @ \cup onCommit[s]]
         /\ ~(j.kind = "releaseSavepoint" /\ ok) => onCommit' = onCommit
    BY <1>3, <1>5, <1>7 DEF Deep
  <1> HIDE DEF Settle, Ends
  <1> QED
    BY <1>3, <1>4, <1>5, <1>7, <1>8, <1>9, <1>10, <1>11

\* What a flow still runs and goes back to is used, and stays what it is.
LEMMA WhereStays ==
    ASSUME FateInv, Kept, NEW f \in Flow, ctx'[f] = ctx[f]
    PROVE  /\ Where(f)' = Where(f)
           /\ \A x \in Where(f) : x \in Scope /\ Used(x) /\ scope'[x] = scope[x]
           /\ InOwn(f)' = InOwn(f)
  <1>0. HeldInv /\ Lineages /\ ctx[f] \in Scope \cup {NoScope}
    BY DEF FateInv, HeldInv, TypeInv, TypeOK
  <1>1. ASSUME NEW s \in Scope \cup {NoScope}, s # NoScope => Used(s)
        PROVE  /\ Lineage(s)' = Lineage(s)
               /\ \A x \in Lineage(s) : x \in Scope /\ Used(x) /\ scope'[x] = scope[x]
    <2>1. CASE s = NoScope
      BY <2>1 DEF Lineage
    <2>2. CASE s # NoScope
      BY <1>0, <1>1, <2>2, LineageStays
    <2> QED
      BY <2>1, <2>2
  <1>2. ctx[f] # NoScope => Used(ctx[f])
    BY DEF FateInv, HeldInv, FlowInv, Calls
  <1>3. /\ Lineage(ctx[f])' = Lineage(ctx[f])
        /\ \A x \in Lineage(ctx[f]) : x \in Scope /\ Used(x) /\ scope'[x] = scope[x]
    <2>1. PICK s \in Scope \cup {NoScope} : s = ctx[f]
      BY <1>0
    <2>2. Lineage(s)' = Lineage(s) /\ \A x \in Lineage(s) : x \in Scope /\ Used(x) /\ scope'[x] = scope[x]
      BY <1>1, <1>2, <2>1
    <2> QED
      BY <2>1, <2>2 DEF Lineage
  <1>4. CASE ctx[f] = NoScope
    BY <1>3, <1>4 DEF Where, InOwn
  <1>5. CASE ctx[f] # NoScope
    <2> DEFINE r == RootOf(ctx[f])
               o == scope[r].outer
    <2>1. /\ RootOf(ctx[f])' = RootOf(ctx[f]) /\ r \in Scope /\ Used(r) /\ scope[r].parent = NoScope
          /\ scope'[r] = scope[r]
      <3>1. PICK s \in Scope : s = ctx[f] /\ Used(s)
        BY <1>0, <1>2, <1>5
      <3>2. RootOf(s)' = RootOf(s) /\ RootOf(s) \in Scope /\ Used(RootOf(s)) /\ scope[RootOf(s)].parent = NoScope
        BY <1>0, <3>1, LineageStays
      <3> QED
        BY <3>1, <3>2 DEF RootOf, Kept
    <2>2. InOwn(f)' = InOwn(f)
      BY <2>1 DEF InOwn
    <2>3. o \in Scope \cup {NoScope} /\ (o # NoScope => Used(o))
      BY <1>0, <2>1 DEF HeldInv, Scopes, RootMade, TypeInv, TypeOK, ScopeRecord
    <2>4. Lineage(o)' = Lineage(o) /\ \A x \in Lineage(o) : x \in Scope /\ Used(x) /\ scope'[x] = scope[x]
      <3>1. PICK s \in Scope \cup {NoScope} : s = o
        BY <2>3
      <3>2. Lineage(s)' = Lineage(s) /\ \A x \in Lineage(s) : x \in Scope /\ Used(x) /\ scope'[x] = scope[x]
        BY <1>1, <2>3, <3>1
      <3> QED
        BY <2>1, <3>1, <3>2 DEF Lineage
    <2>5. Lineage(scope[RootOf(ctx[f])].outer)' = Lineage(o)
      BY <2>1, <2>4 DEF Lineage
    <2> HIDE DEF o, r
    <2>6. Where(f) = Lineage(ctx[f]) \cup IF InOwn(f) THEN Lineage(o) ELSE {}
      BY DEF Where, o, r
    <2>7. Where(f)' = Lineage(ctx[f])' \cup IF InOwn(f)' THEN Lineage(scope[RootOf(ctx[f])].outer)' ELSE {}
      BY DEF Where
    <2>8. Where(f)' = Where(f)
      BY <1>3, <2>2, <2>5, <2>6, <2>7
    <2> QED
      BY <1>3, <2>2, <2>4, <2>6, <2>8
  <1> QED
    BY <1>4, <1>5

LEMMA AnswerKeepsUnsettled ==
    ASSUME FateInv, NEW f \in Flow, NEW ok \in BOOLEAN, Answers(f, ok), NEW g \in Flow
    PROVE  Unsettled(g)'
  <1> DEFINE j == job[f]
             s == ctx[f]
  <1>1. /\ UNCHANGED <<scope, on>>
        /\ j.kind \in Deep =>
             /\ s \in Scope /\ Used(s) /\ scope[s].flow = f
             /\ scope[s].parent # NoScope /\ scope[s].outer = scope[s].parent
        /\ j.kind \in {"begin", "commit", "rollback"} =>
             s \in Scope /\ Used(s) /\ scope[s].flow = f /\ scope[s].parent = NoScope /\ RootOf(s) = s
        /\ Ends(j, ok) => j.kind \in Deep \cup {"begin", "commit", "rollback"}
        /\ settled' = settled \cup (IF j.kind \in Deep /\ Ends(j, ok) THEN {s} ELSE {})
        /\ ctx'[f] = (IF Ends(j, ok) THEN scope[s].outer ELSE s)
        /\ pc'[f] \in {"run", "callbacks", "abort"}
    BY Settles
  <1>2. HeldInv /\ Lineages /\ Unsettled(g) /\ Unsettled(f) /\ Kept
    BY <1>1 DEF FateInv, Kept
  <1>3. CASE g # f
    <2>1. Steady(g)
      BY <1>3 DEF Answers
    <2>2. Where(g)' = Where(g)
      BY <1>2, <2>1, WhereStays DEF Steady
    <2>3. ASSUME NEW x, scope[x].flow = g, x \notin settled PROVE x \notin settled'
      BY <1>1, <1>3, <2>3
    <2>4. pc[g] = "nest" => scope[job[g].scope].flow = g
      BY <1>2 DEF HeldInv, FlowInv, Sends
    <2> QED
      BY <1>1, <1>2, <2>1, <2>2, <2>3, <2>4 DEF Unsettled, Steady, Asks
  <1>4. CASE g = f
    <2>0. ~(pc'[f] = "nest") /\ ~Asks(f, Deep)'
      BY <1>1 DEF Asks
    <2>1. CASE ~Ends(j, ok)
      <3>1. ctx'[f] = ctx[f] /\ settled' = settled
        BY <1>1, <2>1
      <3>2. Where(f)' = Where(f)
        BY <1>2, <3>1, WhereStays
      <3> QED
        BY <1>1, <1>2, <1>4, <2>0, <3>1, <3>2 DEF Unsettled
    <2>2. CASE Ends(j, ok) /\ j.kind \in {"begin", "commit", "rollback"}
      <3> DEFINE o == scope[s].outer
      <3>1. ctx'[f] = o /\ settled' = settled
        BY <1>1, <2>2 DEF Deep
      <3>2. o # NoScope => scope[RootOf(o)].flow # f
        BY <1>1, <1>2, <2>2 DEF HeldInv, Scopes, RootMade
      <3>3. Where(f)' = Lineage(o)
        BY <1>1, <3>1, <3>2 DEF Where, InOwn, Lineage, RootOf
      <3>4. Lineage(o) \subseteq Where(f)
        <4>1. InOwn(f) /\ RootOf(ctx[f]) = s
          BY <1>1, <2>2, FlowAssumption DEF InOwn
        <4> QED
          BY <4>1 DEF Where
      <3> QED
        BY <1>1, <1>2, <1>4, <2>0, <3>1, <3>3, <3>4 DEF Unsettled
    <2>3. CASE Ends(j, ok) /\ j.kind \in Deep
      <3> DEFINE p == scope[s].parent
                 r == RootOf(s)
      <3>1. /\ s \in Scope /\ Used(s) /\ s # NoScope /\ p # NoScope /\ ctx'[f] = p
            /\ settled' = settled \cup {s}
        BY <1>1, <2>3, FlowAssumption
      <3>2. /\ Used(p) /\ p \in Scope /\ RootOf(p) = r
        BY <1>2, <3>1 DEF HeldInv, Scopes, NestedMade, TypeInv, TypeOK, ScopeRecord
      <3>3. Lineage(s) = {s} \cup Lineage(p) /\ scope[s].depth = scope[p].depth + 1
        BY <1>2, <3>1 DEF Lineages, LineageMade
      <3>4. s \notin Lineage(p)
        <4>1. s \in Lineage(p) /\ s # p => scope[s].depth < scope[p].depth
          BY <1>2, <3>1, <3>2, LineageStays
        <4>2. scope[s].depth \in Nat /\ scope[p].depth \in Nat
          BY <1>2, <3>1, <3>2 DEF HeldInv, TypeInv, TypeOK, ScopeRecord
        <4> QED
          BY <3>3, <4>1, <4>2
      <3>5. InOwn(f)' = InOwn(f) /\ RootOf(ctx[f])' = r
        BY <1>1, <3>1, <3>2 DEF InOwn, RootOf
      <3>6. Where(f)' = Lineage(p) \cup IF InOwn(f) THEN Lineage(scope[r].outer) ELSE {}
        BY <1>1, <3>1, <3>5 DEF Where, Lineage
      <3>7. Where(f)' \subseteq Where(f)
        BY <3>3, <3>6 DEF Where
      <3>8. InOwn(f) => s \notin Lineage(scope[r].outer)
        <4> SUFFICES ASSUME InOwn(f), s \in Lineage(scope[r].outer) PROVE FALSE
          OBVIOUS
        <4>1. r \in Scope /\ Used(r) /\ scope[r].parent = NoScope /\ scope[r].flow = f
          BY <1>2, <3>1, LineageStays DEF InOwn
        <4>2. PICK o \in Scope : o = scope[r].outer
          BY <1>2, <4>1 DEF Lineage, HeldInv, TypeInv, TypeOK, ScopeRecord
        <4>3. o # NoScope
          BY FlowAssumption
        <4>4. Used(o) /\ scope[RootOf(o)].flow # f
          BY <1>2, <4>1, <4>2, <4>3 DEF HeldInv, Scopes, RootMade
        <4>5. RootOf(s) = RootOf(o)
          BY <1>2, <4>2, <4>4, LineageStays
        <4> QED
          BY <4>1, <4>4, <4>5
      <3>9. s \notin Where(f)'
        BY <3>4, <3>6, <3>8
      <3> QED
        BY <1>1, <1>2, <1>4, <2>0, <3>1, <3>7, <3>9 DEF Unsettled
    <2> QED
      BY <1>1, <2>1, <2>2, <2>3
  <1> QED
    BY <1>3, <1>4

\* What an answer adds to the sets of ended scopes: a root that was open, or a nested one that had not settled.
LEMMA AnswerEnds ==
    ASSUME FateInv, NEW f \in Flow, NEW ok \in BOOLEAN, Answers(f, ok)
    PROVE  LET c == SlotOf(on[f])
               tx == engine[c].tx
               s == ctx[f]
           IN
           /\ c \in Connection
           /\ settled \subseteq settled' /\ committed \subseteq committed' /\ undone \subseteq undone'
           /\ \A x \in settled' \ settled : x = s /\ Used(x) /\ scope[x].parent # NoScope /\ scope[x].flow = f
           /\ \A x \in committed' \ committed :
                /\ x \in Scope /\ Used(x) /\ scope[x].parent = NoScope
                /\ x = tx /\ engine'[c].tx = NoScope /\ undone' = undone
           /\ \A x \in undone' \ undone :
                /\ x \in Scope /\ Used(x)
                /\ committed' = committed
                /\ \/ x = tx /\ engine'[c].tx = NoScope /\ scope[x].parent = NoScope
                   \/ x \in settled' \ settled /\ scope[x].parent # NoScope
           /\ job[f].kind = "releaseSavepoint" /\ ok => undone' = undone
           /\ Gone \subseteq Gone'
  <1> DEFINE c == SlotOf(on[f])
             tx == engine[c].tx
             j == job[f]
             s == ctx[f]
  <1>c. c \in Connection
    BY FlowAssumption DEF FateInv, HeldInv, TypeInv, TypeOK, SlotOf
  <1>1. /\ j.kind \in Deep =>
             /\ j.scope = s /\ s \in Scope /\ Used(s) /\ scope[s].flow = f /\ scope[s].parent # NoScope
             /\ s \notin settled
        /\ j.kind \in {"begin", "commit", "rollback"} => j.scope = s
        /\ j.kind = "rollbackTo" => Ends(j, ok)
        /\ settled' = settled \cup (IF j.kind \in Deep /\ Ends(j, ok) THEN {s} ELSE {})
    BY Settles
  <1>2. tx # NoScope => tx \in Scope /\ Used(tx) /\ scope[tx].parent = NoScope
    BY <1>c DEF FateInv, HeldInv, OpenOnce, TypeInv, TypeOK, Session
  <1>3. \/ UNCHANGED <<committed, undone>>
        \/ /\ j.kind = "commit" /\ ok /\ tx = j.scope /\ engine'[c].tx = NoScope
           /\ committed' = committed \cup {j.scope} /\ undone' = undone
        \/ /\ j.kind = "releaseSavepoint" => ~ok
           /\ engine'[c].tx = NoScope
           /\ undone' = undone \cup ({tx} \ {NoScope}) /\ committed' = committed
        \/ j.kind = "rollbackTo" /\ undone' = undone \cup {j.scope} /\ committed' = committed
    BY DEF Answers
  <1>g. Gone \subseteq Gone'
    BY DEF Answers
  <1>4. j.kind = "commit" /\ tx = j.scope => tx # NoScope
    <2>1. j \in Job
      BY DEF FateInv, HeldInv, TypeInv, TypeOK
    <2> QED
      BY <2>1 DEF Job, NeedsScope
  <1> HIDE DEF c, tx, j, s
  <1>5. j.kind = "releaseSavepoint" /\ ok => undone' = undone
    BY <1>3
  <1>6. CASE UNCHANGED <<committed, undone>>
    BY <1>c, <1>g, <1>1, <1>6 DEF c, tx, j, s
  <1>7. CASE /\ j.kind = "commit" /\ ok /\ tx = j.scope /\ engine'[c].tx = NoScope
             /\ committed' = committed \cup {j.scope} /\ undone' = undone
    BY <1>c, <1>g, <1>1, <1>2, <1>4, <1>7 DEF c, tx, j, s
  <1>8. CASE /\ j.kind = "releaseSavepoint" => ~ok
             /\ engine'[c].tx = NoScope
             /\ undone' = undone \cup ({tx} \ {NoScope}) /\ committed' = committed
    BY <1>c, <1>g, <1>1, <1>2, <1>8 DEF Deep, c, tx, j, s
  <1>9. CASE j.kind = "rollbackTo" /\ undone' = undone \cup {j.scope} /\ committed' = committed
    BY <1>c, <1>g, <1>1, <1>9 DEF Deep, c, tx, j, s
  <1> QED
    BY <1>3, <1>6, <1>7, <1>8, <1>9

LEMMA AnswerKeepsEnds ==
    ASSUME FateInv, NEW f \in Flow, NEW ok \in BOOLEAN, Answers(f, ok)
    PROVE  /\ SettledAreNested' /\ UndoneAreSettled' /\ CommittedAreRoots'
           /\ \A d \in Connection : OpenOnce(d)'
           /\ \A g \in Flow : NotEnded(g)'
  <1> DEFINE c == SlotOf(on[f])
             tx == engine[c].tx
             j == job[f]
             s == ctx[f]
  <1>1. /\ c \in Connection
        /\ settled \subseteq settled' /\ committed \subseteq committed' /\ undone \subseteq undone'
        /\ \A x \in settled' \ settled : Used(x) /\ scope[x].parent # NoScope
        /\ \A x \in committed' \ committed :
             /\ x \in Scope /\ Used(x) /\ scope[x].parent = NoScope
             /\ x = tx /\ engine'[c].tx = NoScope /\ undone' = undone
        /\ \A x \in undone' \ undone :
             /\ x \in Scope /\ Used(x)
             /\ committed' = committed
             /\ \/ x = tx /\ engine'[c].tx = NoScope /\ scope[x].parent = NoScope
                \/ x \in settled' \ settled /\ scope[x].parent # NoScope
    BY AnswerEnds
  <1>2. /\ UNCHANGED <<scope, on>>
        /\ j.kind = "begin" =>
                /\ j.scope = s /\ Used(s)
                /\ scope[s].parent = NoScope
                /\ scope[s].querier = on[f]
        /\ pc'[f] \in {"run", "callbacks", "abort"}
    BY Settles
  <1>3. /\ SettledAreNested /\ UndoneAreSettled /\ CommittedAreRoots
        /\ \A d \in Connection : OpenOnce(d)
        /\ \A g \in Flow : NotEnded(g)
        /\ HeldInv
    BY DEF FateInv
  <1>4. SettledAreNested'
    BY <1>1, <1>2, <1>3 DEF SettledAreNested, Used
  <1>5. UndoneAreSettled'
    BY <1>1, <1>2, <1>3 DEF UndoneAreSettled, Used
  <1>6. CommittedAreRoots'
    <2> SUFFICES ASSUME NEW x \in committed'
                 PROVE  Used(x) /\ scope[x].parent = NoScope /\ x \notin undone'
      BY <1>2 DEF CommittedAreRoots, Used
    <2> HIDE DEF c, tx
    <2>0. tx # NoScope => tx \notin committed \cup undone
      BY <1>1, <1>3 DEF OpenOnce, c, tx
    <2>1. CASE x \in committed
      <3>1. Used(x) /\ scope[x].parent = NoScope /\ x \notin undone
        BY <1>3, <2>1 DEF CommittedAreRoots
      <3>2. x \in undone' \ undone => FALSE
        BY <1>1, <2>0, <2>1, <3>1, FlowAssumption
      <3> QED
        BY <3>1, <3>2
    <2>2. CASE x \notin committed
      BY <1>1, <2>0, <2>2, FlowAssumption
    <2> QED
      BY <2>1, <2>2
  <1>7. ASSUME NEW d \in Connection PROVE OpenOnce(d)'
    <2> DEFINE t == engine'[d].tx
    <2> SUFFICES ASSUME t # NoScope
                 PROVE  scope[t].parent = NoScope /\ SlotOf(scope[t].querier) = d /\ t \notin committed' \cup undone'
      BY <1>2 DEF OpenOnce, SlotOf
    <2>1. CASE t = engine[d].tx
      <3>1. scope[t].parent = NoScope /\ SlotOf(scope[t].querier) = d /\ t \notin committed \cup undone
        BY <1>3, <2>1 DEF OpenOnce
      <3>2. ASSUME t = tx, engine'[c].tx = NoScope PROVE FALSE
        <4>1. SlotOf(scope[tx].querier) = c
          BY <1>1, <1>3, <3>2 DEF OpenOnce
        <4> QED
          BY <3>1, <3>2, <4>1
      <3> QED
        BY <1>1, <3>1, <3>2
    <2>2. CASE t # engine[d].tx
      <3>1. /\ d = c /\ j.kind = "begin" /\ t = j.scope
            /\ UNCHANGED <<committed, undone>>
            /\ pc[f] \in {"call", "queued"}
        BY <2>2 DEF Answers
      <3>2. j.scope \notin committed \cup undone
        BY <1>3, <3>1 DEF NotEnded, Asks
      <3> QED
        BY <1>2, <3>1, <3>2
    <2> QED
      BY <2>1, <2>2
  <1>8. ASSUME NEW g \in Flow PROVE NotEnded(g)'
    <2>1. CASE g = f
      BY <1>2, <2>1 DEF NotEnded, Asks
    <2>2. CASE g # f
      <3> SUFFICES ASSUME pc[g] = "claim" \/ Asks(g, {"begin"})
                   PROVE  job[g].scope \notin committed' \cup undone'
        BY <2>2 DEF NotEnded, Answers, Steady, Asks
      <3>1. scope[job[g].scope].parent = NoScope
        BY <1>3 DEF HeldInv, FlowInv, Sends, AtRoot, Asks
      <3>2. tx # job[g].scope
        BY <1>1, <1>3 DEF HeldInv, FlowInv, NotYet
      <3>3. job[g].scope \notin committed \cup undone
        BY <1>3 DEF NotEnded
      <3> QED
        BY <1>1, <3>1, <3>2, <3>3
    <2> QED
      BY <2>1, <2>2
  <1> QED
    BY <1>4, <1>5, <1>6, <1>7, <1>8

\* A scope hands over what it gathered as its savepoint is released; nothing that ran is undone.
LEMMA AnswerKeepsCallbacks ==
    ASSUME FateInv, NEW f \in Flow, NEW ok \in BOOLEAN, Answers(f, ok)
    PROVE  Gathered' /\ Ran' /\ RanRoots'
  <1> DEFINE c == SlotOf(on[f])
             tx == engine[c].tx
             j == job[f]
             s == ctx[f]
             p == scope[s].parent
  <1>0. /\ HeldInv /\ Lineages /\ SettledAreNested /\ UndoneAreSettled
        /\ Gathered /\ Ran /\ RanRoots /\ OpenOnce(c)
        /\ c \in Connection
    BY FlowAssumption DEF FateInv, HeldInv, TypeInv, TypeOK, SlotOf
  <1>1. /\ settled \subseteq settled' /\ committed \subseteq committed' /\ undone \subseteq undone'
        /\ \A x \in undone' \ undone :
             \/ x = tx /\ scope[x].parent = NoScope
             \/ x \in settled' \ settled /\ scope[x].parent # NoScope
        /\ j.kind = "releaseSavepoint" /\ ok => undone' = undone
        /\ Gone \subseteq Gone'
    BY AnswerEnds
  <1>2. /\ UNCHANGED <<scope, on>>
        /\ j.kind \in Deep => s \in Scope /\ Used(s) /\ p # NoScope /\ s \notin settled
        /\ j.kind = "commit" => j.scope = s /\ Used(s) /\ p = NoScope
        /\ j.kind = "releaseSavepoint" => (Ends(j, ok) <=> ok)
        /\ settled' = settled \cup (IF j.kind \in Deep /\ Ends(j, ok) THEN {s} ELSE {})
        /\ pc'[f] = "callbacks" => j.kind = "commit" /\ job'[f] = j
        /\ j.kind = "releaseSavepoint" /\ ok => onCommit' = [onCommit EXCEPT ![p] = @ \cup onCommit[s]]
        /\ ~(j.kind = "releaseSavepoint" /\ ok) => onCommit' = onCommit
    BY Settles
  <1>3. ran' = ran /\ \A g \in Flow \ {f} : Steady(g)
    BY DEF Answers
  <1>4. onCommit \in [Scope -> SUBSET Scope]
    BY <1>0 DEF HeldInv, TypeInv, TypeOK
  <1>5. \A t \in Scope : Lineage(t)' = Lineage(t) /\ (Used(t)' <=> Used(t)) /\ RootOf(t)' = RootOf(t)
    BY <1>2 DEF Lineage, Used, RootOf
  <1> HIDE DEF c, tx, j, s, p
  <1>6. Gathered'
    <2> SUFFICES ASSUME NEW u \in Scope, NEW t \in onCommit'[u]
                 PROVE  /\ Used(u) /\ Used(t) /\ t \in Scope /\ u \in Lineage(t)
                        /\ \A x \in Lineage(t) \ Lineage(u) : x \in settled' \ undone'
      BY <1>5 DEF Gathered
    <2>1. CASE t \in onCommit[u]
      <3>1. /\ Used(u) /\ Used(t) /\ u \in Lineage(t) /\ t \in Scope
            /\ \A x \in Lineage(t) \ Lineage(u) : x \in settled \ undone
        BY <1>0, <1>4, <2>1 DEF Gathered
      <3>2. ASSUME NEW x \in settled, x \notin undone PROVE x \notin undone'
        BY <1>0, <1>1, <3>2 DEF SettledAreNested
      <3> QED
        BY <1>1, <3>1, <3>2
    <2>2. CASE t \notin onCommit[u]
      <3>1. j.kind = "releaseSavepoint" /\ ok /\ u = p /\ t \in onCommit[s]
        BY <1>2, <1>4, <2>2
      <3>2. /\ s \in Scope /\ Used(s) /\ p # NoScope /\ s \notin settled
            /\ s \in settled' /\ undone' = undone
        BY <1>1, <1>2, <3>1 DEF Deep
      <3>3. s \notin undone
        BY <1>0, <3>2 DEF UndoneAreSettled, p
      <3>4. /\ Used(t) /\ s \in Lineage(t) /\ t \in Scope
            /\ \A x \in Lineage(t) \ Lineage(s) : x \in settled \ undone
        BY <1>0, <1>4, <3>1, <3>2 DEF Gathered
      <3>5. Lineage(s) = {s} \cup Lineage(u) /\ Lineage(s) \subseteq Lineage(t)
        BY <1>0, <3>1, <3>2, <3>4 DEF Lineages, LineageMade, p
      <3>6. Used(u) /\ u \in Lineage(u)
        <4>1. Used(u)
          BY <1>0, <3>1, <3>2 DEF HeldInv, Scopes, NestedMade, p
        <4> QED
          BY <1>0, <4>1 DEF Lineages, LineageMade
      <3> QED
        BY <1>1, <3>2, <3>3, <3>4, <3>5, <3>6
    <2> QED
      BY <2>1, <2>2
  <1>7. Ran'
    <2> SUFFICES ASSUME NEW t \in ran
                 PROVE  /\ Used(t) /\ RootOf(t) \in committed' \cup Gone'
                        /\ Lineage(t) \cap undone' \subseteq {RootOf(t)}
                        /\ \A x \in Lineage(t) : scope[x].parent # NoScope => x \in settled'
      <3>1. ran \subseteq Scope
        BY <1>0 DEF HeldInv, TypeInv, TypeOK
      <3> QED
        BY <1>2, <1>3, <1>5, <3>1 DEF Ran
    <2>1. /\ t \in Scope /\ Used(t) /\ RootOf(t) \in committed \cup Gone
          /\ Lineage(t) \cap undone \subseteq {RootOf(t)}
          /\ \A x \in Lineage(t) : scope[x].parent # NoScope => x \in settled
      BY <1>0 DEF Ran, HeldInv, TypeInv, TypeOK
    <2>2. ASSUME NEW x \in Lineage(t), x \in undone' PROVE x = RootOf(t)
      <3>1. SUFFICES ASSUME x \in undone' \ undone PROVE x = RootOf(t)
        BY <2>1, <2>2
      <3>2. ~(x \in settled' \ settled /\ scope[x].parent # NoScope)
        BY <2>1
      <3>3. scope[x].parent = NoScope
        BY <1>1, <3>1, <3>2
      <3>4. Kept
        BY <1>2 DEF Kept
      <3> QED
        BY <1>0, <2>1, <3>3, <3>4, LineageStays
    <2> QED
      BY <1>1, <2>1, <2>2
  <1>8. RanRoots'
    <2> SUFFICES ASSUME NEW g \in Flow, pc'[g] = "callbacks"
                 PROVE  (Used(job[g].scope) /\ scope[job[g].scope].parent = NoScope)'
      BY DEF RanRoots
    <2>1. CASE g = f
      BY <1>2, <2>1 DEF Used, p, j
    <2>2. CASE g # f
      BY <1>0, <1>2, <1>3, <2>2 DEF RanRoots, Steady, Used
    <2> QED
      BY <2>1, <2>2
  <1> QED
    BY <1>6, <1>7, <1>8

-----------------------------------------------------------------------------
(***************************************************************************)
(* A step of a flow's own.                                                 *)
(***************************************************************************)
\* It opens a transaction, or nests one; goes into the one it nested; ends a callback; or keeps its place.
Opens(f) ==
    /\ pc[f] = "run" /\ ~InOwn(f)
    /\ Grown(f, NoScope)
    /\ ctx'[f] = NextScope
    /\ pc'[f] \in {"claim", "call"}
    /\ job'[f] = [kind |-> "begin", scope |-> NextScope]
Nests(f) ==
    /\ pc[f] = "run"
    /\ ctx[f] # NoScope /\ Used(ctx[f])
    /\ Grown(f, ctx[f])
    /\ ctx'[f] = ctx[f]
    /\ pc'[f] = "nest"
    /\ job'[f] = [kind |-> "savepoint", scope |-> NextScope]
GoesIn(f) ==
    /\ pc[f] = "nest" /\ pc'[f] = "call"
    /\ scope' = scope
    /\ ctx'[f] = job[f].scope /\ job'[f] = job[f]
GoesOut(f) ==
    /\ pc[f] \in {"run", "abort"} /\ InCallback(f) /\ pc'[f] = "call"
    /\ scope' = scope
    /\ ctx'[f] = ctx[f] /\ job'[f].scope = ctx[f]
    /\ job'[f].kind \in IF scope[ctx[f]].parent = NoScope THEN {"commit", "rollback"} ELSE {"releaseSavepoint", "rollbackTo"}
Remains(f) ==
    /\ scope' = scope
    /\ ctx'[f] = ctx[f]
    /\ \/ pc[f] \in {"run", "stream", "callbacks"} /\ pc'[f] \in {"run", "stream"}
       \/ pc[f] = "run" /\ pc'[f] = "call" /\ job'[f].kind = "statement"
       \/ pc[f] \in {"claim", "call"} /\ pc'[f] \in {"call", "queued"} /\ job'[f] = job[f]

LEMMA FlowMoves ==
    ASSUME HeldInv, NEW f \in Flow, UserStep(f) \/ FlowStep(f), ~Refuse(f)
    PROVE  Opens(f) \/ Nests(f) \/ GoesIn(f) \/ GoesOut(f) \/ Remains(f)
  <1> USE DEF slotVars, flowVars
  <1>1. TypeOK
    BY DEF HeldInv, TypeInv
  <1>2. CASE Transaction(f)
    <2>1. ~InOwn(f)
      BY <1>2, ScopeHereIsContext DEF Transaction, CanCall
    <2> QED
      BY <1>1, <1>2, <2>1 DEF Transaction, ClaimNow, CanCall, Go, Grown, Opens, TypeOK
  <1>3. CASE Nested(f)
    <2>1. ScopeHere(f) = ctx[f] /\ ctx[f] # NoScope /\ Used(ctx[f])
      BY <1>3, ScopeHereIsContext DEF Nested, HeldInv, FlowInv, Calls
    <2> QED
      BY <1>1, <1>3, <2>1 DEF Nested, CanCall, Go, Grown, Nests, TypeOK
  <1>4. CASE NestedTurn(f)
    BY <1>1, <1>4 DEF NestedTurn, GoesIn, TypeOK
  <1>5. CASE Return(f) \/ Throw(f)
    BY <1>1, <1>5 DEF Return, Throw, Go, GoesOut, TypeOK
  <1>6. CASE Statement(f) \/ OnCommit(f) \/ StreamNext(f) \/ StreamEnd(f)
    BY <1>1, <1>6 DEF Statement, OnCommit, StreamNext, StreamEnd, CanCall, Go, Remains, TypeOK
  <1>7. CASE Claim(f) \/ StreamTurn(f) \/ Serialize(f) \/ RunCallbacks(f)
    BY <1>1, <1>7 DEF Claim, StreamTurn, Serialize, RunCallbacks, Go, Remains, TypeOK
  <1>8. CASE \E g \in Flow : Start(f, g)
    BY <1>1, <1>8 DEF Start, Remains, TypeOK
  <1> QED
    BY <1>2, <1>3, <1>4, <1>5, <1>6, <1>7, <1>8, NeverByHand DEF UserStep, FlowStep

\* A flow that was not started yet is started, or stays so.
Starts(f, g) ==
    /\ pc[g] = "idle" /\ pc'[g] = "run"
    /\ pc[f] = "run" /\ InCallback(f)
    /\ ctx'[g] = ctx[f]
    /\ UNCHANGED <<scope, held, onCommit, ran>>

LEMMA OthersStay ==
    ASSUME HeldInv, NEW f \in Flow, UserStep(f) \/ FlowStep(f), NEW g \in Flow \ {f}
    PROVE  Steady(g) \/ Starts(f, g)
  <1> USE DEF slotVars, flowVars
  <1>1. TypeOK
    BY DEF HeldInv, TypeInv
  <1>2. CASE pc[g] # "idle"
    BY <1>2, FlowFrame
  <1>3. CASE pc[g] = "idle"
    <2>1. CASE \E h \in Flow : Start(f, h)
      BY <1>1, <1>3, <2>1 DEF Start, Steady, Starts, TypeOK
    <2>2. CASE UserStep(f) /\ ~(\E h \in Flow : Start(f, h))
      BY <1>1, <2>2, NeverByHand DEF UserStep, Statement, Transaction, Nested, OnCommit, StreamNext, StreamEnd, Return, Throw,
         ClaimNow, CanCall, Go, Steady, TypeOK
    <2>3. CASE FlowStep(f)
      BY <1>1, <2>3, NeverByHand DEF FlowStep, Claim, NestedTurn, StreamTurn, Serialize, Refuse, Settle, RunCallbacks,
         Go, Steady, TypeOK
    <2> QED
      BY <2>1, <2>2, <2>3
  <1> QED
    BY <1>2, <1>3

LEMMA OwnKeepsEnds ==
    ASSUME FateInv, NEW f \in Flow, UserStep(f) \/ FlowStep(f), ~Refuse(f), Kept
    PROVE  /\ SettledAreNested' /\ UndoneAreSettled' /\ CommittedAreRoots'
           /\ \A d \in Connection : OpenOnce(d)'
           /\ \A g \in Flow : NotEnded(g)'
           /\ RanRoots'
  <1>1. HeldInv /\ SettledAreNested /\ UndoneAreSettled /\ CommittedAreRoots /\ RanRoots
    BY DEF FateInv
  <1>2. UNCHANGED <<settled, committed, undone, engine>>
    BY <1>1, StepGoes DEF Goes
  <1>3. settled \subseteq Scope /\ committed \subseteq Scope /\ undone \subseteq Scope
    BY <1>1 DEF HeldInv, TypeInv, TypeOK
  <1>4. Opens(f) \/ Nests(f) \/ GoesIn(f) \/ GoesOut(f) \/ Remains(f)
    BY <1>1, FlowMoves
  <1>5. \A g \in Flow \ {f} : Steady(g) \/ Starts(f, g)
    BY <1>1, OthersStay
  <1>6. SettledAreNested' /\ UndoneAreSettled' /\ CommittedAreRoots'
    BY <1>1, <1>2, <1>3 DEF SettledAreNested, UndoneAreSettled, CommittedAreRoots, Used, Kept
  <1>7. ASSUME NEW d \in Connection PROVE OpenOnce(d)'
    <2>1. engine[d].tx # NoScope => engine[d].tx \in Scope /\ Used(engine[d].tx)
      BY <1>1 DEF HeldInv, TypeInv, TypeOK, Session
    <2>2. OpenOnce(d)
      BY DEF FateInv
    <2> QED
      BY <1>2, <2>1, <2>2 DEF OpenOnce, Kept, SlotOf
  <1>8. ASSUME NEW g \in Flow PROVE NotEnded(g)'
    <2>0. NotEnded(g)
      BY DEF FateInv
    <2>1. CASE g # f
      BY <1>2, <1>5, <2>0, <2>1 DEF NotEnded, Steady, Starts, Asks
    <2>2. CASE g = f /\ Opens(f)
      <3>1. NextScope \in Scope /\ ~Used(NextScope)
        BY <1>1, <2>2, NextScopeType DEF Opens, Grown, Used, Unused
      <3>2. NextScope \notin committed \cup undone
        BY <1>1, <3>1 DEF CommittedAreRoots, UndoneAreSettled
      <3> QED
        BY <1>2, <2>2, <3>2 DEF Opens, NotEnded
    <2>3. CASE g = f /\ ~Opens(f)
      <3>1. pc[f] = "nest" => job[f].kind = "savepoint"
        BY <1>1 DEF HeldInv, FlowInv, Sends
      <3> QED
        BY <1>2, <1>4, <2>0, <2>3, <3>1 DEF Nests, GoesIn, GoesOut, Remains, NotEnded, Asks
    <2> QED
      BY <2>1, <2>2, <2>3
  <1>9. RanRoots'
    <2> SUFFICES ASSUME NEW g \in Flow, pc'[g] = "callbacks"
                 PROVE  (Used(job[g].scope) /\ scope[job[g].scope].parent = NoScope)'
      BY DEF RanRoots
    <2>1. pc'[f] # "callbacks"
      BY <1>4 DEF Opens, Nests, GoesIn, GoesOut, Remains
    <2>2. Steady(g) /\ pc[g] = "callbacks"
      BY <1>5, <2>1 DEF Steady, Starts
    <2>3. job[g].scope \in Scope /\ Used(job[g].scope) /\ scope[job[g].scope].parent = NoScope
      BY <1>1, <2>2 DEF RanRoots, HeldInv, TypeInv, TypeOK, CallbacksOfAScope, Job
    <2> QED
      BY <2>2, <2>3 DEF Steady, Kept, Used
  <1> QED
    BY <1>6, <1>7, <1>8, <1>9

\* A callback is registered in the scope its flow runs in, and runs once the root that gathered it committed.
LEMMA OwnKeepsCallbacks ==
    ASSUME FateInv, NEW f \in Flow, UserStep(f) \/ FlowStep(f), ~Refuse(f), Kept
    PROVE  Gathered' /\ Ran'
  <1>1. HeldInv /\ Lineages /\ CommittedAreRoots /\ RanRoots /\ Gathered /\ Ran
    BY DEF FateInv
  <1>2. Goes(f)
    BY <1>1, StepGoes
  <1>3. /\ UNCHANGED <<settled, committed, undone>> /\ Gone' = Gone
        /\ onCommit \in [Scope -> SUBSET Scope] /\ ran \subseteq Scope
    BY <1>1, <1>2 DEF Goes, Gone, HeldInv, TypeInv, TypeOK
  <1>4. \A u \in Scope : Used(u) => /\ Used(u)' /\ Lineage(u)' = Lineage(u) /\ RootOf(u)' = RootOf(u)
                                    /\ u \in Lineage(u)
                                    /\ \A x \in Lineage(u) : x \in Scope /\ scope'[x] = scope[x]
    BY <1>1, LineageStays
  <1>5. Gathered'
    <2> SUFFICES ASSUME NEW u \in Scope, NEW t \in onCommit'[u]
                 PROVE  /\ Used(u) /\ Used(t) /\ t \in Scope /\ u \in Lineage(t)
                        /\ \A x \in Lineage(t) \ Lineage(u) : x \in settled \ undone
      BY <1>3, <1>4 DEF Gathered
    <2>1. CASE t \in onCommit[u]
      BY <1>1, <1>3, <2>1 DEF Gathered
    <2>2. CASE t \notin onCommit[u]
      <3>1. ctx[f] # NoScope /\ u = ctx[f] /\ t = u
        BY <1>2, <1>3, <2>2 DEF Goes
      <3>2. Used(u)
        BY <1>1, <3>1 DEF HeldInv, FlowInv, Calls
      <3> QED
        BY <1>4, <3>1, <3>2
    <2> QED
      BY <2>1, <2>2
  <1>6. Ran'
    <2> SUFFICES ASSUME NEW t \in ran'
                 PROVE  /\ t \in Scope /\ Used(t) /\ RootOf(t) \in committed \cup Gone
                        /\ Lineage(t) \cap undone \subseteq {RootOf(t)}
                        /\ \A x \in Lineage(t) : scope[x].parent # NoScope => x \in settled
      BY <1>3, <1>4 DEF Ran
    <2>1. CASE t \in ran
      BY <1>1, <1>3, <2>1 DEF Ran
    <2>2. CASE t \notin ran
      <3>1. pc[f] = "callbacks" /\ t \in onCommit[job[f].scope]
        BY <1>2, <2>2 DEF Goes
      <3>2. PICK u \in Scope : u = job[f].scope /\ Used(u) /\ scope[u].parent = NoScope /\ u \in committed \cup Gone
        BY <1>1, <3>1 DEF RanRoots, HeldInv, FlowInv, Resolved, Gone, TypeInv, TypeOK
      <3>3. /\ t \in Scope /\ Used(t) /\ u \in Lineage(t)
            /\ \A x \in Lineage(t) \ Lineage(u) : x \in settled \ undone
        BY <1>1, <1>3, <3>1, <3>2 DEF Gathered
      <3>4. Lineage(u) = {u} /\ RootOf(u) = u
        <4>1. Lineage(u) = {u} \cup Lineage(NoScope)
          BY <1>1, <3>2 DEF Lineages, LineageMade
        <4>2. Lineage(NoScope) = {}
          BY DEF Lineage
        <4> QED
          BY <1>1, <3>2, <4>1, <4>2 DEF HeldInv, Scopes, RootMade
      <3>5. RootOf(t) = u
        BY <1>1, <3>3, <3>4 DEF Lineages, LineageMade
      <3> QED
        BY <3>2, <3>3, <3>4, <3>5
    <2> QED
      BY <2>1, <2>2
  <1> QED
    BY <1>5, <1>6

\* A flow goes into what it opened or nested just now, which has not settled.
LEMMA OwnKeepsUnsettled ==
    ASSUME FateInv, NEW f \in Flow, UserStep(f) \/ FlowStep(f), ~Refuse(f), Kept, NEW g \in Flow
    PROVE  Unsettled(g)'
  <1>1. HeldInv /\ Lineages /\ SettledAreNested /\ Unsettled(g) /\ Sends(g)
    BY DEF FateInv, HeldInv, FlowInv
  <1>2. settled' = settled /\ settled \subseteq Scope
    BY <1>1, StepGoes DEF Goes, HeldInv, TypeInv, TypeOK
  <1>3. ASSUME ctx'[g] = ctx[g]
        PROVE  /\ \A x \in Where(g)' : scope'[x].flow = g => x \notin settled'
               /\ ctx[g] # NoScope => scope'[ctx[g]] = scope[ctx[g]]
    <2>1. Where(g)' = Where(g) /\ \A x \in Where(g) : scope'[x] = scope[x]
      BY <1>3, WhereStays
    <2>2. ctx[g] # NoScope => Used(ctx[g]) /\ ctx[g] \in Scope
      BY <1>1 DEF HeldInv, FlowInv, Calls, TypeInv, TypeOK
    <2> QED
      BY <1>1, <1>2, <2>1, <2>2 DEF Unsettled, Kept
  <1>4. ASSUME Steady(g) PROVE Unsettled(g)'
    <2>1. pc[g] = "nest" => job[g].scope \notin settled'
      BY <1>1, <1>2 DEF Unsettled
    <2>2. Asks(g, Deep) => ctx[g] # NoScope /\ scope[ctx[g]].flow = g
      BY <1>1 DEF Unsettled, Sends, Asks, Deep
    <2> QED
      BY <1>3, <1>4, <2>1, <2>2 DEF Unsettled, Steady, Asks
  <1>5. CASE g # f /\ Starts(f, g)
    <2>1. ctx[f] \in Scope /\ Used(ctx[f]) /\ RootOf(ctx[f]) \in Scope
      BY <1>1, <1>5 DEF Starts, InCallback, HeldInv, TypeInv, TypeOK, FlowInv, Calls, Scopes, ScopeMade
    <2>2. \A s \in Scope : scope[s].flow # g
      BY <1>1, <1>5, FlowAssumption DEF Starts, HeldInv, Scopes, ScopeMade, Used
    <2>3. ~InOwn(g)'
      BY <1>5, <2>1, <2>2 DEF Starts, InOwn, RootOf
    <2>4. Where(g)' = Lineage(ctx[f])
      BY <1>5, <2>3 DEF Starts, Where, Lineage
    <2>5. Lineage(ctx[f]) \subseteq Scope
      BY <1>1, <2>1 DEF Lineage, HeldInv, TypeInv, TypeOK, ScopeRecord
    <2> QED
      BY <1>5, <2>2, <2>4, <2>5 DEF Unsettled, Starts, Asks
  <1>6. CASE g = f /\ Opens(f)
    <2>1. PICK n \in Scope :
          /\ n = NextScope /\ ~Used(n)
          /\ scope'[n].outer = ctx[f] /\ scope'[n].flow = f
          /\ scope'[n].lineage = {n} \cup Lineage(NoScope)
          /\ scope'[n].root = n
      BY <1>1, <1>6, LineageIsNew DEF Opens
    <2>2. n \notin settled /\ n # NoScope
      BY <1>1, <2>1, FlowAssumption DEF SettledAreNested
    <2>3. ctx'[f] = n /\ pc'[f] \in {"claim", "call"} /\ job'[f].kind = "begin" /\ job'[f].scope = n
      BY <1>6, <2>1 DEF Opens
    <2>4. Lineage(ctx[f])' = Lineage(n)' /\ Lineage(n)' = {n}
      BY <2>1, <2>2, <2>3 DEF Lineage
    <2>5. RootOf(ctx[f])' = n /\ InOwn(f)'
      BY <2>1, <2>2, <2>3 DEF RootOf, InOwn
    <2>6. PICK o \in Scope \cup {NoScope} : o = ctx[f] /\ (o # NoScope => Used(o))
      BY <1>1 DEF HeldInv, FlowInv, Calls, TypeInv, TypeOK
    <2>7. Lineage(o)' = Lineage(o) /\ \A x \in Lineage(o) : scope'[x] = scope[x]
      <3>1. CASE o = NoScope
        BY <3>1 DEF Lineage
      <3>2. CASE o # NoScope
        BY <1>1, <2>6, <3>2, LineageStays
      <3> QED
        BY <3>1, <3>2
    <2>8. Where(f)' = {n} \cup Lineage(o)
      BY <2>1, <2>3, <2>4, <2>5, <2>6, <2>7 DEF Where, Lineage, RootOf
    <2>9. Lineage(o) \subseteq Where(f)
      BY <2>6 DEF Where
    <2> QED
      BY <1>1, <1>2, <1>6, <2>2, <2>3, <2>7, <2>8, <2>9 DEF Unsettled, Asks, Deep
  <1>7. CASE g = f /\ Nests(f)
    <2>1. NextScope \in Scope /\ ~Used(NextScope)
      BY <1>1, <1>7, NextScopeType DEF Nests, Grown, Used, Unused
    <2>2. NextScope \notin settled
      BY <1>1, <2>1 DEF SettledAreNested
    <2> QED
      BY <1>2, <1>3, <1>7, <2>2 DEF Nests, Unsettled, Asks
  <1>8. CASE g = f /\ GoesIn(f)
    <2>1. PICK n \in Scope :
          /\ n = job[f].scope /\ n # NoScope /\ Used(n) /\ scope[n].flow = f /\ scope[n].parent = ctx[f] /\ ctx[f] # NoScope
          /\ n \notin settled
      BY <1>1, <1>8 DEF GoesIn, Sends, Unsettled, HeldInv, TypeInv, TypeOK, Job
    <2>2. Lineage(n) = {n} \cup Lineage(ctx[f]) /\ RootOf(n) = RootOf(ctx[f])
      BY <1>1, <2>1 DEF Lineages, LineageMade, HeldInv, Scopes, NestedMade
    <2>3. scope' = scope /\ ctx'[f] = n /\ pc'[f] = "call" /\ job'[f].scope = n
      BY <1>8, <2>1 DEF GoesIn
    <2>4. RootOf(ctx[f])' = RootOf(ctx[f]) /\ Lineage(ctx[f])' = Lineage(n)
      BY <2>2, <2>3 DEF RootOf, Lineage
    <2>5. InOwn(f)' = InOwn(f)
      BY <2>1, <2>3, <2>4 DEF InOwn
    <2>6. Where(f)' = {n} \cup Where(f)
      BY <2>2, <2>3, <2>4, <2>5 DEF Where, Lineage
    <2> QED
      BY <1>1, <1>2, <1>8, <2>1, <2>3, <2>6 DEF Unsettled, Asks
  <1>9. CASE g = f /\ GoesOut(f)
    BY <1>3, <1>9 DEF GoesOut, InCallback, Unsettled
  <1>10. CASE g = f /\ Remains(f)
    <2>1. pc[f] = "claim" => job[f].kind = "begin"
      BY <1>1, <1>10 DEF Sends
    <2>2. Asks(f, Deep)' => Asks(f, Deep) /\ ctx[f] # NoScope
      BY <1>1, <1>10, <2>1 DEF Remains, Asks, Deep, Sends
    <2> QED
      BY <1>1, <1>3, <1>10, <2>2 DEF Remains, Unsettled
  <1>11. g # f => Steady(g) \/ Starts(f, g)
    BY <1>1, OthersStay
  <1> QED
    BY <1>1, <1>4, <1>5, <1>6, <1>7, <1>8, <1>9, <1>10, <1>11, FlowMoves

-----------------------------------------------------------------------------
(***************************************************************************)
(* The callbacks.                                                          *)
(***************************************************************************)
LEMMA InitFate ==
    ASSUME NothingByHand, Init
    PROVE  FateInv
  <1>1. HeldInv
    BY InitHeld
  <1>2. \A f \in Flow : pc[f] \in {"idle", "run"} /\ job[f].kind = "none" /\ ctx[f] = NoScope
    BY DEF Init, Idle
  <1>3. \A s \in Scope : ~Used(s) /\ onCommit[s] = {}
    BY DEF Init, Used, Unused
  <1>4. settled = {} /\ undone = {} /\ committed = {} /\ ran = {} /\ \A c \in Connection : engine[c].tx = NoScope
    BY DEF Init, NoTransaction
  <1>5. \A f \in Flow : NotEnded(f) /\ Unsettled(f)
    BY <1>2, <1>4 DEF NotEnded, Unsettled, Asks
  <1>6. Lineages
    BY <1>3 DEF Lineages, LineageMade
  <1> QED
    BY <1>1, <1>2, <1>3, <1>4, <1>5, <1>6
    DEF FateInv, SettledAreNested, UndoneAreSettled, CommittedAreRoots, OpenOnce, Gathered, Ran, RanRoots

LEMMA NextFate ==
    ASSUME FateInv, [Next]_vars
    PROVE  FateInv'
  <1>1. HeldInv /\ Lineages
    BY DEF FateInv
  <1>2. HeldInv' /\ Lineages' /\ Kept
    BY <1>1, NextHeld, LineagesStay
  <1>3. ASSUME NEW f \in Flow, NEW ok \in BOOLEAN, Answers(f, ok)
        PROVE  FateInv'
    <2>1. \A g \in Flow : Unsettled(g)'
      BY <1>3, AnswerKeepsUnsettled
    <2> QED
      BY <1>2, <1>3, <2>1, AnswerKeepsEnds, AnswerKeepsCallbacks DEF FateInv
  <1>4. ASSUME NEW f \in Flow, UserStep(f) \/ FlowStep(f)
        PROVE  FateInv'
    <2>1. CASE Refuse(f)
      BY <1>1, <1>3, <2>1, RefusalAnswers
    <2>2. CASE ~Refuse(f)
      <3>1. \A g \in Flow : Unsettled(g)'
        BY <1>2, <1>4, <2>2, OwnKeepsUnsettled
      <3> QED
        BY <1>2, <1>4, <2>2, <3>1, OwnKeepsEnds, OwnKeepsCallbacks DEF FateInv
    <2> QED
      BY <2>1, <2>2
  <1>5. ASSUME NEW q \in Querier, QuerierStep(q)
        PROVE  FateInv'
    <2>1. Caller(q) \in Flow
      BY <1>1, <1>5, CallerWaits, QuerierFrame
    <2> QED
      BY <1>1, <1>3, <1>5, <2>1, TaskAnswers
  <1>6. CASE UNCHANGED vars
    <2>1. UNCHANGED <<scope, settled, onCommit, pc, job, ctx, engine, committed, undone, spoiled, ran>>
      BY <1>6 DEF vars, slotVars, querierVars, flowVars, engineVars
    <2>2. \A f \in Flow : NotEnded(f)' /\ Unsettled(f)'
      BY <2>1 DEF FateInv, NotEnded, Unsettled, Where, InOwn, Lineage, RootOf, Asks
    <2>3. Gathered' /\ Ran' /\ RanRoots' /\ \A c \in Connection : OpenOnce(c)'
      BY <2>1 DEF FateInv, Gathered, Ran, Gone, RanRoots, OpenOnce, Used, Lineage, RootOf, SlotOf
    <2>4. SettledAreNested' /\ UndoneAreSettled' /\ CommittedAreRoots'
      BY <2>1 DEF FateInv, SettledAreNested, UndoneAreSettled, CommittedAreRoots, Used
    <2> QED
      BY <1>2, <2>2, <2>3, <2>4 DEF FateInv
  <1> QED
    BY <1>4, <1>5, <1>6 DEF Next

\* In such a program an onCommit callback runs only once the transaction it belongs to committed, or the COMMIT
\* of one the database had given up was answered, and never for a savepoint that was rolled back: a nested scope
\* pushes what it gathered to its parent once its savepoint is released, one that was undone hands on nothing,
\* and `runCallbacks` waits for the answer of the COMMIT, whatever command fails before it.
THEOREM CallbacksAfterCommitAlways ==
    ASSUME NothingByHand
    PROVE  Spec => []CallbacksAfterCommit
  <1>1. Init => FateInv
    BY InitFate
  <1>2. FateInv /\ [Next]_vars => FateInv'
    BY NextFate
  <1>3. FateInv => CallbacksAfterCommit
    BY DEF FateInv, Ran, Gone, AnsweredUndone, CallbacksAfterCommit
  <1> QED
    BY <1>1, <1>2, <1>3, PTL DEF Spec

-----------------------------------------------------------------------------
(***************************************************************************)
(* A slot held by a flow that runs on.  Where no stream is read no call is *)
(* refused, so what ends a transaction frees its slot in the same turn.    *)
(***************************************************************************)
NoStreams == \A plan \in Plan : \A f \in Flow : "stream" \notin plan.calls[f].kinds

Still ==
    /\ \A q \in Querier : stream[q] = NoFlow
    /\ \A f \in Flow : pc[f] # "stream" /\ "stream" \notin calls[f].kinds

\* What holds a slot is a root on that connection, around what its flow runs.
HeldBack(c) ==
    LET s == held[c] IN
    s # NoScope => /\ Used(s)
                   /\ scope[s].parent = NoScope
                   /\ SlotOf(scope[s].querier) = c
                   /\ s \in Lineage(ctx[scope[s].flow])

StillInv == FateInv /\ Still /\ \A c \in Connection : HeldBack(c)

LEMMA StaysStill ==
    ASSUME HeldInv, Still, [Next]_vars
    PROVE  Still'
  <1> USE DEF slotVars, querierVars, flowVars, engineVars
  <1>1. TypeOK /\ NoFlow \notin Flow
    BY FlowAssumption DEF HeldInv, TypeInv
  <1>2. ASSUME NEW f \in Flow, Count(f) PROVE \A g \in Flow : calls'[g].kinds = calls[g].kinds
    BY <1>2, CallKeepsKinds DEF HeldInv
  <1>3. ASSUME NEW q \in Querier, QuerierStep(q) PROVE Still'
    <2>1. stream' = stream
      BY <1>3
      DEF QuerierStep, CommandFails, RunStatement, RunBegin, CloseNothing, RunCommit, CommitFails, RunRollback,
          RunSavepoint, RunReleaseSavepoint, RunRollbackTo, RunHandBack, Closing
    <2>2. PICK f \in Flow, ok \in BOOLEAN : Answers(f, ok)
      BY <1>3, TaskAnswers, CallerWaits, QuerierFrame
    <2>3. calls' = calls /\ pc'[f] # "stream"
      BY <1>1, <2>2 DEF Answers, Settle, NextPlace, TypeOK
    <2> QED
      BY <2>1, <2>2, <2>3 DEF Answers, Steady, Still
  <1>4. ASSUME NEW f \in Flow, UserStep(f) \/ FlowStep(f) PROVE Still'
    <2>1. ~StreamNext(f) /\ ~StreamEnd(f) /\ ~StreamTurn(f) /\ ~Refuse(f)
      BY <1>1 DEF StreamNext, StreamEnd, StreamTurn, Refuse, CanCall, Still, TypeOK
    <2>2. /\ stream' = stream
          /\ calls' = calls \/ Count(f)
      BY <1>4, <2>1, NeverByHand
      DEF UserStep, FlowStep, Statement, Transaction, Nested, OnCommit, Return, Throw, Start,
          Claim, NestedTurn, Serialize, RunCallbacks
    <2>3. pc'[f] # "stream"
      <3>1. Opens(f) \/ Nests(f) \/ GoesIn(f) \/ GoesOut(f) => pc'[f] # "stream"
        BY DEF Opens, Nests, GoesIn, GoesOut
      <3>2. pc[f] # "stream"
        BY DEF Still
      <3> QED
        BY <1>1, <1>4, <2>1, <3>2, NeverByHand
        DEF UserStep, FlowStep, Statement, Transaction, ClaimNow, Nested, OnCommit, Return, Throw, Start,
            Claim, NestedTurn, Serialize, RunCallbacks, Go, TypeOK
    <2>4. \A g \in Flow \ {f} : pc'[g] # "stream"
      BY <1>4, OthersStay DEF Steady, Starts, Still
    <2>5. \A g \in Flow : calls'[g].kinds = calls[g].kinds
      BY <1>2, <2>2
    <2> QED
      BY <2>2, <2>3, <2>4, <2>5 DEF Still
  <1>5. CASE UNCHANGED vars
    BY <1>5 DEF vars, Still
  <1> QED
    BY <1>3, <1>4, <1>5 DEF Next

\* The answer that ends a root frees its slot.
LEMMA EndFrees ==
    ASSUME HeldInv, NEW q \in Querier, QuerierStep(q)
    PROVE  LET f == Caller(q) IN
           /\ f \in Flow /\ on[f] = q
           /\ held'[SlotOf(q)] = NoScope \/ ctx'[f] = ctx[f] \/ job[f].kind \in Deep
           /\ \A c \in Connection : held'[c] = held[c] \/ held'[c] = NoScope
  <1> DEFINE f == Caller(q)
  <1>1. /\ queue[q] # <<>> /\ f \in Flow /\ pc[f] = "queued" /\ on[f] = q
        /\ Head(queue[q]).kind = job[f].kind
    BY CallerWaits, QuerierFrame
  <1>2. SlotOf(q) \in Connection /\ held \in [Connection -> Scope \cup {NoScope}]
    BY FlowAssumption DEF HeldInv, TypeInv, TypeOK, SlotOf
  <1>3. held' = held \/ Free(q)
    BY DEF QuerierStep, CommandFails, RunStatement, RunBegin, CloseNothing, RunCommit, CommitFails, RunRollback,
           RunSavepoint, RunReleaseSavepoint, RunRollbackTo, RunHandBack, Closing
  <1>4. \A c \in Connection : held'[c] = held[c] \/ held'[c] = NoScope
    BY <1>2, <1>3 DEF Free
  <1>5. Free(q) => held'[SlotOf(q)] = NoScope
    BY <1>2 DEF Free
  <1>6. ASSUME NEW ok, Settle(f, ok), ~(job[f].kind \in {"rollback", "rollbackTo"}),
               job[f].kind \in {"commit", "releaseSavepoint"} => ~ok,
               job[f].kind \in {"begin", "savepoint"} => ok
        PROVE  ctx'[f] = ctx[f]
    BY <1>6 DEF Settle, Ends
  <1>7. Free(q) \/ ctx'[f] = ctx[f] \/ job[f].kind \in Deep
    <2>1. CASE RunStatement(q) \/ RunHandBack(q)
      <3>1. /\ job[f].kind \in {"statement", "handback"}
            /\ Settle(f, TRUE)
        BY <1>1, <2>1 DEF RunStatement, RunHandBack, Running
      <3> QED
        BY <1>6, <3>1
    <2>2. CASE RunBegin(q)
      <3>1. job[f].kind = "begin" /\ (Settle(f, TRUE) \/ Free(q))
        BY <1>1, <2>2 DEF RunBegin, Running
      <3> QED
        BY <1>6, <3>1
    <2>3. CASE CommitFails(q)
      <3>1. job[f].kind = "commit" /\ Settle(f, FALSE)
        BY <1>1, <2>3 DEF CommitFails, Closing, Running
      <3> QED
        BY <1>6, <3>1
    <2>4. CASE RunCommit(q) \/ RunRollback(q)
      BY <2>4 DEF RunCommit, RunRollback
    <2>5. CASE RunSavepoint(q) \/ RunReleaseSavepoint(q) \/ RunRollbackTo(q)
      BY <1>1, <2>5 DEF RunSavepoint, RunReleaseSavepoint, RunRollbackTo, Running, Deep
    <2>6. CASE CommandFails(q)
      <3>1. job[f].kind \in {"statement"} \cup Deep /\ Settle(f, FALSE)
        BY <1>1, <2>6 DEF CommandFails, Commands, Running, Deep
      <3> QED
        BY <1>6, <3>1
    <2> QED
      BY <2>1, <2>2, <2>3, <2>4, <2>5, <2>6, NothingToClose DEF QuerierStep
  <1> QED
    BY <1>1, <1>4, <1>5, <1>7

\* A slot is taken by a root just opened, or claimed by one that waited.
LEMMA OwnHolds ==
    ASSUME HeldInv, NEW f \in Flow, UserStep(f) \/ FlowStep(f), ~Refuse(f)
    PROVE  \/ held' = held
           \/ Opens(f) /\ held' = [held EXCEPT ![SlotOf(on[f])] = NextScope]
           \/ /\ pc[f] = "claim" /\ UNCHANGED <<scope, ctx>>
              /\ held' = [held EXCEPT ![SlotOf(on[f])] = job[f].scope]
  <1> USE DEF slotVars
  <1>1. CASE Transaction(f)
    <2>1. ~InOwn(f)
      BY <1>1, ScopeHereIsContext DEF Transaction, CanCall
    <2> QED
      BY <1>1, <2>1 DEF Transaction, ClaimNow, CanCall, Go, Grown, Opens, HeldInv, TypeInv, TypeOK
  <1>2. CASE Claim(f)
    BY <1>2 DEF Claim
  <1>3. CASE ~Transaction(f) /\ ~Claim(f)
    BY <1>3, NeverByHand
    DEF UserStep, FlowStep, Statement, Nested, OnCommit, StreamNext, StreamEnd, Return, Throw, Start,
        NestedTurn, StreamTurn, Serialize, RunCallbacks
  <1> QED
    BY <1>1, <1>2, <1>3

\* A root is around what its flow runs only in that flow's own transaction.
LEMMA RootAround ==
    ASSUME FateInv, NEW f \in Flow, NEW s \in Lineage(ctx[f]), scope[s].parent = NoScope, scope[s].flow = f
    PROVE  ctx[f] # NoScope /\ s = RootOf(ctx[f]) /\ InOwn(f)
  <1>1. ctx[f] # NoScope
    BY DEF Lineage
  <1>2. PICK x \in Scope : x = ctx[f] /\ Used(x)
    BY <1>1 DEF FateInv, HeldInv, FlowInv, Calls, TypeInv, TypeOK
  <1>3. s = RootOf(x)
    <2>1. s \in Scope /\ Used(s) /\ RootOf(s) = RootOf(x)
      BY <1>2 DEF FateInv, Lineages, LineageMade, Lineage, HeldInv, TypeInv, TypeOK, ScopeRecord
    <2> QED
      BY <2>1 DEF FateInv, HeldInv, Scopes, RootMade
  <1> QED
    BY <1>1, <1>2, <1>3 DEF InOwn

\* While the slot stays its root stays around what its flow runs.
LEMMA OwnKeepsHeldBack ==
    ASSUME StillInv, NEW f \in Flow, UserStep(f) \/ FlowStep(f), ~Refuse(f), Kept,
           NEW c \in Connection, held'[c] = held[c]
    PROVE  HeldBack(c)'
  <1>0. held[c] \in Scope \cup {NoScope}
    BY DEF StillInv, FateInv, HeldInv, TypeInv, TypeOK
  <1> SUFFICES ASSUME NEW s \in Scope, s = held[c], s # NoScope
               PROVE  /\ (Used(s) /\ scope[s].parent = NoScope /\ SlotOf(scope[s].querier) = c)'
                      /\ s \in Lineage(ctx[scope[s].flow])'
    BY <1>0 DEF HeldBack
  <1>1. FateInv /\ HeldInv /\ HeldBack(c)
    BY DEF StillInv, FateInv
  <1>2. /\ Used(s) /\ scope[s].parent = NoScope /\ SlotOf(scope[s].querier) = c
        /\ s \in Lineage(ctx[scope[s].flow])
        /\ scope'[s] = scope[s]
    BY <1>1 DEF HeldBack, Kept
  <1>3. PICK g \in Flow : g = scope[s].flow /\ pc[g] # "idle"
    <2>1. scope[s].flow \in Flow \cup {NoFlow}
      BY <1>1 DEF HeldInv, TypeInv, TypeOK, ScopeRecord
    <2>2. pc[scope[s].flow] # "idle"
      BY <1>1, <1>2 DEF HeldInv, Scopes, ScopeMade
    <2> QED
      BY <1>2, <2>1, <2>2 DEF Used
  <1>s. s \in Lineage(ctx[g])
    BY <1>2, <1>3
  <1>4. /\ ctx[g] \in Scope /\ Used(ctx[g]) /\ ctx[g] # NoScope
        /\ InOwn(g) /\ s = RootOf(ctx[g])
    BY <1>1, <1>2, <1>3, <1>s, RootAround DEF HeldInv, FlowInv, Calls, TypeInv, TypeOK
  <1>5. PICK x \in Scope : x = ctx[g] /\ s \in Lineage(x) /\ Lineage(x)' = Lineage(x)
    <2>1. PICK x \in Scope : x = ctx[g] /\ Used(x) /\ s \in Lineage(x)
      BY <1>s, <1>4
    <2>2. Lineages
      BY <1>1 DEF FateInv
    <2> QED
      BY <1>1, <2>1, <2>2, LineageStays
  <1>6. ASSUME ctx'[g] = ctx[g] PROVE s \in Lineage(ctx[g])'
    BY <1>5, <1>6 DEF Lineage
  <1>7. CASE g # f
    <2>1. Steady(g)
      BY <1>1, <1>3, <1>7, OthersStay DEF Starts
    <2> QED
      BY <1>2, <1>3, <1>6, <2>1 DEF Steady, Used, SlotOf
  <1>8. CASE g = f
    <2>1. ~Opens(f)
      BY <1>4, <1>8 DEF Opens
    <2>2. CASE GoesIn(f)
      <3>1. PICK n \in Scope : n = job[f].scope /\ n # NoScope /\ Used(n) /\ scope[n].parent = ctx[f]
        BY <1>1, <2>2 DEF GoesIn, HeldInv, FlowInv, Sends, TypeInv, TypeOK, Job
      <3>2. s \in Lineage(n)
        BY <1>1, <1>s, <1>8, <3>1 DEF FateInv, Lineages, LineageMade
      <3> QED
        BY <1>2, <1>3, <1>8, <2>2, <3>1, <3>2 DEF GoesIn, Lineage, Used, SlotOf
    <2>3. CASE Nests(f) \/ GoesOut(f) \/ Remains(f)
      BY <1>2, <1>3, <1>6, <1>8, <2>3 DEF Nests, GoesOut, Remains, Used, SlotOf
    <2> QED
      BY <1>1, <2>1, <2>2, <2>3, FlowMoves
  <1> QED
    BY <1>7, <1>8

\* A root that ends frees its slot; the end of a nested one leaves its flow inside the same root.
LEMMA TaskKeepsHeldBack ==
    ASSUME StillInv, NEW q \in Querier, QuerierStep(q), Kept, NEW c \in Connection
    PROVE  HeldBack(c)'
  <1>0. FateInv /\ HeldInv /\ HeldBack(c) /\ held[c] \in Scope \cup {NoScope}
    BY DEF StillInv, FateInv, HeldInv, TypeInv, TypeOK
  <1>f. PICK f \in Flow, ok \in BOOLEAN : f = Caller(q) /\ Answers(f, ok)
    BY <1>0, TaskAnswers, EndFrees
  <1>1. /\ on[f] = q
        /\ held'[SlotOf(q)] = NoScope \/ ctx'[f] = ctx[f] \/ job[f].kind \in Deep
        /\ held'[c] = held[c] \/ held'[c] = NoScope
    BY <1>0, <1>f, EndFrees
  <1>2. /\ scope' = scope
        /\ job[f].kind \in Deep => /\ ctx[f] \in Scope /\ Used(ctx[f])
                                   /\ scope[ctx[f]].parent # NoScope /\ scope[ctx[f]].outer = scope[ctx[f]].parent
        /\ ctx'[f] = (IF Ends(job[f], ok) THEN scope[ctx[f]].outer ELSE ctx[f])
    BY <1>0, <1>f, Settles
  <1> SUFFICES ASSUME NEW s \in Scope, s = held[c], s # NoScope, held'[c] = s
               PROVE  /\ (Used(s) /\ scope[s].parent = NoScope /\ SlotOf(scope[s].querier) = c)'
                      /\ s \in Lineage(ctx[scope[s].flow])'
    BY <1>0, <1>1 DEF HeldBack
  <1>3. /\ Used(s) /\ scope[s].parent = NoScope /\ SlotOf(scope[s].querier) = c
        /\ s \in Lineage(ctx[scope[s].flow])
    BY <1>0 DEF HeldBack
  <1>4. PICK g \in Flow : g = scope[s].flow
    BY <1>0, <1>3 DEF Used, HeldInv, TypeInv, TypeOK, ScopeRecord
  <1>5. s \in Lineage(ctx[g])'
    <2>1. CASE ctx'[g] = ctx[g]
      BY <1>2, <1>3, <1>4, <2>1 DEF Lineage
    <2>2. CASE g = f /\ ctx'[f] # ctx[f]
      <3>1. SlotOf(q) = c
        <4>1. scope[s].querier = on[scope[s].flow]
          BY <1>0, <1>3 DEF HeldInv, Scopes, ScopeMade
        <4> QED
          BY <1>1, <1>3, <1>4, <2>2, <4>1
      <3>2. job[f].kind \in Deep /\ ctx'[f] = scope[ctx[f]].parent
        BY <1>1, <1>2, <2>2, <3>1
      <3>3. Lineage(ctx[f]) = {ctx[f]} \cup Lineage(scope[ctx[f]].parent)
        BY <1>0, <1>2, <3>2 DEF FateInv, Lineages, LineageMade
      <3>4. s \in Lineage(scope[ctx[f]].parent)
        BY <1>2, <1>3, <1>4, <2>2, <3>2, <3>3
      <3> QED
        BY <1>2, <2>2, <3>2, <3>4 DEF Lineage
    <2>3. CASE g # f
      BY <1>f, <2>1, <2>3 DEF Answers, Steady
    <2> QED
      BY <2>1, <2>2, <2>3
  <1> QED
    BY <1>2, <1>3, <1>4, <1>5 DEF Used, SlotOf

LEMMA NextStill ==
    ASSUME StillInv, [Next]_vars
    PROVE  StillInv'
  <1>1. FateInv /\ HeldInv /\ Still /\ Lineages
    BY DEF StillInv, FateInv
  <1>2. FateInv' /\ Still' /\ Kept
    BY <1>1, NextFate, StaysStill, LineagesStay
  <1>3. ASSUME NEW f \in Flow, UserStep(f) \/ FlowStep(f), NEW c \in Connection
        PROVE  HeldBack(c)'
    <2>1. ~Refuse(f)
      <3>1. on[f] \in Querier
        BY <1>1 DEF HeldInv, TypeInv, TypeOK
      <3> QED
        BY <1>1, <3>1 DEF Refuse, Still
    <2>2. CASE held'[c] = held[c]
      BY <1>2, <1>3, <2>1, <2>2, OwnKeepsHeldBack
    <2>c. held \in [Connection -> Scope \cup {NoScope}] /\ \A g \in Flow : SlotOf(on[g]) \in Connection
      BY <1>1, FlowAssumption DEF HeldInv, TypeInv, TypeOK, SlotOf
    <2>3. CASE Opens(f) /\ held' = [held EXCEPT ![SlotOf(on[f])] = NextScope] /\ c = SlotOf(on[f])
      <3>1. PICK n \in Scope :
              /\ n = NextScope
              /\ scope'[n].flow = f /\ scope'[n].parent = NoScope
              /\ scope'[n].lineage = {n} \cup Lineage(NoScope)
        BY <1>1, <2>3, LineageIsNew DEF Opens
      <3>2. scope'[n].querier = on[f]
        <4>1. scope \in [Scope -> ScopeRecord]
          BY <1>1 DEF HeldInv, TypeInv, TypeOK
        <4> QED
          BY <2>3, <3>1, <4>1 DEF Opens, Grown, NewScope
      <3>3. ctx'[f] = n /\ n # NoScope /\ held'[c] = n /\ f # NoFlow
        BY <2>3, <2>c, <3>1, FlowAssumption DEF Opens
      <3> QED
        BY <2>3, <3>1, <3>2, <3>3 DEF HeldBack, Used, Lineage, SlotOf
    <2>4. CASE /\ pc[f] = "claim" /\ UNCHANGED <<scope, ctx>>
               /\ held' = [held EXCEPT ![SlotOf(on[f])] = job[f].scope] /\ c = SlotOf(on[f])
      <3>1. AtRoot(f) /\ job[f].scope = ctx[f]
        BY <1>1, <2>4 DEF HeldInv, FlowInv, Sends
      <3>2. PICK s \in Scope : s = ctx[f] /\ Used(s) /\ scope[s].flow = f /\ scope[s].parent = NoScope
        BY <1>1, <3>1 DEF AtRoot, HeldInv, FlowInv, Calls, TypeInv, TypeOK
      <3>3. scope[s].querier = on[f] /\ s \in Lineage(s)
        BY <1>1, <3>2 DEF HeldInv, Scopes, ScopeMade, Lineages, LineageMade
      <3>4. held'[c] = s
        BY <2>4, <2>c, <3>1, <3>2
      <3> QED
        BY <2>4, <3>2, <3>3, <3>4 DEF HeldBack, Used, Lineage, SlotOf
    <2> QED
      BY <1>1, <1>3, <2>1, <2>2, <2>3, <2>4, <2>c, OwnHolds
  <1>4. ASSUME NEW q \in Querier, QuerierStep(q), NEW c \in Connection
        PROVE  HeldBack(c)'
    BY <1>2, <1>4, TaskKeepsHeldBack
  <1>5. ASSUME UNCHANGED vars, NEW c \in Connection
        PROVE  HeldBack(c)'
    <2>1. UNCHANGED <<held, scope, ctx>>
      BY <1>5 DEF vars, slotVars, flowVars
    <2> QED
      BY <2>1 DEF StillInv, HeldBack, Used, Lineage, SlotOf
  <1> QED
    BY <1>2, <1>3, <1>4, <1>5 DEF StillInv, Next

LEMMA InitStill ==
    ASSUME NothingByHand, NoStreams, Init
    PROVE  StillInv
  <1>1. FateInv
    BY InitFate
  <1>2. PICK plan \in Plan :
          /\ pc = [f \in Flow |-> IF f \in plan.branches THEN "idle" ELSE "run"]
          /\ calls = plan.calls
    BY DEF Init
  <1>3. Still
    BY <1>2 DEF Init, NoStreams, Still
  <1>4. \A c \in Connection : HeldBack(c)
    BY DEF Init, HeldBack
  <1> QED
    BY <1>1, <1>3, <1>4 DEF StillInv

\* Where no stream is read either, a callback's transaction holds its connection only while its flow still
\* runs it: every way `transaction` ends, a BEGIN or COMMIT that fails included, frees the slot in the turn
\* that leaves its context.  A stream breaks it: the ROLLBACK it refuses leaves the slot held by nobody.
THEOREM HeldWhileRunningAlways ==
    ASSUME NothingByHand, NoStreams
    PROVE  Spec => []HeldWhileRunning
  <1>1. Init => StillInv
    BY InitStill
  <1>2. StillInv /\ [Next]_vars => StillInv'
    BY NextStill
  <1>3. StillInv => HeldWhileRunning
    BY DEF StillInv, HeldBack, HeldWhileRunning
  <1> QED
    BY <1>1, <1>2, <1>3, PTL DEF Spec

=============================================================================
