------------------------- MODULE TransactionsProofs -------------------------
(***************************************************************************)
(* Theorems about Transactions, for any flows, queriers, connections,      *)
(* scopes and plans: its types; for a program that uses `transaction`      *)
(* alone, whose transaction the slot, the database and an answer are of;   *)
(* and, for one that makes any call, what a release hands back.            *)
(***************************************************************************)
EXTENDS Transactions, SequenceTheorems, TLAPS

-----------------------------------------------------------------------------
(***************************************************************************)
(* Types.                                                                  *)
(***************************************************************************)
\* `runCallbacks` runs those of the transaction that committed.
CallbacksOfAScope == \A f \in Flow : pc[f] = "callbacks" => job[f].scope # NoScope
TypeInv == TypeOK /\ CallbacksOfAScope

\* The scope a flow's statement runs in is one of the scopes, or none.
LEMMA ScopeHereType ==
    ASSUME TypeOK, NEW f \in Flow
    PROVE  ScopeHere(f) \in Scope \cup {NoScope}
  <1>1. on[f] \in Querier /\ ConnectionOf[on[f]] \in Connection
    BY FlowAssumption DEF TypeOK
  <1>2. ctx[f] \in Scope \cup {NoScope} /\ held[SlotOf(on[f])] \in Scope \cup {NoScope}
    BY <1>1 DEF TypeOK, SlotOf
  <1>3. CurrentTransaction(f, SlotOf(on[f])) \in Scope \cup {NoScope}
    BY <1>2 DEF CurrentTransaction
  <1> QED
    BY <1>2, <1>3 DEF ScopeHere

\* A new scope is one no transaction uses yet.
LEMMA NextScopeType ==
    ASSUME Fresh # {}
    PROVE  NextScope \in Scope /\ scope[NextScope] = Unused
  BY DEF Fresh, NextScope

LEMMA NewScopeType ==
    ASSUME TypeOK, NEW f \in Flow, Fresh # {}, NEW manual \in BOOLEAN,
           NEW parent \in Scope \cup {NoScope}
    PROVE  NewScope(f, parent, manual) \in [Scope -> ScopeRecord]
  <1> DEFINE new == [querier |-> on[f], parent |-> parent, manual |-> manual, flow |-> f, outer |-> ctx[f],
                     after |-> IF parent = NoScope THEN NoScope ELSE nested[parent],
                     root |-> IF parent = NoScope THEN NextScope ELSE RootOf(parent),
                     depth |-> IF parent = NoScope THEN 0 ELSE scope[parent].depth + 1,
                     lineage |-> {NextScope} \cup Lineage(parent)]
  <1>1. NextScope \in Scope
    BY NextScopeType
  <1>2. on[f] \in Querier /\ ctx[f] \in Scope \cup {NoScope}
    BY DEF TypeOK
  <1>3. ASSUME parent # NoScope
        PROVE  /\ nested[parent] \in Scope \cup {NoScope}
               /\ scope[parent].root \in Scope \cup {NoScope}
               /\ scope[parent].depth \in Nat
               /\ scope[parent].lineage \subseteq Scope
    BY <1>3 DEF TypeOK, ScopeRecord
  <1>4. new.depth \in Nat
    BY <1>3
  <1>5. new.root \in Scope \cup {NoScope} /\ new.after \in Scope \cup {NoScope}
    BY <1>1, <1>3 DEF RootOf
  <1>5a. new.lineage \subseteq Scope
    BY <1>1, <1>3 DEF Lineage
  <1>6. new \in ScopeRecord
    BY <1>2, <1>4, <1>5, <1>5a DEF ScopeRecord
  <1> HIDE DEF new
  <1>7. [scope EXCEPT ![NextScope] = new] \in [Scope -> ScopeRecord]
    BY <1>6 DEF TypeOK
  <1> QED
    BY <1>7 DEF NewScope, new

\* What a flow goes on to do, and with what, is well typed.
LEMMA GoType ==
    ASSUME TypeInv, NEW f \in Flow, NEW place \in Place \ {"callbacks"}, NEW kind \in JobKind,
           NEW s \in Scope \cup {NoScope}, kind \in NeedsScope => s # NoScope,
           Go(f, place, kind, s)
    PROVE  /\ pc' \in [Flow -> Place]
           /\ job' \in [Flow -> Job]
           /\ CallbacksOfAScope'
  <1>1. [kind |-> kind, scope |-> s] \in Job
    BY DEF Job
  <1>2. pc' \in [Flow -> Place]
    BY DEF Go, TypeInv, TypeOK
  <1>3. job' \in [Flow -> Job]
    BY <1>1 DEF Go, TypeInv, TypeOK
  <1>4. ASSUME NEW g \in Flow, pc'[g] = "callbacks"
        PROVE  job'[g].scope # NoScope
    <2>1. g # f
      BY <1>4 DEF Go, TypeInv, TypeOK
    <2> QED
      BY <1>4, <2>1 DEF Go, TypeInv, TypeOK, CallbacksOfAScope
  <1> QED
    BY <1>2, <1>3, <1>4 DEF CallbacksOfAScope

\* The continuation of an await is well typed.
LEMMA SettleType ==
    ASSUME TypeInv, NEW f \in Flow, NEW ok \in BOOLEAN, Settle(f, ok)
    PROVE  /\ pc' \in [Flow -> Place]
           /\ job' \in [Flow -> Job]
           /\ ctx' \in [Flow -> Scope \cup {NoScope}]
           /\ settled' \subseteq Scope
           /\ onCommit' \in [Scope -> SUBSET Scope]
           /\ CallbacksOfAScope'
           /\ UNCHANGED <<on, calls, scope, nested>>
  <1> DEFINE j == job[f]
  <1>1. job[f] \in Job
    BY DEF TypeInv, TypeOK
  <1>2. NextPlace(j, ok) \in Place
    BY DEF NextPlace, Place
  <1>3. pc' \in [Flow -> Place]
    BY <1>2 DEF Settle, TypeInv, TypeOK
  <1>4. Idle \in Job
    BY DEF Idle, Job, JobKind, NeedsScope
  <1>5. job' \in [Flow -> Job]
    BY <1>4 DEF Settle, TypeInv, TypeOK
  <1>6. Ends(j, ok) => j.scope \in Scope
    BY <1>1 DEF Ends, OwnTransaction, Job
  <1>7. ctx' \in [Flow -> Scope \cup {NoScope}]
    <2>1. Ends(j, ok) => scope[j.scope].outer \in Scope \cup {NoScope}
      BY <1>6 DEF TypeInv, TypeOK, ScopeRecord
    <2> QED
      BY <2>1 DEF Settle, TypeInv, TypeOK
  <1>8. settled' \subseteq Scope
    BY <1>6 DEF Settle, EndsNested, TypeInv, TypeOK
  <1>9. onCommit' \in [Scope -> SUBSET Scope]
    <2>1. CASE Ends(j, ok) /\ j.kind = "releaseSavepoint"
      <3> DEFINE parent == scope[j.scope].parent
      <3>1. onCommit' = [onCommit EXCEPT ![parent] = @ \cup onCommit[j.scope]]
        BY <2>1 DEF Settle
      <3>2. onCommit \in [Scope -> SUBSET Scope] /\ onCommit[j.scope] \subseteq Scope
        BY <1>6, <2>1 DEF TypeInv, TypeOK
      <3> HIDE DEF parent
      <3> QED
        BY <3>1, <3>2
    <2>2. CASE ~(Ends(j, ok) /\ j.kind = "releaseSavepoint")
      BY <2>2 DEF Settle, TypeInv, TypeOK
    <2> QED
      BY <2>1, <2>2
  <1>10. CallbacksOfAScope'
    <2> SUFFICES ASSUME NEW g \in Flow, pc'[g] = "callbacks"
                 PROVE  job'[g].scope # NoScope
      BY DEF CallbacksOfAScope
    <2>1. CASE g = f
      <3>1. NextPlace(j, ok) = "callbacks"
        BY <2>1 DEF Settle, TypeInv, TypeOK
      <3>2. j.kind = "commit"
        BY <3>1 DEF NextPlace
      <3>3. job' = job
        BY <3>1 DEF Settle
      <3> QED
        BY <1>1, <2>1, <3>2, <3>3 DEF Job, NeedsScope
    <2>2. CASE g # f
      <3>1. pc'[g] = pc[g] /\ job'[g] = job[g]
        BY <2>2 DEF Settle, TypeInv, TypeOK
      <3> QED
        BY <3>1 DEF TypeInv, CallbacksOfAScope
    <2> QED
      BY <2>1, <2>2
  <1> QED
    BY <1>3, <1>5, <1>7, <1>8, <1>9, <1>10 DEF Settle

\* The task a querier runs is one a flow asked for, and the queue after it is one again.
LEMMA TaskType ==
    ASSUME TypeOK, NEW q \in Querier, queue[q] # <<>>
    PROVE  /\ Head(queue[q]) \in Task
           /\ Caller(q) \in Flow
           /\ Tail(queue[q]) \in Seq(Task)
  <1>1. queue[q] \in Seq(Task)
    BY DEF TypeOK
  <1> QED
    BY <1>1, HeadTailProperties DEF Caller, Task

\* A call leaves one fewer to make.
LEMMA CountType ==
    ASSUME TypeOK, NEW f \in Flow, NEW kind, CanCall(f, kind), Count(f)
    PROVE  calls' \in [Flow -> [kinds : SUBSET CallKind, left : Nat]]
  <1>1. calls[f] \in [kinds : SUBSET CallKind, left : Nat]
    BY DEF TypeOK
  <1>2. [calls[f] EXCEPT !.left = @ - 1] \in [kinds : SUBSET CallKind, left : Nat]
    BY <1>1 DEF CanCall
  <1>3. calls' = [calls EXCEPT ![f] = [calls[f] EXCEPT !.left = @ - 1]]
    BY <1>1 DEF Count, TypeOK
  <1> QED
    BY <1>2, <1>3 DEF TypeOK

\* A flow's calls, and the end of its callbacks and loops, keep the types.
LEMMA UserStepsKeepTypes ==
    ASSUME TypeInv, NEW f \in Flow, UserStep(f)
    PROVE  TypeInv'
  <1> USE FlowAssumption DEF slotVars, querierVars, engineVars
  <1>1. ASSUME Statement(f) PROVE TypeInv'
    <2>1. /\ pc' \in [Flow -> Place]
          /\ job' \in [Flow -> Job]
          /\ CallbacksOfAScope'
      BY <1>1, GoType DEF Statement, Place, JobKind, NeedsScope
    <2>2. calls' \in [Flow -> [kinds : SUBSET CallKind, left : Nat]]
      BY <1>1, CountType DEF Statement, TypeInv
    <2> QED
      BY <1>1, <2>1, <2>2 DEF Statement, TypeInv, TypeOK
  <1>2. ASSUME Transaction(f) PROVE TypeInv'
    <2>1. scope' \in [Scope -> ScopeRecord]
      BY <1>2, NewScopeType DEF Transaction, TypeInv
    <2>2. ctx' \in [Flow -> Scope \cup {NoScope}]
      BY <1>2, NextScopeType DEF Transaction, TypeInv, TypeOK
    <2>3. held' \in [Connection -> Scope \cup {NoScope}]
      BY <1>2, NextScopeType DEF Transaction, ClaimNow, TypeInv, TypeOK
    <2>4. /\ pc' \in [Flow -> Place]
          /\ job' \in [Flow -> Job]
          /\ CallbacksOfAScope'
      BY <1>2, NextScopeType, GoType DEF Transaction, ClaimNow, Place, JobKind, NeedsScope
    <2>5. calls' \in [Flow -> [kinds : SUBSET CallKind, left : Nat]]
      BY <1>2, CountType DEF Transaction, TypeInv
    <2> QED
      BY <1>2, <2>1, <2>2, <2>3, <2>4, <2>5 DEF Transaction, TypeInv, TypeOK
  <1>3. ASSUME Nested(f) PROVE TypeInv'
    <2>1. scope' \in [Scope -> ScopeRecord]
      BY <1>3, NewScopeType, ScopeHereType DEF Nested, TypeInv
    <2>2. nested' \in [Scope -> Scope \cup {NoScope}]
      BY <1>3, NextScopeType, ScopeHereType DEF Nested, TypeInv, TypeOK
    <2>3. /\ pc' \in [Flow -> Place]
          /\ job' \in [Flow -> Job]
          /\ CallbacksOfAScope'
      BY <1>3, NextScopeType, GoType DEF Nested, Place, JobKind, NeedsScope
    <2>4. calls' \in [Flow -> [kinds : SUBSET CallKind, left : Nat]]
      BY <1>3, CountType DEF Nested, TypeInv
    <2> QED
      BY <1>3, <2>1, <2>2, <2>3, <2>4 DEF Nested, TypeInv, TypeOK
  <1>4. ASSUME BeginTransaction(f) PROVE TypeInv'
    <2>1. calls' \in [Flow -> [kinds : SUBSET CallKind, left : Nat]]
      BY <1>4, CountType DEF BeginTransaction, TypeInv
    <2>2. CASE ScopeHere(f) # NoScope
      BY <1>4, <2>1, <2>2 DEF BeginTransaction, TypeInv, TypeOK, CallbacksOfAScope
    <2>3. CASE ScopeHere(f) = NoScope
      <3>0. Fresh # {} /\ scope' = NewScope(f, NoScope, TRUE)
        BY <1>4, <2>3 DEF BeginTransaction
      <3>1. scope' \in [Scope -> ScopeRecord]
        BY <3>0, NewScopeType DEF TypeInv
      <3>2. held' \in [Connection -> Scope \cup {NoScope}]
        BY <1>4, <2>3, NextScopeType DEF BeginTransaction, ClaimNow, TypeInv, TypeOK
      <3>3. /\ pc' \in [Flow -> Place]
            /\ job' \in [Flow -> Job]
            /\ CallbacksOfAScope'
        BY <1>4, <2>3, NextScopeType, GoType DEF BeginTransaction, ClaimNow, Place, JobKind, NeedsScope
      <3> QED
        BY <1>4, <2>1, <2>3, <3>1, <3>2, <3>3 DEF BeginTransaction, TypeInv, TypeOK
    <2> QED
      BY <2>2, <2>3
  <1>5. ASSUME CommitTransaction(f) PROVE TypeInv'
    <2>1. on[f] \in Querier /\ SlotOf(on[f]) \in Connection
      BY <1>5, FlowAssumption DEF CommitTransaction, TypeInv, TypeOK, SlotOf
    <2>2. held[SlotOf(on[f])] \in Scope \cup {NoScope}
      BY <1>5, <2>1 DEF CommitTransaction, TypeInv, TypeOK
    <2>3. /\ pc' \in [Flow -> Place]
          /\ job' \in [Flow -> Job]
          /\ CallbacksOfAScope'
      BY <1>5, <2>2, GoType DEF CommitTransaction, Place, JobKind, NeedsScope, TypeInv, CallbacksOfAScope, TypeOK
    <2>4. calls' \in [Flow -> [kinds : SUBSET CallKind, left : Nat]]
      BY <1>5, CountType DEF CommitTransaction, TypeInv
    <2> QED
      BY <1>5, <2>1, <2>2, <2>3, <2>4 DEF CommitTransaction, TypeInv, TypeOK
  <1>6. ASSUME RollbackTransaction(f) PROVE TypeInv'
    <2>1. /\ pc' \in [Flow -> Place]
          /\ job' \in [Flow -> Job]
          /\ CallbacksOfAScope'
      BY <1>6, GoType DEF RollbackTransaction, Place, JobKind, NeedsScope
    <2>2. calls' \in [Flow -> [kinds : SUBSET CallKind, left : Nat]]
      BY <1>6, CountType DEF RollbackTransaction, TypeInv
    <2> QED
      BY <1>6, <2>1, <2>2 DEF RollbackTransaction, TypeInv, TypeOK
  <1>7. ASSUME OnCommit(f) PROVE TypeInv'
    <2>1. onCommit' \in [Scope -> SUBSET Scope]
      BY <1>7, ScopeHereType DEF OnCommit, TypeInv, TypeOK
    <2>2. CallbacksOfAScope'
      BY <1>7 DEF OnCommit, TypeInv, CallbacksOfAScope
    <2>3. calls' \in [Flow -> [kinds : SUBSET CallKind, left : Nat]]
      BY <1>7, CountType DEF OnCommit, TypeInv
    <2> QED
      BY <1>7, <2>1, <2>2, <2>3 DEF OnCommit, TypeInv, TypeOK
  <1>8. ASSUME StreamNext(f) PROVE TypeInv'
    <2>1. stream' \in [Querier -> Flow \cup {NoFlow}]
      <3>1. on[f] \in Querier /\ stream \in [Querier -> Flow \cup {NoFlow}]
        BY DEF TypeInv, TypeOK
      <3> QED
        BY <1>8, <3>1 DEF StreamNext
    <2>2. /\ pc' \in [Flow -> Place]
          /\ job' \in [Flow -> Job]
          /\ CallbacksOfAScope'
      BY <1>8 DEF StreamNext, TypeInv, TypeOK, CallbacksOfAScope, Place
    <2>3. calls' \in [Flow -> [kinds : SUBSET CallKind, left : Nat]]
      BY <1>8, CountType DEF StreamNext, TypeInv
    <2> QED
      BY <1>8, <2>1, <2>2, <2>3 DEF StreamNext, TypeInv, TypeOK
  <1>9. ASSUME StreamEnd(f) PROVE TypeInv'
    <2>1. stream' \in [Querier -> Flow \cup {NoFlow}]
      BY <1>9 DEF StreamEnd, TypeInv, TypeOK
    <2>2. CallbacksOfAScope'
      BY <1>9 DEF StreamEnd, TypeInv, CallbacksOfAScope, flowVars
    <2>3. UNCHANGED <<pc, job, ctx, on, calls>>
      BY <1>9 DEF StreamEnd, flowVars
    <2> QED
      BY <1>9, <2>1, <2>2, <2>3 DEF StreamEnd, TypeInv, TypeOK
  <1>10. ASSUME Release(f) PROVE TypeInv'
    <2>1. /\ pc' \in [Flow -> Place]
          /\ job' \in [Flow -> Job]
          /\ CallbacksOfAScope'
      BY <1>10, GoType DEF Release, Place, JobKind, NeedsScope
    <2>2. calls' \in [Flow -> [kinds : SUBSET CallKind, left : Nat]]
      BY <1>10, CountType DEF Release, TypeInv
    <2> QED
      BY <1>10, <2>1, <2>2 DEF Release, TypeInv, TypeOK
  <1>11. ASSUME Return(f) PROVE TypeInv'
    <2>1. /\ pc' \in [Flow -> Place]
          /\ job' \in [Flow -> Job]
          /\ CallbacksOfAScope'
      BY <1>11, GoType DEF Return, Place, JobKind, NeedsScope, InCallback, TypeInv, TypeOK
    <2> QED
      BY <1>11, <2>1 DEF Return, TypeInv, TypeOK
  <1>12. ASSUME Throw(f) PROVE TypeInv'
    <2>1. /\ pc' \in [Flow -> Place]
          /\ job' \in [Flow -> Job]
          /\ CallbacksOfAScope'
      BY <1>12, GoType DEF Throw, Place, JobKind, NeedsScope, InCallback, TypeInv, TypeOK
    <2> QED
      BY <1>12, <2>1 DEF Throw, TypeInv, TypeOK
  <1>13. ASSUME NEW g \in Flow, Start(f, g) PROVE TypeInv'
    <2>1. /\ pc' \in [Flow -> Place]
          /\ ctx' \in [Flow -> Scope \cup {NoScope}]
          /\ on' \in [Flow -> Querier]
      BY <1>13 DEF Start, TypeInv, TypeOK, Place
    <2>2. CallbacksOfAScope'
      BY <1>13 DEF Start, TypeInv, TypeOK, CallbacksOfAScope
    <2> QED
      BY <1>13, <2>1, <2>2 DEF Start, TypeInv, TypeOK
  <1> QED
    BY <1>1, <1>2, <1>3, <1>4, <1>5, <1>6, <1>7, <1>8, <1>9, <1>10, <1>11, <1>12, <1>13 DEF UserStep

\* What the event loop owes a waiting flow keeps the types.
LEMMA FlowStepsKeepTypes ==
    ASSUME TypeInv, NEW f \in Flow, FlowStep(f)
    PROVE  TypeInv'
  <1> USE FlowAssumption DEF slotVars, querierVars, engineVars
  <1>1. ASSUME Claim(f) PROVE TypeInv'
    <2>1. job[f] \in Job
      BY DEF TypeInv, TypeOK
    <2>2. held' \in [Connection -> Scope \cup {NoScope}]
      BY <1>1, <2>1 DEF Claim, Job, TypeInv, TypeOK
    <2>3. /\ pc' \in [Flow -> Place]
          /\ CallbacksOfAScope'
      BY <1>1 DEF Claim, TypeInv, TypeOK, Place, CallbacksOfAScope
    <2> QED
      BY <1>1, <2>2, <2>3 DEF Claim, TypeInv, TypeOK
  <1>2. ASSUME NestedTurn(f) PROVE TypeInv'
    <2>1. job[f].scope \in Scope \cup {NoScope}
      BY <1>2 DEF NestedTurn, TypeInv, TypeOK, Job
    <2>2. ctx' \in [Flow -> Scope \cup {NoScope}]
      BY <1>2, <2>1 DEF NestedTurn, TypeInv, TypeOK
    <2>3. /\ pc' \in [Flow -> Place]
          /\ CallbacksOfAScope'
      BY <1>2 DEF NestedTurn, TypeInv, TypeOK, CallbacksOfAScope, Place
    <2> QED
      BY <1>2, <2>1, <2>2, <2>3 DEF NestedTurn, TypeInv, TypeOK
  <1>3. ASSUME StreamTurn(f) PROVE TypeInv'
    <2>1. stream' \in [Querier -> Flow \cup {NoFlow}]
      BY <1>3 DEF StreamTurn, TypeInv, TypeOK
    <2>2. /\ pc' \in [Flow -> Place]
          /\ CallbacksOfAScope'
      BY <1>3 DEF StreamTurn, TypeInv, TypeOK, CallbacksOfAScope, Place
    <2> QED
      BY <1>3, <2>1, <2>2 DEF StreamTurn, TypeInv, TypeOK
  <1>4. ASSUME StreamReturned(f) PROVE TypeInv'
    <2>1. stream' \in [Querier -> Flow \cup {NoFlow}]
      BY <1>4 DEF StreamReturned, TypeInv, TypeOK
    <2>2. unusable' \in [Querier -> BOOLEAN]
      BY <1>4 DEF StreamReturned, TypeInv, TypeOK
    <2>3. faults' \in 0..MaxFaults
      BY <1>4, BoundAssumption DEF StreamReturned, TypeInv, TypeOK
    <2>4. /\ pc' \in [Flow -> Place]
          /\ CallbacksOfAScope'
      BY <1>4 DEF StreamReturned, TypeInv, TypeOK, CallbacksOfAScope, Place
    <2>5. dirty' \subseteq Connection
      <3>1. on[f] \in Querier
        BY DEF TypeInv, TypeOK
      <3> QED
        BY <1>4, <3>1 DEF StreamReturned, Spill, SlotOf, TypeInv, TypeOK
    <2> QED
      BY <1>4, <2>1, <2>2, <2>3, <2>4, <2>5 DEF StreamReturned, TypeInv, TypeOK
  <1>5. ASSUME Serialize(f) PROVE TypeInv'
    <2> DEFINE task == [flow |-> f, kind |-> job[f].kind, scope |-> job[f].scope, within |-> ScopeHere(f)]
    <2>1. task \in Task
      BY <1>5, ScopeHereType DEF TypeInv, TypeOK, Job, Task
    <2>2. queue' = [queue EXCEPT ![on[f]] = Append(@, task)]
      BY <1>5 DEF Serialize
    <2> HIDE DEF task
    <2>3. queue' \in [Querier -> Seq(Task)]
      BY <2>1, <2>2, AppendProperties DEF TypeInv, TypeOK
    <2>4. /\ pc' \in [Flow -> Place]
          /\ CallbacksOfAScope'
      BY <1>5 DEF Serialize, TypeInv, TypeOK, Place, CallbacksOfAScope
    <2> QED
      BY <1>5, <2>3, <2>4 DEF Serialize, TypeInv, TypeOK
  <1>6. ASSUME Refuse(f) PROVE TypeInv'
    <2>1. held' \in [Connection -> Scope \cup {NoScope}]
      BY <1>6 DEF Refuse, TypeInv, TypeOK, Free
    <2>2. /\ pc' \in [Flow -> Place]
          /\ job' \in [Flow -> Job]
          /\ CallbacksOfAScope'
          /\ ctx' \in [Flow -> Scope \cup {NoScope}]
          /\ settled' \subseteq Scope
          /\ onCommit' \in [Scope -> SUBSET Scope]
          /\ UNCHANGED <<on, calls, scope, nested>>
      BY <1>6, SettleType DEF Refuse
    <2> QED
      BY <1>6, <2>1, <2>2 DEF Refuse, TypeInv, TypeOK
  <1>7. ASSUME Released(f) PROVE TypeInv'
    <2> DEFINE task == [flow |-> f, kind |-> "handback", scope |-> NoScope, within |-> NoScope]
    <2>1. task \in Task
      BY <1>7 DEF Task, JobKind, NeedsScope
    <2>2. queue' = [queue EXCEPT ![on[f]] = Append(@, task)]
      BY <1>7 DEF Released
    <2> HIDE DEF task
    <2>3. queue' \in [Querier -> Seq(Task)]
      BY <2>1, <2>2, AppendProperties DEF TypeInv, TypeOK
    <2>4. /\ pc' \in [Flow -> Place]
          /\ job' \in [Flow -> Job]
          /\ CallbacksOfAScope'
      BY <1>7, GoType DEF Released, Place, JobKind, NeedsScope
    <2>5. released' \in [Querier -> BOOLEAN]
      BY <1>7 DEF Released, TypeInv, TypeOK
    <2> QED
      BY <1>7, <2>3, <2>4, <2>5 DEF Released, TypeInv, TypeOK
  <1>8. ASSUME RunCallbacks(f) PROVE TypeInv'
    <2>1. onCommit[job[f].scope] \subseteq Scope
      BY <1>8 DEF RunCallbacks, TypeInv, TypeOK, CallbacksOfAScope, Job
    <2>2. ran' \subseteq Scope
      BY <1>8, <2>1 DEF RunCallbacks, TypeInv, TypeOK
    <2>3. /\ pc' \in [Flow -> Place]
          /\ job' \in [Flow -> Job]
          /\ CallbacksOfAScope'
      BY <1>8, GoType DEF RunCallbacks, Place, JobKind, NeedsScope
    <2> QED
      BY <1>8, <2>1, <2>2, <2>3 DEF RunCallbacks, TypeInv, TypeOK
  <1> QED
    BY <1>1, <1>2, <1>3, <1>4, <1>5, <1>6, <1>7, <1>8 DEF FlowStep

\* The continuation of a task's answer, for the flow that awaits it.
LEMMA AnswerType ==
    ASSUME TypeInv, NEW q \in Querier, queue[q] # <<>>, Pop(q),
           NEW ok \in BOOLEAN, Settle(Caller(q), ok)
    PROVE  /\ queue' \in [Querier -> Seq(Task)]
           /\ pc' \in [Flow -> Place]
           /\ job' \in [Flow -> Job]
           /\ ctx' \in [Flow -> Scope \cup {NoScope}]
           /\ settled' \subseteq Scope
           /\ onCommit' \in [Scope -> SUBSET Scope]
           /\ CallbacksOfAScope'
           /\ UNCHANGED <<on, calls, scope, nested>>
  <1>1. Caller(q) \in Flow /\ Tail(queue[q]) \in Seq(Task)
    BY TaskType DEF TypeInv
  <1>2. queue' \in [Querier -> Seq(Task)]
    BY <1>1 DEF Pop, TypeInv, TypeOK
  <1> QED
    BY <1>1, <1>2, SettleType

\* What the rest of the state must be for the types to be kept, once the caller was answered.
LEMMA TaskStepKeepsTypes ==
    ASSUME TypeInv, NEW q \in Querier, queue[q] # <<>>, Pop(q),
           NEW ok \in BOOLEAN, Settle(Caller(q), ok),
           held' \in [Connection -> Scope \cup {NoScope}],
           hasOpen' \in [Querier -> BOOLEAN],
           unusable' \in [Querier -> BOOLEAN],
           conn' \in [Querier -> {"mine", "kept", "discarded"}],
           engine' \in [Connection -> Session],
           faults' \in 0..MaxFaults,
           committed' \subseteq Scope,
           undone' \subseteq Scope,
           aborted' \subseteq Connection,
           spoiled' \subseteq Scope,
           dirty' \subseteq Connection,
           UNCHANGED <<stream, released, ran>>
    PROVE  TypeInv'
  BY AnswerType DEF TypeInv, TypeOK

\* What the database keeps of a transaction stays well typed, whatever a command makes of it.
LEMMA SessionType ==
    ASSUME TypeOK, NEW c \in Connection
    PROVE  /\ engine[c] \in Session
           /\ NoTransaction \in Session
           /\ \A s \in Scope : [NoTransaction EXCEPT !.tx = s] \in Session
           /\ \A w \in Scope \cup {NoScope} : [engine[c] EXCEPT !.writes = Append(@, w)] \in Session
           /\ \A e \in Session : [engine EXCEPT ![c] = e] \in [Connection -> Session]
  <1>1. engine[c] \in Session
    BY DEF TypeOK
  <1>2. NoTransaction \in Session
    BY EmptySeq DEF NoTransaction, Session
  <1>3. ASSUME NEW w \in Scope \cup {NoScope}
        PROVE  [engine[c] EXCEPT !.writes = Append(@, w)] \in Session
    <2>1. Append(engine[c].writes, w) \in Seq(Scope \cup {NoScope})
      BY <1>1, AppendProperties DEF Session
    <2> QED
      BY <1>1, <2>1 DEF Session
  <1>4. ASSUME NEW s \in Scope
        PROVE  [NoTransaction EXCEPT !.tx = s] \in Session
    BY EmptySeq DEF NoTransaction, Session
  <1>5. \A e \in Session : [engine EXCEPT ![c] = e] \in [Connection -> Session]
    BY DEF TypeOK
  <1> QED
    BY <1>1, <1>2, <1>3, <1>4, <1>5

LEMMA SavesType ==
    ASSUME TypeOK, NEW c \in Connection
    PROVE  /\ \A s \in Scope :
                [engine[c] EXCEPT !.saves = Append(@, [depth |-> scope[s].depth, writes |-> engine[c].writes])] \in Session
           /\ \A i \in DOMAIN engine[c].saves :
                /\ [engine[c] EXCEPT !.saves = SubSeq(@, 1, i - 1)] \in Session
                /\ [engine[c] EXCEPT !.writes = engine[c].saves[i].writes, !.saves = SubSeq(@, 1, i)] \in Session
  <1>1. /\ engine[c] \in Session
        /\ engine[c].saves \in Seq(Savepoint)
        /\ engine[c].writes \in Seq(Scope \cup {NoScope})
    BY DEF TypeOK, Session
  <1>2. ASSUME NEW s \in Scope
        PROVE  [engine[c] EXCEPT !.saves = Append(@, [depth |-> scope[s].depth, writes |-> engine[c].writes])] \in Session
    <2>1. [depth |-> scope[s].depth, writes |-> engine[c].writes] \in Savepoint
      BY <1>1 DEF Savepoint, TypeOK, ScopeRecord
    <2>2. Append(engine[c].saves, [depth |-> scope[s].depth, writes |-> engine[c].writes]) \in Seq(Savepoint)
      BY <1>1, <2>1, AppendProperties
    <2> QED
      BY <1>1, <2>2 DEF Session
  <1>3. ASSUME NEW i \in DOMAIN engine[c].saves
        PROVE  /\ [engine[c] EXCEPT !.saves = SubSeq(@, 1, i - 1)] \in Session
               /\ [engine[c] EXCEPT !.writes = engine[c].saves[i].writes, !.saves = SubSeq(@, 1, i)] \in Session
    <2>1. i \in 1..Len(engine[c].saves)
      BY <1>1, LenProperties
    <2>2. \A k \in 1..i : engine[c].saves[k] \in Savepoint
      BY <1>1, <2>1, ElementOfSeq
    <2>3. SubSeq(engine[c].saves, 1, i) \in Seq(Savepoint)
      BY <2>1, <2>2, SubSeqProperties
    <2>4. SubSeq(engine[c].saves, 1, i - 1) \in Seq(Savepoint)
      BY <2>1, <2>2, SubSeqProperties
    <2>5. engine[c].saves[i].writes \in Seq(Scope \cup {NoScope})
      BY <2>1, <2>2 DEF Savepoint
    <2> QED
      BY <1>1, <2>3, <2>4, <2>5 DEF Session
  <1> QED
    BY <1>2, <1>3

\* Every task a querier runs keeps the types.
LEMMA QuerierStepsKeepTypes ==
    ASSUME TypeInv, NEW q \in Querier, QuerierStep(q)
    PROVE  TypeInv'
  <1> DEFINE c == SlotOf(q)
             t == Head(queue[q])
             Rest == /\ held' \in [Connection -> Scope \cup {NoScope}]
                     /\ hasOpen' \in [Querier -> BOOLEAN]
                     /\ unusable' \in [Querier -> BOOLEAN]
                     /\ conn' \in [Querier -> {"mine", "kept", "discarded"}]
                     /\ engine' \in [Connection -> Session]
                     /\ faults' \in 0..MaxFaults
                     /\ committed' \subseteq Scope
                     /\ undone' \subseteq Scope
                     /\ aborted' \subseteq Connection
                     /\ spoiled' \subseteq Scope
                     /\ dirty' \subseteq Connection
                     /\ UNCHANGED <<stream, released, ran>>
  <1>c. c \in Connection
    BY FlowAssumption DEF SlotOf
  <1>free. [held EXCEPT ![SlotOf(q)] = NoScope] \in [Connection -> Scope \cup {NoScope}]
    BY DEF TypeInv, TypeOK
  <1>fault. /\ Fault => faults' \in 0..MaxFaults
            /\ Unended(q) => faults' \in 0..MaxFaults
    BY BoundAssumption DEF Fault, Unended, TypeInv, TypeOK
  <1>dirty. Spill(q) => dirty' \subseteq Connection
    BY <1>c DEF Spill, TypeInv, TypeOK, c
  <1>tx. {engine[c].tx} \ {NoScope} \subseteq Scope
    BY <1>c DEF TypeInv, TypeOK, Session
  <1>q. ASSUME queue[q] # <<>>, Pop(q), NEW ok \in BOOLEAN, Settle(Caller(q), ok), Rest
        PROVE  TypeInv'
    BY <1>q, TaskStepKeepsTypes
  <1>t. queue[q] # <<>> => t \in Task
    BY TaskType DEF TypeInv
  <1> HIDE DEF c, t
  <1>e. /\ NoTransaction \in Session
        /\ \A e \in Session : [engine EXCEPT ![c] = e] \in [Connection -> Session]
    BY <1>c, SessionType DEF TypeInv
  <1>1. ASSUME RunStatement(q) PROVE TypeInv'
    <2>1. queue[q] # <<>> /\ t.within \in Scope \cup {NoScope}
      BY <1>1, <1>t DEF RunStatement, Running, Task
    <2>3. engine' \in [Connection -> Session]
      <3>1. CASE engine' = engine
        BY <3>1 DEF TypeInv, TypeOK
      <3>2. CASE engine' = [engine EXCEPT ![c].writes = Append(@, t.within)]
        <4>1. engine' = [engine EXCEPT ![c] = [engine[c] EXCEPT !.writes = Append(@, t.within)]]
          BY <3>2
        <4>2. [engine[c] EXCEPT !.writes = Append(@, t.within)] \in Session
          BY <1>c, <2>1, SessionType DEF TypeInv
        <4> QED
          BY <1>e, <4>1, <4>2
      <3> QED
        BY <1>1, <3>1, <3>2 DEF RunStatement, c, t
    <2>4. Rest
      BY <1>1, <2>3 DEF RunStatement, TypeInv, TypeOK
    <2> QED
      BY <1>1, <1>q, <2>1, <2>4 DEF RunStatement
  <1>2. ASSUME RunBegin(q) PROVE TypeInv'
    <2>1. queue[q] # <<>> /\ t.scope \in Scope
      BY <1>2, <1>t DEF RunBegin, Running, Task, NeedsScope, t
    <2>2. [engine EXCEPT ![c] = [NoTransaction EXCEPT !.tx = t.scope]] \in [Connection -> Session]
      BY <1>c, <1>e, <2>1, SessionType DEF TypeInv
    <2>3. CASE /\ engine' = [engine EXCEPT ![c] = [NoTransaction EXCEPT !.tx = t.scope]]
               /\ hasOpen' = [hasOpen EXCEPT ![q] = TRUE]
               /\ Settle(Caller(q), TRUE)
               /\ UNCHANGED <<held, faults>>
      <3>1. Rest
        BY <1>2, <2>2, <2>3 DEF RunBegin, TypeInv, TypeOK
      <3> QED
        BY <1>2, <1>q, <2>1, <2>3, <3>1 DEF RunBegin
    <2>4. CASE /\ Fault \/ UNCHANGED faults
               /\ Free(q)
               /\ Settle(Caller(q), FALSE)
               /\ UNCHANGED <<engine, hasOpen>>
      <3>1. Rest
        BY <1>2, <1>free, <1>fault, <2>4 DEF RunBegin, Free, TypeInv, TypeOK
      <3> QED
        BY <1>2, <1>q, <2>1, <2>4, <3>1 DEF RunBegin
    <2> QED
      BY <1>2, <2>3, <2>4 DEF RunBegin, c, t
  <1>3. ASSUME CloseNothing(q) PROVE TypeInv'
    <2>1. Rest
      BY <1>3, <1>free DEF CloseNothing, Free, engineVars, TypeInv, TypeOK
    <2>2. (Holds(q) \/ Head(queue[q]).kind # "commit") \in BOOLEAN /\ queue[q] # <<>>
      BY <1>3 DEF CloseNothing, Running, Holds
    <2> QED
      BY <1>3, <1>q, <2>1, <2>2 DEF CloseNothing
  <1>4. ASSUME RunCommit(q) PROVE TypeInv'
    <2>1. [engine EXCEPT ![c] = NoTransaction] \in [Connection -> Session]
      BY <1>e
    <2>3. committed' \subseteq Scope /\ undone' \subseteq Scope
      BY <1>4, <1>tx DEF RunCommit, TypeInv, TypeOK, c
    <2>2. Rest
      BY <1>4, <1>free, <2>1, <2>3 DEF RunCommit, Closing, Free, TypeInv, TypeOK, c
    <2> QED
      BY <1>4, <1>q, <2>2 DEF RunCommit, Closing, Running
  <1>5. ASSUME CommitFails(q) PROVE TypeInv'
    <2>1. [engine EXCEPT ![c] = NoTransaction] \in [Connection -> Session]
      BY <1>e
    <2>2. engine' \in [Connection -> Session] /\ undone' \subseteq Scope /\ aborted' \subseteq Connection
      BY <1>5, <1>tx, <2>1 DEF CommitFails, TypeInv, TypeOK, c
    <2>3. Rest
      BY <1>5, <1>fault, <2>2 DEF CommitFails, Closing, TypeInv, TypeOK
    <2> QED
      BY <1>5, <1>q, <2>3 DEF CommitFails, Closing, Running
  <1>6. ASSUME RunRollback(q) PROVE TypeInv'
    <2>1. [engine EXCEPT ![c] = NoTransaction] \in [Connection -> Session]
      BY <1>e
    <2>2. engine' \in [Connection -> Session] /\ undone' \subseteq Scope /\ aborted' \subseteq Connection
      BY <1>6, <1>tx, <2>1 DEF RunRollback, TypeInv, TypeOK, c
    <2>3. Rest
      BY <1>6, <1>free, <1>fault, <1>dirty, <2>2 DEF RunRollback, Closing, Free, TypeInv, TypeOK
    <2> QED
      BY <1>6, <1>q, <2>3 DEF RunRollback, Closing, Running
  <1>7. ASSUME RunSavepoint(q) PROVE TypeInv'
    <2>1. queue[q] # <<>> /\ t.scope \in Scope
      BY <1>7, <1>t DEF RunSavepoint, Running, Task, NeedsScope, t
    <2>2. engine' \in [Connection -> Session]
      <3> DEFINE save == [depth |-> scope[t.scope].depth, writes |-> engine[c].writes]
      <3>1. CASE engine' = engine
        BY <3>1 DEF TypeInv, TypeOK
      <3>2. CASE engine' = [engine EXCEPT ![c].saves = Append(@, save)]
        <4>1. [engine[c] EXCEPT !.saves = Append(@, save)] \in Session
          BY <1>c, <2>1, SavesType DEF TypeInv
        <4>2. engine' = [engine EXCEPT ![c] = [engine[c] EXCEPT !.saves = Append(@, save)]]
          BY <3>2
        <4> QED
          BY <1>e, <4>1, <4>2
      <3> QED
        BY <1>7, <3>1, <3>2 DEF RunSavepoint, c, t
    <2>3. Rest
      BY <1>7, <2>2 DEF RunSavepoint, TypeInv, TypeOK
    <2> QED
      BY <1>7, <1>q, <2>1, <2>3 DEF RunSavepoint
  <1>8. ASSUME RunReleaseSavepoint(q) PROVE TypeInv'
    <2>1. engine' \in [Connection -> Session]
      <3>1. CASE engine' = engine
        BY <3>1 DEF TypeInv, TypeOK
      <3>2. CASE \E i \in Named(c, t.scope) : engine' = [engine EXCEPT ![c].saves = SubSeq(@, 1, i - 1)]
        <4>1. PICK i \in DOMAIN engine[c].saves : engine' = [engine EXCEPT ![c].saves = SubSeq(@, 1, i - 1)]
          BY <3>2 DEF Named
        <4>2. [engine[c] EXCEPT !.saves = SubSeq(@, 1, i - 1)] \in Session
          BY <1>c, SavesType DEF TypeInv
        <4>3. engine' = [engine EXCEPT ![c] = [engine[c] EXCEPT !.saves = SubSeq(@, 1, i - 1)]]
          BY <4>1
        <4> QED
          BY <1>e, <4>2, <4>3
      <3> QED
        BY <1>8, <3>1, <3>2 DEF RunReleaseSavepoint, c, t
    <2>2. Rest
      BY <1>8, <2>1 DEF RunReleaseSavepoint, TypeInv, TypeOK
    <2> QED
      BY <1>8, <1>q, <2>2 DEF RunReleaseSavepoint, Running
  <1>9. ASSUME RunRollbackTo(q) PROVE TypeInv'
    <2>1. queue[q] # <<>> /\ t.scope \in Scope
      BY <1>9, <1>t DEF RunRollbackTo, Running, Task, NeedsScope, t
    <2>2. engine' \in [Connection -> Session]
      <3>1. CASE engine' = engine
        BY <3>1 DEF TypeInv, TypeOK
      <3>2. CASE \E i \in Named(c, t.scope) :
                   engine' = [engine EXCEPT ![c].writes = engine[c].saves[i].writes,
                                            ![c].saves = SubSeq(@, 1, i)]
        <4>1. PICK i \in DOMAIN engine[c].saves :
                   engine' = [engine EXCEPT ![c].writes = engine[c].saves[i].writes,
                                            ![c].saves = SubSeq(@, 1, i)]
          BY <3>2 DEF Named
        <4> DEFINE new == [engine[c] EXCEPT !.writes = engine[c].saves[i].writes, !.saves = SubSeq(@, 1, i)]
        <4>2. new \in Session
          BY <1>c, SavesType DEF TypeInv
        <4>3. engine' = [engine EXCEPT ![c] = new]
          BY <1>c, <4>1 DEF TypeInv, TypeOK, Session
        <4> HIDE DEF new
        <4> QED
          BY <1>e, <4>2, <4>3
      <3> QED
        BY <1>9, <3>1, <3>2 DEF RunRollbackTo, c, t
    <2>3. undone' \subseteq Scope
      BY <1>9, <2>1 DEF RunRollbackTo, TypeInv, TypeOK, t
    <2>4. Rest
      BY <1>9, <2>2, <2>3 DEF RunRollbackTo, TypeInv, TypeOK
    <2> QED
      BY <1>9, <1>q, <2>1, <2>4 DEF RunRollbackTo
  <1>10. ASSUME RunHandBack(q) PROVE TypeInv'
    <2>1. Rest
      BY <1>10 DEF RunHandBack, engineVars, TypeInv, TypeOK
    <2> QED
      BY <1>10, <1>q, <2>1 DEF RunHandBack, Running
  <1>11. ASSUME CommandFails(q) PROVE TypeInv'
    <2>1. queue[q] # <<>> /\ (t.kind = "rollbackTo" => t.scope \in Scope)
      BY <1>11, <1>t DEF CommandFails, Running, Task, NeedsScope, t
    <2>2. engine[c].tx # NoScope => engine[c].tx \in Scope
      BY <1>tx
    <2>3. /\ engine' \in [Connection -> Session]
          /\ undone' \subseteq Scope
          /\ aborted' \subseteq Connection
          /\ spoiled' \subseteq Scope
      BY <1>11, <1>c, <1>e, <2>1, <2>2 DEF CommandFails, TypeInv, TypeOK, c, t
    <2>4. Rest
      BY <1>11, <1>fault, <2>3 DEF CommandFails, TypeInv, TypeOK
    <2> QED
      BY <1>11, <1>q, <2>1, <2>4 DEF CommandFails
  <1> QED
    BY <1>1, <1>2, <1>3, <1>4, <1>5, <1>6, <1>7, <1>8, <1>9, <1>10, <1>11 DEF QuerierStep

LEMMA InitTypes ==
    ASSUME Init
    PROVE  TypeInv
  BY EmptySeq, FlowAssumption, PlanAssumption, BoundAssumption
  DEF Init, TypeInv, TypeOK, CallbacksOfAScope, PlanRecord, Unused, ScopeRecord, Idle, Job, JobKind,
      NeedsScope, NoTransaction, Session, Place

LEMMA NextTypes ==
    ASSUME TypeInv, [Next]_vars
    PROVE  TypeInv'
  <1>1. CASE \E f \in Flow : UserStep(f) \/ FlowStep(f)
    BY <1>1, UserStepsKeepTypes, FlowStepsKeepTypes
  <1>2. CASE \E q \in Querier : QuerierStep(q)
    BY <1>2, QuerierStepsKeepTypes
  <1>3. CASE UNCHANGED vars
    BY <1>3 DEF vars, slotVars, querierVars, flowVars, engineVars, TypeInv, TypeOK, CallbacksOfAScope
  <1> QED
    BY <1>1, <1>2, <1>3 DEF Next

\* Types are correct: every variable stays in its type whatever the flows do, for any plan.
THEOREM TypeCorrect == Spec => []TypeOK
  <1>1. Init => TypeInv
    BY InitTypes
  <1>2. TypeInv /\ [Next]_vars => TypeInv'
    BY NextTypes
  <1> QED
    BY <1>1, <1>2, PTL DEF Spec, TypeInv

-----------------------------------------------------------------------------
(***************************************************************************)
(* The slot.  The program uses `transaction` alone, and never begins,      *)
(* commits, rolls back or releases by hand: the database is in a           *)
(* transaction only while the slot holds it, and a transaction that        *)
(* resolves did commit.                                                    *)
(*                                                                         *)
(* The invariant says of each flow what it holds while it runs one of its  *)
(* own transactions: the slot from the claim on, and the database's        *)
(* transaction from the BEGIN to its end.                                  *)
(***************************************************************************)
ByHand == {"begin", "commit", "rollback", "release"}
NothingByHand == \A plan \in Plan : \A f \in Flow : plan.calls[f].kinds \cap ByHand = {}

Used(s) == scope[s].flow # NoFlow

\* The flow runs in a transaction it opened, at any depth; or in that transaction itself.
InOwn(f) == ctx[f] # NoScope /\ scope[RootOf(ctx[f])].flow = f
AtRoot(f) == ctx[f] # NoScope /\ scope[ctx[f]].flow = f /\ scope[ctx[f]].parent = NoScope
Asks(f, kinds) == pc[f] \in {"call", "queued"} /\ job[f].kind \in kinds

\* What is written into a scope as it is created.
ScopeMade(s) ==
    /\ ~scope[s].manual
    /\ Used(s) =>
         /\ pc[scope[s].flow] # "idle"
         /\ scope[s].querier = on[scope[s].flow]
         /\ RootOf(s) \in Scope
         /\ Used(RootOf(s))
         /\ scope[RootOf(s)].parent = NoScope
         /\ SlotOf(scope[s].querier) = SlotOf(scope[RootOf(s)].querier)

\* A transaction is opened outside any other of its flow, and leaves its flow where it was.
RootMade(s) ==
    Used(s) /\ scope[s].parent = NoScope =>
        /\ RootOf(s) = s
        /\ scope[s].outer # NoScope => /\ Used(scope[s].outer)
                                       /\ scope[RootOf(scope[s].outer)].flow # scope[s].flow

\* A nested one leaves its flow in the transaction around it.
NestedMade(s) ==
    Used(s) /\ scope[s].parent # NoScope =>
        /\ scope[s].outer = scope[s].parent
        /\ Used(scope[s].parent)
        /\ RootOf(s) = RootOf(scope[s].parent)
Scopes == \A s \in Scope : ScopeMade(s) /\ RootMade(s) /\ NestedMade(s)

Calls(f) ==
    /\ calls[f].kinds \cap ByHand = {}
    /\ job[f].kind \notin {"check", "handback"}
    /\ pc[f] \notin {"returning", "checked"}
    /\ ctx[f] # NoScope => Used(ctx[f]) /\ pc[f] # "idle"

\* What a flow sends is about the scope it runs in.
Sends(f) ==
    /\ pc[f] = "claim" => job[f].kind = "begin"
    /\ (pc[f] = "claim" \/ Asks(f, {"begin", "commit", "rollback"})) => AtRoot(f) /\ job[f].scope = ctx[f]
    /\ Asks(f, {"savepoint", "releaseSavepoint", "rollbackTo"}) =>
         ctx[f] # NoScope /\ job[f].scope = ctx[f] /\ scope[ctx[f]].parent # NoScope
    /\ pc[f] = "nest" => /\ job[f].kind = "savepoint"
                         /\ job[f].scope # NoScope
                         /\ Used(job[f].scope)
                         /\ scope[job[f].scope].flow = f
                         /\ ctx[f] # NoScope
                         /\ scope[job[f].scope].parent = ctx[f]

\* From its claim to its end a flow's transaction holds the slot, and once begun is open for the program.
Holding(f) ==
    InOwn(f) /\ pc[f] # "claim" =>
        /\ held[SlotOf(on[f])] = RootOf(ctx[f])
        /\ hasOpen[on[f]] \/ Asks(f, {"begin"})

\* The roots the database gave up at a refused command, and rolled back.
Gone == spoiled \cap undone

\* From its BEGIN it is the database's transaction, until its COMMIT failed or its ROLLBACK is sent, or
\* until the database ended it.
Open(f) ==
    \/ ~InOwn(f)
    \/ pc[f] = "claim"
    \/ Asks(f, {"begin", "rollback"})
    \/ pc[f] = "abort" /\ AtRoot(f)
    \/ engine[SlotOf(on[f])].tx = RootOf(ctx[f])
    \/ RootOf(ctx[f]) \in Gone

\* Before its BEGIN it is nobody's.
NotYet(f) == pc[f] = "claim" \/ Asks(f, {"begin"}) => \A c \in Connection : engine[c].tx # job[f].scope

Resolved(f) == pc[f] = "callbacks" => job[f].scope \in committed \cup Gone

FlowInv(f) == Calls(f) /\ Sends(f) /\ Holding(f) /\ Open(f) /\ NotYet(f) /\ Resolved(f)

\* A queued task is what its flow awaits, and a flow awaits one task.
Tasks(q) ==
    \A i \in 1..Len(queue[q]) :
        LET f == queue[q][i].flow IN
        /\ pc[f] = "queued"
        /\ on[f] = q
        /\ queue[q][i].kind = job[f].kind
        /\ queue[q][i].scope = job[f].scope
        /\ \A k \in 1..Len(queue[q]) : queue[q][k].flow = f => k = i

\* A transaction that takes nothing more is one given up.
GivenUp == \A c \in aborted : engine[c].tx \in spoiled

HeldInv ==
    /\ TypeInv
    /\ GivenUp
    /\ Scopes
    /\ \A f \in Flow : FlowInv(f)
    /\ \A q \in Querier : Tasks(q) /\ conn[q] = "mine"
    /\ \A c \in Connection : engine[c].tx # NoScope => Used(engine[c].tx)
    /\ OpenIsHeld

-----------------------------------------------------------------------------
(***************************************************************************)
(* What a step of one flow leaves alone.                                   *)
(***************************************************************************)
\* Two flows on one connection are not both in transactions of their own past the claim.
LEMMA OneOwner ==
    ASSUME HeldInv, NEW f \in Flow, NEW g \in Flow,
           InOwn(f), pc[f] # "claim", InOwn(g), pc[g] # "claim", SlotOf(on[f]) = SlotOf(on[g])
    PROVE  f = g
  BY DEF HeldInv, FlowInv, Holding, InOwn

\* What a flow holds is its own to give up: the database and the flags of another flow's connection stay.
Untouched(g) ==
    /\ held'[SlotOf(on[g])] = held[SlotOf(on[g])]
    /\ hasOpen'[on[g]] = hasOpen[on[g]]
    /\ \/ engine'[SlotOf(on[g])].tx = engine[SlotOf(on[g])].tx
       \/ engine'[SlotOf(on[g])].tx = NoScope /\ engine[SlotOf(on[g])].tx \in Gone'

\* What the database decided stays so.
Grows == committed \subseteq committed' /\ Gone \subseteq Gone'

Kept == \A s \in Scope : Used(s) => scope'[s] = scope[s]

Same(g) ==
    /\ pc'[g] = pc[g]
    /\ job'[g] = job[g]
    /\ ctx'[g] = ctx[g]
    /\ on'[g] = on[g]
    /\ calls'[g].kinds = calls[g].kinds

LEMMA OtherFlow ==
    ASSUME HeldInv, NEW g \in Flow, Same(g), Kept, Grows,
           InOwn(g) /\ pc[g] # "claim" => Untouched(g),
           pc[g] = "claim" \/ Asks(g, {"begin"}) => \A c \in Connection : engine'[c].tx # job[g].scope
    PROVE  FlowInv(g)'
  <1> USE DEF HeldInv, FlowInv, Same
  <1>0. ctx[g] # NoScope => /\ ctx[g] \in Scope
                            /\ scope'[ctx[g]] = scope[ctx[g]]
                            /\ RootOf(ctx[g])' = RootOf(ctx[g])
                            /\ scope'[RootOf(ctx[g])] = scope[RootOf(ctx[g])]
    BY DEF TypeInv, TypeOK, Calls, Kept, Scopes, ScopeMade, RootOf
  <1>1. Calls(g)'
    BY <1>0 DEF Calls, Used
  <1>2. Sends(g)'
    <2>1. pc[g] = "nest" => job[g].scope \in Scope /\ scope'[job[g].scope] = scope[job[g].scope]
      BY DEF Sends, TypeInv, TypeOK, Job, Kept
    <2> QED
      BY <1>0, <2>1 DEF Sends, AtRoot, Asks, Used
  <1>3. Holding(g)'
    BY <1>0 DEF Holding, InOwn, Asks, Untouched
  <1>4. Open(g)'
    BY <1>0 DEF Open, InOwn, AtRoot, Asks, Untouched, Grows
  <1>5. NotYet(g)'
    BY DEF NotYet, Asks
  <1>6. Resolved(g)'
    BY DEF Resolved, Grows
  <1> QED
    BY <1>1, <1>2, <1>3, <1>4, <1>5, <1>6

LEMMA ScopesStay ==
    ASSUME HeldInv, scope' = scope, on' = on, \A g \in Flow : pc[g] # "idle" => pc'[g] # "idle"
    PROVE  Scopes'
  <1> SUFFICES ASSUME NEW s \in Scope
               PROVE  ScopeMade(s)' /\ RootMade(s)' /\ NestedMade(s)'
    BY DEF Scopes
  <1>1. ScopeMade(s) /\ RootMade(s) /\ NestedMade(s)
    BY DEF HeldInv, Scopes
  <1>2. scope[s].flow \in Flow \cup {NoFlow}
    BY DEF HeldInv, TypeInv, TypeOK, ScopeRecord
  <1> QED
    BY <1>1, <1>2 DEF ScopeMade, RootMade, NestedMade, Used, RootOf, SlotOf

\* Every queue is so.
Turns == \A q \in Querier : Tasks(q)

\* The queues stay as they are while the flow awaits no task.
LEMMA TurnsStay ==
    ASSUME TypeInv, Turns, NEW f \in Flow, pc[f] # "queued", queue' = queue,
           \A g \in Flow \ {f} : Same(g)
    PROVE  Turns'
  <1> SUFFICES ASSUME NEW q \in Querier, NEW i \in 1..Len(queue[q])
               PROVE  LET g == queue[q][i].flow IN
                      /\ pc'[g] = "queued"
                      /\ on'[g] = q
                      /\ queue[q][i].kind = job'[g].kind
                      /\ queue[q][i].scope = job'[g].scope
                      /\ \A k \in 1..Len(queue[q]) : queue[q][k].flow = g => k = i
    BY DEF Turns, Tasks
  <1>1. Tasks(q)
    BY DEF Turns
  <1>2. queue[q][i] \in Task
    BY DEF TypeInv, TypeOK
  <1>3. queue[q][i].flow \in Flow \ {f}
    BY <1>1, <1>2 DEF Tasks, Task
  <1> QED
    BY <1>1, <1>3 DEF Tasks, Same

\* The queues stay as they are while the flow awaits no task.
LEMMA TasksStay ==
    ASSUME HeldInv, NEW f \in Flow, pc[f] # "queued", queue' = queue,
           \A g \in Flow \ {f} : Same(g)
    PROVE  \A q \in Querier : Tasks(q)'
  BY TurnsStay DEF HeldInv, Turns

\* A task taken off its queue leaves the others there.
LEMMA TurnsAfterPop ==
    ASSUME TypeInv, Turns, NEW q \in Querier, queue[q] # <<>>, Pop(q),
           \A g \in Flow \ {Caller(q)} : Same(g)
    PROVE  Turns'
  <1> DEFINE f == Caller(q)
  <1>1. f = queue[q][1].flow /\ 1 \in 1..Len(queue[q]) /\ f \in Flow
    BY TaskType DEF TypeInv, TypeOK, Caller
  <1>2. pc[f] = "queued" /\ on[f] = q
    BY <1>1 DEF Turns, Tasks
  <1> SUFFICES ASSUME NEW p \in Querier, NEW i \in 1..Len(queue'[p])
               PROVE  LET g == queue'[p][i].flow IN
                      /\ pc'[g] = "queued"
                      /\ on'[g] = p
                      /\ queue'[p][i].kind = job'[g].kind
                      /\ queue'[p][i].scope = job'[g].scope
                      /\ \A k \in 1..Len(queue'[p]) : queue'[p][k].flow = g => k = i
    BY DEF Turns, Tasks
  <1>3. Tasks(p)
    BY DEF Turns
  <1>4. queue[p] \in Seq(Task) /\ queue[q] \in Seq(Task)
    BY DEF TypeInv, TypeOK
  <1>5. CASE p # q
    <2>1. queue'[p] = queue[p]
      BY <1>5 DEF Pop, TypeInv, TypeOK
    <2>2. queue[p][i] \in Task
      BY <1>4, <2>1
    <2>3. queue[p][i].flow \in Flow \ {f}
      BY <1>2, <1>3, <1>5, <2>1, <2>2 DEF Tasks, Task
    <2> QED
      BY <1>3, <2>1, <2>3 DEF Tasks, Same
  <1>6. CASE p = q
    <2>1. queue'[p] = Tail(queue[q])
      BY <1>6 DEF Pop, TypeInv, TypeOK
    <2>2. Len(queue'[p]) = Len(queue[q]) - 1 /\ \A k \in 1..Len(queue'[p]) : queue'[p][k] = queue[q][k + 1]
      BY <1>4, <2>1, HeadTailProperties
    <2>3. Len(queue[q]) \in Nat
      BY <1>4
    <2>4. \A k \in 1..Len(queue'[p]) : k + 1 \in 1..Len(queue[q])
      BY <2>2, <2>3
    <2>5. queue[q][i + 1] \in Task
      BY <1>4, <2>4
    <2>6. queue[q][i + 1].flow \in Flow \ {f}
      <3>1. queue[q][i + 1].flow # f
        <4>1. ASSUME queue[q][i + 1].flow = f PROVE 1 = i + 1
          BY <1>1, <1>3, <1>6, <2>4, <4>1 DEF Tasks
        <4> QED
          BY <4>1
      <3> QED
        BY <2>5, <3>1 DEF Task
    <2>7. ASSUME NEW k \in 1..Len(queue'[p]), queue[q][k + 1].flow = queue[q][i + 1].flow PROVE k = i
      <3>1. k + 1 = i + 1
        BY <1>3, <1>6, <2>4, <2>7 DEF Tasks
      <3> QED
        BY <3>1
    <2> DEFINE t == queue[q][i + 1]
    <2>8. pc[t.flow] = "queued" /\ on[t.flow] = q /\ t.kind = job[t.flow].kind /\ t.scope = job[t.flow].scope
      BY <1>3, <1>6, <2>4 DEF Tasks
    <2>9. queue'[p][i] = t /\ \A k \in 1..Len(queue'[p]) : queue'[p][k] = queue[q][k + 1]
      BY <2>2
    <2>10. Same(t.flow)
      BY <2>6
    <2> HIDE DEF t
    <2> QED
      BY <1>6, <2>7, <2>8, <2>9, <2>10 DEF Same, t
  <1> QED
    BY <1>5, <1>6

\* A task taken off its queue leaves the others there.
LEMMA TasksAfterPop ==
    ASSUME HeldInv, NEW q \in Querier, queue[q] # <<>>, Pop(q),
           \A g \in Flow \ {Caller(q)} : Same(g)
    PROVE  \A p \in Querier : Tasks(p)'
  BY TurnsAfterPop DEF HeldInv, Turns

\* A step that is one flow's business keeps the invariant if it does of that flow.
LEMMA OneFlow ==
    ASSUME HeldInv, TypeInv', GivenUp', NEW f \in Flow, FlowInv(f)', Kept, Scopes',
           conn' = conn, Grows,
           \A g \in Flow \ {f} : Same(g),
           \A g \in Flow \ {f} : InOwn(g) /\ pc[g] # "claim" => Untouched(g),
           \A g \in Flow \ {f} : pc[g] = "claim" \/ Asks(g, {"begin"}) =>
               \A c \in Connection : engine'[c].tx # job[g].scope,
           \A c \in Connection : engine'[c].tx # NoScope => Used(engine[c].tx)' /\ held'[c] = engine'[c].tx,
           \A q \in Querier : Tasks(q)'
    PROVE  HeldInv'
  <1>1. \A g \in Flow : FlowInv(g)'
    <2>1. ASSUME NEW g \in Flow \ {f} PROVE FlowInv(g)'
      BY <2>1, OtherFlow
    <2> QED
      BY <2>1
  <1>2. OpenIsHeld'
    BY DEF OpenIsHeld
  <1> QED
    BY <1>1, <1>2 DEF HeldInv

\* One that touches neither the slot, the database nor a queue, and leaves its flow where it runs.
LEMMA LocalStep ==
    ASSUME HeldInv, TypeInv', GivenUp', NEW f \in Flow, FlowInv(f)', pc[f] \notin {"idle", "queued"}, pc'[f] # "idle",
           \A g \in Flow \ {f} : Same(g),
           UNCHANGED <<scope, on, conn, held, hasOpen, engine, committed, undone, spoiled, queue>>
    PROVE  HeldInv'
  <1>1. \A q \in Querier : Tasks(q)'
    BY TasksStay
  <1>2. \A g \in Flow : Untouched(g)
    BY DEF Untouched
  <1>3. \A g \in Flow : pc[g] = "claim" \/ Asks(g, {"begin"}) => \A c \in Connection : engine'[c].tx # job[g].scope
    BY DEF HeldInv, FlowInv, NotYet
  <1>4. \A c \in Connection : engine'[c].tx # NoScope => Used(engine[c].tx)' /\ held'[c] = engine'[c].tx
    BY DEF HeldInv, OpenIsHeld, Used
  <1>5. Scopes'
    BY ScopesStay DEF Same
  <1>6. Kept
    BY DEF Kept
  <1>7. Grows
    BY DEF Grows, Gone
  <1> QED
    BY <1>1, <1>2, <1>3, <1>4, <1>5, <1>6, <1>7, OneFlow

LEMMA CallKeepsKinds ==
    ASSUME TypeInv, NEW f \in Flow, Count(f)
    PROVE  \A g \in Flow : calls'[g].kinds = calls[g].kinds
  BY DEF Count, TypeInv, TypeOK

-----------------------------------------------------------------------------
(***************************************************************************)
(* The calls a flow makes.                                                 *)
(***************************************************************************)
LEMMA StatementKeepsHeld ==
    ASSUME HeldInv, TypeInv', GivenUp', NEW f \in Flow, Statement(f)
    PROVE  HeldInv'
  <1>1. \A g \in Flow : calls'[g].kinds = calls[g].kinds
    BY CallKeepsKinds DEF Statement, HeldInv
  <1>2. pc[f] = "run" /\ pc'[f] = "call" /\ job'[f].kind = "statement"
    BY DEF Statement, CanCall, Go, HeldInv, TypeInv, TypeOK
  <1>3. \A g \in Flow \ {f} : Same(g)
    BY <1>1 DEF Statement, Go, Same, HeldInv, TypeInv, TypeOK
  <1>4. UNCHANGED <<scope, on, ctx, conn, held, hasOpen, engine, committed, undone, spoiled, queue>>
    BY DEF Statement, slotVars, querierVars, engineVars
  <1>5. FlowInv(f)'
    BY <1>1, <1>2, <1>4
    DEF HeldInv, FlowInv, Calls, Sends, Holding, Open, Gone, NotYet, Resolved, InOwn, AtRoot, Asks, Used, RootOf
  <1> QED
    BY <1>2, <1>3, <1>4, <1>5, LocalStep

\* Begins, commits, rollbacks and releases by hand are what the program never calls.
LEMMA NeverByHand ==
    ASSUME HeldInv, NEW f \in Flow
    PROVE  /\ ~BeginTransaction(f) /\ ~CommitTransaction(f) /\ ~RollbackTransaction(f) /\ ~Release(f)
           /\ ~Released(f) /\ ~StreamReturned(f)
  <1>1. Calls(f)
    BY DEF HeldInv, FlowInv
  <1> QED
    BY <1>1 DEF Calls, ByHand, BeginTransaction, CommitTransaction, RollbackTransaction, Release, CanCall,
                Released, StreamReturned

LEMMA ReturnKeepsHeld ==
    ASSUME HeldInv, TypeInv', GivenUp', NEW f \in Flow, Return(f) \/ Throw(f)
    PROVE  HeldInv'
  <1>1. calls' = calls /\ UNCHANGED <<scope, on, ctx, conn, held, hasOpen, engine, committed, undone, spoiled, queue>>
    BY DEF Return, Throw, slotVars, querierVars, engineVars
  <1>2. /\ pc[f] \in {"run", "abort"}
        /\ pc'[f] = "call"
        /\ job'[f].scope = ctx[f]
        /\ ctx[f] # NoScope
        /\ scope[ctx[f]].flow = f
        /\ IF scope[ctx[f]].parent = NoScope
           THEN job'[f].kind = "rollback" \/ (job'[f].kind = "commit" /\ pc[f] = "run")
           ELSE job'[f].kind \in {"rollbackTo", "releaseSavepoint"}
    BY DEF Return, Throw, InCallback, Go, HeldInv, TypeInv, TypeOK
  <1>3. \A g \in Flow \ {f} : Same(g)
    BY <1>1 DEF Return, Throw, Go, Same, HeldInv, TypeInv, TypeOK
  <1>4. FlowInv(f)'
    <2> USE DEF HeldInv, FlowInv
    <2>1. Calls(f)'
      BY <1>1, <1>2 DEF Calls, Used
    <2>2. Sends(f)'
      BY <1>1, <1>2 DEF Sends, AtRoot, Asks
    <2>3. Holding(f)'
      BY <1>1, <1>2 DEF Holding, InOwn, Asks, RootOf
    <2>4. Open(f)'
      BY <1>1, <1>2 DEF Open, Gone, InOwn, AtRoot, Asks, RootOf
    <2>5. NotYet(f)' /\ Resolved(f)'
      BY <1>1, <1>2 DEF NotYet, Resolved, Gone, Asks
    <2> QED
      BY <2>1, <2>2, <2>3, <2>4, <2>5
  <1> QED
    BY <1>1, <1>2, <1>3, <1>4, LocalStep

LEMMA StaysKeepsHeld ==
    ASSUME HeldInv, TypeInv', GivenUp', NEW f \in Flow, OnCommit(f) \/ StreamNext(f) \/ StreamTurn(f) \/ StreamEnd(f)
    PROVE  HeldInv'
  <1>1. UNCHANGED <<scope, on, ctx, job, conn, held, hasOpen, engine, committed, undone, spoiled, queue>>
    BY DEF OnCommit, StreamNext, StreamTurn, StreamEnd, slotVars, querierVars, engineVars, flowVars
  <1>2. \A g \in Flow : calls'[g].kinds = calls[g].kinds
    BY CallKeepsKinds DEF OnCommit, StreamNext, StreamTurn, StreamEnd, flowVars, HeldInv
  <1>3. pc[f] \in {"run", "stream"} /\ pc'[f] \in {"run", "stream"}
    BY DEF OnCommit, StreamNext, StreamTurn, StreamEnd, CanCall, flowVars, HeldInv, TypeInv, TypeOK
  <1>4. \A g \in Flow \ {f} : Same(g)
    BY <1>1, <1>2 DEF OnCommit, StreamNext, StreamTurn, StreamEnd, flowVars, Same, HeldInv, TypeInv, TypeOK
  <1>5. FlowInv(f)'
    BY <1>1, <1>2, <1>3
    DEF HeldInv, FlowInv, Calls, Sends, Holding, Open, Gone, NotYet, Resolved, InOwn, AtRoot, Asks, Used, RootOf
  <1> QED
    BY <1>1, <1>3, <1>4, <1>5, LocalStep

LEMMA RunCallbacksKeepsHeld ==
    ASSUME HeldInv, TypeInv', GivenUp', NEW f \in Flow, RunCallbacks(f)
    PROVE  HeldInv'
  <1>1. calls' = calls /\ UNCHANGED <<scope, on, ctx, conn, held, hasOpen, engine, committed, undone, spoiled, queue>>
    BY DEF RunCallbacks, slotVars, querierVars, engineVars
  <1>2. pc[f] = "callbacks" /\ pc'[f] = "run" /\ job'[f].kind = "none"
    BY DEF RunCallbacks, Go, HeldInv, TypeInv, TypeOK
  <1>3. \A g \in Flow \ {f} : Same(g)
    BY <1>1 DEF RunCallbacks, Go, Same, HeldInv, TypeInv, TypeOK
  <1>4. FlowInv(f)'
    BY <1>1, <1>2
    DEF HeldInv, FlowInv, Calls, Sends, Holding, Open, Gone, NotYet, Resolved, InOwn, AtRoot, Asks, Used, RootOf
  <1> QED
    BY <1>1, <1>2, <1>3, <1>4, LocalStep

-----------------------------------------------------------------------------
(***************************************************************************)
(* An answer.                                                              *)
(***************************************************************************)
\* A flow that asks for the BEGIN, COMMIT or ROLLBACK of a transaction runs in it and holds the slot.
LEMMA AtRootHolds ==
    ASSUME HeldInv, NEW f \in Flow, Asks(f, {"begin", "commit", "rollback"})
    PROVE  /\ job[f].scope = ctx[f]
           /\ ctx[f] \in Scope
           /\ AtRoot(f)
           /\ OwnTransaction(job[f])
           /\ InOwn(f)
           /\ RootOf(ctx[f]) = ctx[f]
           /\ held[SlotOf(on[f])] = ctx[f]
           /\ scope[ctx[f]].querier = on[f]
           /\ job[f].kind # "begin" => hasOpen[on[f]]
           /\ \A g \in Flow \ {f} : InOwn(g) /\ pc[g] # "claim" => SlotOf(on[g]) # SlotOf(on[f])
           /\ \A g \in Flow \ {f} : pc[g] = "claim" \/ Asks(g, {"begin"}) => job[g].scope # ctx[f]
  <1>1. /\ job[f].scope = ctx[f]
        /\ AtRoot(f)
        /\ ctx[f] \in Scope
        /\ Used(ctx[f])
    BY DEF HeldInv, FlowInv, Sends, Calls, Asks, AtRoot, TypeInv, TypeOK
  <1>2. RootOf(ctx[f]) = ctx[f] /\ ~scope[ctx[f]].manual /\ scope[ctx[f]].querier = on[f]
    BY <1>1 DEF HeldInv, Scopes, RootMade, ScopeMade, AtRoot
  <1>3. InOwn(f) /\ pc[f] # "claim"
    BY <1>1, <1>2 DEF InOwn, AtRoot, Asks
  <1>4. held[SlotOf(on[f])] = ctx[f] /\ (job[f].kind # "begin" => hasOpen[on[f]])
    BY <1>2, <1>3 DEF HeldInv, FlowInv, Holding, Asks
  <1>5. \A g \in Flow \ {f} : InOwn(g) /\ pc[g] # "claim" => SlotOf(on[g]) # SlotOf(on[f])
    BY <1>3, OneOwner
  <1>6. \A g \in Flow \ {f} : pc[g] = "claim" \/ Asks(g, {"begin"}) => job[g].scope # ctx[f]
    <2> SUFFICES ASSUME NEW g \in Flow \ {f}, pc[g] = "claim" \/ Asks(g, {"begin"})
                 PROVE  job[g].scope # ctx[f]
      OBVIOUS
    <2>1. AtRoot(g) /\ job[g].scope = ctx[g]
      BY DEF HeldInv, FlowInv, Sends, Asks
    <2> QED
      BY <1>1, <2>1 DEF AtRoot
  <1> QED
    BY <1>1, <1>2, <1>3, <1>4, <1>5, <1>6 DEF OwnTransaction, AtRoot

\* What a refusal or an answer makes of the flow it is given to.
LEMMA Answered ==
    ASSUME HeldInv, NEW f \in Flow, NEW ok \in BOOLEAN, pc[f] \in {"call", "queued"}, Settle(f, ok),
           job[f].kind = "commit" /\ ok => job[f].scope \in committed' \cup Gone',
           Grows,
           InOwn(f) /\ job[f].kind # "rollback" /\ (job[f].kind = "begin" => ok) /\ (job[f].kind = "commit" => ~ok) =>
             /\ held'[SlotOf(on[f])] = RootOf(ctx[f])
             /\ hasOpen'[on[f]]
             /\ job[f].kind # "commit" => engine'[SlotOf(on[f])].tx = RootOf(ctx[f]) \/ RootOf(ctx[f]) \in Gone'
    PROVE  /\ FlowInv(f)'
           /\ pc'[f] # "idle"
           /\ \A g \in Flow \ {f} : Same(g)
           /\ UNCHANGED <<scope, on>>
  <1> DEFINE j == job[f]
  <1>1. /\ UNCHANGED <<scope, on, calls>>
        /\ pc'[f] = NextPlace(j, ok)
        /\ pc'[f] = "callbacks" => job'[f] = j
        /\ pc'[f] # "callbacks" => job'[f].kind = "none"
        /\ ctx'[f] = IF Ends(j, ok) THEN scope[j.scope].outer ELSE ctx[f]
    BY DEF Settle, Idle, HeldInv, TypeInv, TypeOK
  <1>2. \A g \in Flow \ {f} : Same(g)
    BY DEF Settle, Same, HeldInv, TypeInv, TypeOK
  <1>3. j.kind \notin {"check", "handback"} /\ Calls(f) /\ Sends(f) /\ Holding(f)
    BY DEF HeldInv, FlowInv, Calls
  <1>4. /\ pc'[f] \in {"run", "callbacks", "abort"}
        /\ pc'[f] = "callbacks" <=> j.kind = "commit" /\ ok
        /\ j.kind = "commit" /\ ~ok /\ OwnTransaction(j) => pc'[f] = "abort"
    BY <1>1, <1>3 DEF NextPlace
  <1>5. pc'[f] = "callbacks" => job'[f].kind \notin {"check", "handback"} /\ job'[f].scope \in committed' \cup Gone'
    BY <1>1, <1>4
  <1>6. CASE Asks(f, {"begin", "commit", "rollback"}) /\ Ends(j, ok)
    <2>1. j.scope = ctx[f] /\ ctx[f] \in Scope /\ AtRoot(f)
      BY <1>6, AtRootHolds
    <2>2. Used(ctx[f])
      BY <1>3, <2>1 DEF Calls, AtRoot
    <2>3. ctx'[f] # NoScope => Used(ctx'[f]) /\ scope[RootOf(ctx'[f])].flow # f
      BY <1>1, <1>6, <2>1, <2>2 DEF HeldInv, Scopes, RootMade, AtRoot
    <2> QED
      BY <1>1, <1>2, <1>3, <1>4, <1>5, <2>3
      DEF FlowInv, Calls, Sends, Holding, Open, NotYet, Resolved, InOwn, Asks, Used, RootOf
  <1>7. CASE Asks(f, {"begin", "commit", "rollback"}) /\ ~Ends(j, ok)
    <2>1. j.scope = ctx[f] /\ AtRoot(f) /\ OwnTransaction(j) /\ InOwn(f)
      BY <1>7, AtRootHolds
    <2>2. \/ j.kind = "begin" /\ ok
          \/ j.kind = "commit" /\ ~ok
      BY <1>7, <2>1 DEF Ends, Asks
    <2>3. pc'[f] = IF j.kind = "commit" THEN "abort" ELSE "run"
      BY <1>1, <2>1, <2>2 DEF NextPlace
    <2>4. ctx'[f] = ctx[f] /\ AtRoot(f)' /\ InOwn(f)' /\ RootOf(ctx[f])' = RootOf(ctx[f])
      BY <1>1, <1>7, <2>1 DEF AtRoot, InOwn, RootOf
    <2>5. Calls(f)' /\ Sends(f)' /\ NotYet(f)' /\ Resolved(f)'
      BY <1>1, <1>3, <2>3, <2>4 DEF Calls, Sends, NotYet, Resolved, Asks, Used
    <2>6. Holding(f)' /\ Open(f)'
      BY <1>1, <2>1, <2>2, <2>3, <2>4 DEF Holding, Open, Asks
    <2> QED
      BY <1>1, <1>2, <2>3, <2>5, <2>6 DEF FlowInv
  <1>8. CASE ~Asks(f, {"begin", "commit", "rollback"})
    <2>1. j.kind \notin {"begin", "commit", "rollback"} /\ pc'[f] # "callbacks"
      BY <1>4, <1>8 DEF Asks
    <2>2. ctx'[f] # NoScope => ctx[f] # NoScope /\ Used(ctx'[f]) /\ RootOf(ctx'[f]) = RootOf(ctx[f])
      <3>1. CASE Ends(j, ok)
        <4>1. j.kind \in {"savepoint", "releaseSavepoint", "rollbackTo"}
          BY <2>1, <3>1 DEF Ends
        <4>2. ctx[f] # NoScope /\ j.scope = ctx[f] /\ scope[ctx[f]].parent # NoScope
          BY <1>3, <4>1 DEF Sends, Asks
        <4>3. ctx[f] \in Scope /\ Used(ctx[f])
          BY <1>3, <4>2 DEF Calls, HeldInv, TypeInv, TypeOK
        <4> QED
          BY <1>1, <3>1, <4>2, <4>3 DEF HeldInv, Scopes, NestedMade
      <3>2. CASE ~Ends(j, ok)
        BY <1>1, <1>3, <3>2 DEF Calls
      <3> QED
        BY <3>1, <3>2
    <2>3. InOwn(f)' => InOwn(f)
      BY <1>1, <2>2 DEF InOwn, RootOf
    <2>4. InOwn(f)' => /\ held'[SlotOf(on[f])] = RootOf(ctx'[f])
                       /\ hasOpen'[on[f]]
                       /\ engine'[SlotOf(on[f])].tx = RootOf(ctx'[f]) \/ RootOf(ctx'[f]) \in Gone'
      BY <2>1, <2>2, <2>3 DEF InOwn
    <2> QED
      BY <1>1, <1>2, <1>3, <1>4, <2>1, <2>2, <2>4
      DEF FlowInv, Calls, Sends, Holding, Open, NotYet, Resolved, InOwn, Asks, Used, RootOf
  <1> QED
    BY <1>6, <1>7, <1>8

-----------------------------------------------------------------------------
(***************************************************************************)
(* The tasks a querier runs.                                               *)
(***************************************************************************)
\* The task at the head of a queue is the one its caller awaits.
LEMMA CallerWaits ==
    ASSUME HeldInv, NEW q \in Querier, queue[q] # <<>>
    PROVE  /\ Caller(q) \in Flow
           /\ pc[Caller(q)] = "queued"
           /\ on[Caller(q)] = q
           /\ Head(queue[q]).kind = job[Caller(q)].kind
           /\ Head(queue[q]).scope = job[Caller(q)].scope
           /\ job[Caller(q)].kind \notin {"check", "handback"}
           /\ SlotOf(q) \in Connection
  <1>1. Caller(q) = queue[q][1].flow /\ 1 \in 1..Len(queue[q]) /\ Head(queue[q]) = queue[q][1]
    BY DEF HeldInv, TypeInv, TypeOK, Caller
  <1>2. Caller(q) \in Flow
    BY TaskType DEF HeldInv, TypeInv
  <1> QED
    BY <1>1, <1>2, FlowAssumption DEF HeldInv, Tasks, FlowInv, Calls, SlotOf

\* A task that leaves every transaction as open, or as closed, as it was, but for one the database ends.
LEMMA QuietTask ==
    ASSUME HeldInv, TypeInv', GivenUp', NEW q \in Querier, NEW ok \in BOOLEAN, queue[q] # <<>>, Pop(q),
           Settle(Caller(q), ok), Head(queue[q]).kind \notin {"begin", "commit", "rollback"},
           UNCHANGED <<held, hasOpen, conn>>, Grows,
           \A c \in Connection : \/ engine'[c].tx = engine[c].tx
                                 \/ engine'[c].tx = NoScope /\ engine[c].tx \in Gone'
    PROVE  HeldInv'
  <1>f. PICK f \in Flow : f = Caller(q)
    BY CallerWaits
  <1>1. Settle(f, ok) /\ pc[f] = "queued" /\ on[f] = q /\ job[f].kind \notin {"begin", "commit", "rollback"}
    BY <1>f, CallerWaits
  <1>c. \A g \in Flow : SlotOf(on[g]) \in Connection
    BY FlowAssumption DEF SlotOf, HeldInv, TypeInv, TypeOK
  <1>2. InOwn(f) => /\ held'[SlotOf(on[f])] = RootOf(ctx[f])
                    /\ hasOpen'[on[f]]
                    /\ engine'[SlotOf(on[f])].tx = RootOf(ctx[f]) \/ RootOf(ctx[f]) \in Gone'
    BY <1>1, <1>c DEF HeldInv, FlowInv, Holding, Open, Asks, Grows
  <1>3. /\ FlowInv(f)'
        /\ pc'[f] # "idle"
        /\ \A g \in Flow \ {f} : Same(g)
        /\ UNCHANGED <<scope, on>>
    BY <1>1, <1>2, Answered
  <1>4. Kept /\ Scopes'
    BY <1>1, <1>3, ScopesStay DEF Kept, Same
  <1>5. \A p \in Querier : Tasks(p)'
    BY <1>f, <1>3, TasksAfterPop
  <1>6. \A g \in Flow : Untouched(g)
    BY <1>c DEF Untouched
  <1>7. \A g \in Flow : pc[g] = "claim" \/ Asks(g, {"begin"}) => \A c \in Connection : engine'[c].tx # job[g].scope
    BY DEF HeldInv, FlowInv, NotYet, Sends, AtRoot, Asks
  <1>8. \A c \in Connection : engine'[c].tx # NoScope => Used(engine[c].tx)' /\ held'[c] = engine'[c].tx
    BY <1>3 DEF HeldInv, OpenIsHeld, Used
  <1> QED
    BY <1>1, <1>3, <1>4, <1>5, <1>6, <1>7, <1>8, OneFlow

\* One that opens or closes the transaction of its caller: of other connections nothing changes.
LEMMA RootTask ==
    ASSUME HeldInv, TypeInv', GivenUp', NEW q \in Querier, NEW ok \in BOOLEAN, queue[q] # <<>>, Pop(q),
           Settle(Caller(q), ok), Head(queue[q]).kind \in {"begin", "commit", "rollback"},
           conn' = conn, Grows,
           \A c \in Connection \ {SlotOf(q)} : held'[c] = held[c] /\ engine'[c] = engine[c],
           \A p \in Querier \ {q} : hasOpen'[p] = hasOpen[p],
           engine'[SlotOf(q)].tx \in {NoScope, engine[SlotOf(q)].tx, job[Caller(q)].scope},
           engine'[SlotOf(q)].tx # NoScope => held'[SlotOf(q)] = job[Caller(q)].scope /\ hasOpen'[q],
           Head(queue[q]).kind = "commit" /\ ok => job[Caller(q)].scope \in committed' \cup Gone',
           Head(queue[q]).kind = "begin" /\ ok => engine'[SlotOf(q)].tx = job[Caller(q)].scope,
           Head(queue[q]).kind = "commit" /\ ~ok => UNCHANGED <<held, hasOpen>>
    PROVE  HeldInv'
  <1>f. PICK f \in Flow : f = Caller(q)
    BY CallerWaits
  <1> DEFINE s == job[f].scope
  <1>1. /\ Settle(f, ok)
        /\ pc[f] = "queued"
        /\ on[f] = q
        /\ Asks(f, {"begin", "commit", "rollback"})
        /\ Head(queue[q]).kind = job[f].kind
        /\ SlotOf(q) \in Connection
    BY <1>f, CallerWaits DEF Asks
  <1>2. /\ s = ctx[f]
        /\ s \in Scope
        /\ AtRoot(f)
        /\ RootOf(ctx[f]) = s
        /\ held[SlotOf(q)] = s
        /\ job[f].kind # "begin" => hasOpen[q]
        /\ \A g \in Flow \ {f} : InOwn(g) /\ pc[g] # "claim" => SlotOf(on[g]) # SlotOf(q)
        /\ \A g \in Flow \ {f} : pc[g] = "claim" \/ Asks(g, {"begin"}) => job[g].scope # s
    BY <1>1, AtRootHolds
  <1>c. NoScope # s
    BY <1>2 DEF AtRoot
  <1>3. /\ FlowInv(f)'
        /\ pc'[f] # "idle"
        /\ \A g \in Flow \ {f} : Same(g)
        /\ UNCHANGED <<scope, on>>
    <2>1. job[f].kind # "rollback" /\ (job[f].kind = "begin" => ok) /\ (job[f].kind = "commit" => ~ok) =>
             /\ held'[SlotOf(on[f])] = RootOf(ctx[f])
             /\ hasOpen'[on[f]]
             /\ job[f].kind # "commit" => engine'[SlotOf(on[f])].tx = RootOf(ctx[f])
      BY <1>f, <1>1, <1>2, <1>c DEF Asks
    <2>2. job[f].kind = "commit" /\ ok => job[f].scope \in committed' \cup Gone'
      BY <1>f, <1>1
    <2> QED
      BY <1>1, <2>1, <2>2, Answered
  <1>4. Kept /\ Scopes'
    BY <1>1, <1>3, ScopesStay DEF Kept, Same
  <1>5. \A p \in Querier : Tasks(p)'
    BY <1>f, <1>3, TasksAfterPop
  <1>6. \A g \in Flow \ {f} : InOwn(g) /\ pc[g] # "claim" => Untouched(g)
    <2>1. \A g \in Flow : on[g] \in Querier /\ SlotOf(on[g]) \in Connection
      BY FlowAssumption DEF SlotOf, HeldInv, TypeInv, TypeOK
    <2> QED
      BY <1>2, <2>1 DEF Untouched
  <1>7. \A g \in Flow \ {f} : pc[g] = "claim" \/ Asks(g, {"begin"}) =>
            \A c \in Connection : engine'[c].tx # job[g].scope
    <2> SUFFICES ASSUME NEW g \in Flow \ {f}, pc[g] = "claim" \/ Asks(g, {"begin"}), NEW c \in Connection
                 PROVE  engine'[c].tx # job[g].scope
      OBVIOUS
    <2>1. engine[c].tx # job[g].scope /\ job[g].scope # s
      BY <1>2 DEF HeldInv, FlowInv, NotYet
    <2>2. job[g].scope # NoScope
      BY DEF HeldInv, FlowInv, Sends, AtRoot, Asks
    <2>3. engine'[c].tx \in {NoScope, engine[c].tx, s}
      BY <1>f
    <2> QED
      BY <2>1, <2>2, <2>3
  <1>8. \A c \in Connection : engine'[c].tx # NoScope => Used(engine[c].tx)' /\ held'[c] = engine'[c].tx
    <2>1. Used(s)
      BY <1>2 DEF HeldInv, FlowInv, Calls, AtRoot
    <2> SUFFICES ASSUME NEW c \in Connection, engine'[c].tx # NoScope
                 PROVE  Used(engine[c].tx)' /\ held'[c] = engine'[c].tx
      OBVIOUS
    <2>2. CASE c # SlotOf(q)
      BY <1>3, <2>2 DEF HeldInv, OpenIsHeld, Used
    <2>3. CASE c = SlotOf(q)
      <3>1. engine[c].tx # NoScope => engine[c].tx = s
        BY <1>2, <2>3 DEF HeldInv, OpenIsHeld
      <3>2. engine'[c].tx = s /\ held'[c] = s
        BY <1>f, <2>3, <3>1
      <3> QED
        BY <1>3, <2>1, <3>2 DEF Used
    <2> QED
      BY <2>2, <2>3
  <1> QED
    BY <1>1, <1>3, <1>4, <1>5, <1>6, <1>7, <1>8, OneFlow

\* A write or a savepoint changes nothing of whose transaction it is.
LEMMA KeepsTx ==
    ASSUME TypeOK, NEW c, NEW w, NEW v,
           \/ engine' = [engine EXCEPT ![c].writes = w]
           \/ engine' = [engine EXCEPT ![c].saves = v]
           \/ engine' = [engine EXCEPT ![c].writes = w, ![c].saves = v]
    PROVE  \A d \in Connection : engine'[d].tx = engine[d].tx
  <1> SUFFICES ASSUME NEW d \in Connection
               PROVE  engine'[d].tx = engine[d].tx
    OBVIOUS
  <1>1. engine \in [Connection -> Session] /\ engine[d] \in Session
    BY DEF TypeOK
  <1>2. CASE d # c
    BY <1>1, <1>2
  <1>3. CASE d = c
    BY <1>1, <1>3 DEF Session
  <1> QED
    BY <1>2, <1>3

\* A task that begins or ends a transaction is its querier's own, and finds it as it left it.
LEMMA TaskHolds ==
    ASSUME HeldInv, NEW q \in Querier, queue[q] # <<>>, Head(queue[q]).kind \in {"begin", "commit", "rollback"}
    PROVE  /\ held[SlotOf(q)] = job[Caller(q)].scope
           /\ Holds(q)
           /\ Head(queue[q]).scope = job[Caller(q)].scope
           /\ Head(queue[q]).kind # "begin" => hasOpen[q]
           /\ engine[SlotOf(q)].tx \in {NoScope, job[Caller(q)].scope}
           /\ Head(queue[q]).kind = "begin" => engine[SlotOf(q)].tx = NoScope
           /\ Head(queue[q]).kind = "commit" => \/ engine[SlotOf(q)].tx = job[Caller(q)].scope
                                               \/ job[Caller(q)].scope \in Gone
           /\ job[Caller(q)].scope # NoScope
  <1> DEFINE c == SlotOf(q)
  <1>c. c \in Connection
    BY FlowAssumption DEF SlotOf
  <1>f. PICK f \in Flow : f = Caller(q)
    BY CallerWaits
  <1>1. /\ pc[f] = "queued"
        /\ on[f] = q
        /\ Head(queue[q]).scope = job[f].scope
        /\ Head(queue[q]).kind = job[f].kind
        /\ Asks(f, {"begin", "commit", "rollback"})
    BY <1>f, CallerWaits DEF Asks
  <1>2. /\ job[f].scope = ctx[f]
        /\ AtRoot(f)
        /\ InOwn(f)
        /\ RootOf(ctx[f]) = ctx[f]
        /\ held[c] = ctx[f]
        /\ scope[ctx[f]].querier = q
        /\ job[f].kind # "begin" => hasOpen[q]
    BY <1>1, AtRootHolds
  <1>3. engine[c].tx \in {NoScope, ctx[f]}
    BY <1>c, <1>2 DEF HeldInv, OpenIsHeld
  <1>4. job[f].kind = "begin" => engine[c].tx = NoScope
    BY <1>c, <1>1, <1>2, <1>3 DEF HeldInv, FlowInv, NotYet, Asks
  <1>5. job[f].kind = "commit" => engine[c].tx = ctx[f] \/ ctx[f] \in Gone
    BY <1>1, <1>2 DEF HeldInv, FlowInv, Open, Asks
  <1> QED
    BY <1>f, <1>1, <1>2, <1>3, <1>4, <1>5 DEF Holds, AtRoot

\* A statement, a savepoint and a hand-back leave every slot, flag and open transaction.
LEMMA TaskLeaves ==
    ASSUME TypeInv, NEW p \in Querier,
           RunStatement(p) \/ RunSavepoint(p) \/ RunReleaseSavepoint(p) \/ RunRollbackTo(p) \/ RunHandBack(p)
    PROVE  /\ UNCHANGED <<held, hasOpen>>
           /\ \A c \in Connection : engine'[c].tx = engine[c].tx
  <1>t. TypeOK
    BY DEF TypeInv
  <1>1. UNCHANGED <<held, hasOpen>>
    BY DEF RunStatement, RunSavepoint, RunReleaseSavepoint, RunRollbackTo, RunHandBack
  <1>2. CASE engine' = engine
    BY <1>1, <1>2
  <1>3. CASE RunStatement(p) /\ engine' # engine
    <2>1. engine' = [engine EXCEPT ![SlotOf(p)].writes = Append(engine[SlotOf(p)].writes, Head(queue[p]).within)]
      BY <1>3 DEF RunStatement
    <2> QED
      BY <1>1, <1>t, <2>1, KeepsTx
  <1>4. CASE RunSavepoint(p) /\ engine' # engine
    <2>1. \E v : engine' = [engine EXCEPT ![SlotOf(p)].saves = v]
      BY <1>4 DEF RunSavepoint
    <2> QED
      BY <1>1, <1>t, <2>1, KeepsTx
  <1>5. CASE RunReleaseSavepoint(p) /\ engine' # engine
    <2>1. \E v : engine' = [engine EXCEPT ![SlotOf(p)].saves = v]
      BY <1>5 DEF RunReleaseSavepoint
    <2> QED
      BY <1>1, <1>t, <2>1, KeepsTx
  <1>6. CASE RunRollbackTo(p) /\ engine' # engine
    <2>1. \E w, v : engine' = [engine EXCEPT ![SlotOf(p)].writes = w, ![SlotOf(p)].saves = v]
      BY <1>6 DEF RunRollbackTo
    <2> QED
      BY <1>1, <1>t, <2>1, KeepsTx
  <1>7. CASE RunHandBack(p)
    BY <1>1, <1>7 DEF RunHandBack, engineVars
  <1> QED
    BY <1>2, <1>3, <1>4, <1>5, <1>6, <1>7

\* A statement and a savepoint's tasks leave the transaction open that was.
LEMMA TaskKeepsTx ==
    ASSUME HeldInv, NEW q \in Querier,
           RunStatement(q) \/ RunSavepoint(q) \/ RunReleaseSavepoint(q) \/ RunRollbackTo(q)
    PROVE  \A d \in Connection : engine'[d].tx = engine[d].tx
  BY TaskLeaves DEF HeldInv

\* Nothing is closed that is not open, and nothing handed back.
LEMMA NothingToClose ==
    ASSUME HeldInv, NEW q \in Querier
    PROVE  ~CloseNothing(q) /\ ~RunHandBack(q)
  <1>1. ~CloseNothing(q)
    <2> SUFFICES ASSUME CloseNothing(q) PROVE FALSE
      OBVIOUS
    <2>1. queue[q] # <<>> /\ Head(queue[q]).kind \in {"commit", "rollback", "check"} /\ ~(Holds(q) /\ hasOpen[q])
      BY DEF CloseNothing, Running
    <2>2. Head(queue[q]).kind \in {"commit", "rollback"}
      BY <2>1, CallerWaits
    <2> QED
      BY <2>1, <2>2, TaskHolds
  <1>2. ~RunHandBack(q)
    <2> SUFFICES ASSUME RunHandBack(q) PROVE FALSE
      OBVIOUS
    <2>1. queue[q] # <<>> /\ Head(queue[q]).kind = "handback"
      BY DEF RunHandBack, Running
    <2> QED
      BY <2>1, CallerWaits
  <1> QED
    BY <1>1, <1>2

LEMMA QuerierStepsKeepHeld ==
    ASSUME HeldInv, TypeInv', GivenUp', NEW q \in Querier, QuerierStep(q)
    PROVE  HeldInv'
  <1> DEFINE c == SlotOf(q)
  <1>c. c \in Connection /\ conn[q] = "mine"
    BY FlowAssumption DEF HeldInv, SlotOf
  <1>t. /\ held \in [Connection -> Scope \cup {NoScope}]
        /\ hasOpen \in [Querier -> BOOLEAN]
        /\ engine \in [Connection -> Session]
        /\ DOMAIN engine[c] = {"tx", "writes", "saves"}
    BY <1>c DEF HeldInv, TypeInv, TypeOK, Session
  <1>e. TypeOK
    BY DEF HeldInv, TypeInv
  <1> HIDE DEF c
  <1> USE DEF Running, Closing, Free, engineVars, c
  <1>1. ASSUME RunStatement(q) PROVE HeldInv'
    <2>1. \A d \in Connection : engine'[d].tx = engine[d].tx
      BY <1>1, TaskKeepsTx
    <2>2. queue[q] # <<>> /\ Head(queue[q]).kind = "statement" /\ Pop(q)
      BY <1>1 DEF RunStatement
    <2>3. Settle(Caller(q), TRUE)
      BY <1>1 DEF RunStatement
    <2>4. UNCHANGED <<held, hasOpen, conn>> /\ Grows
      BY <1>1 DEF RunStatement, Grows, Gone
    <2> HIDE DEF Running, Closing, Free, engineVars, c
    <2> QED
      BY <2>1, <2>2, <2>3, <2>4, QuietTask
  <1>2. ASSUME RunSavepoint(q) \/ RunReleaseSavepoint(q) \/ RunRollbackTo(q) PROVE HeldInv'
    <2>1. \A d \in Connection : engine'[d].tx = engine[d].tx
      BY <1>2, TaskKeepsTx
    <2>2. /\ queue[q] # <<>>
          /\ Head(queue[q]).kind \notin {"begin", "commit", "rollback"}
          /\ Pop(q)
          /\ Settle(Caller(q), TRUE)
      BY <1>2 DEF RunSavepoint, RunReleaseSavepoint, RunRollbackTo
    <2>3. UNCHANGED <<held, hasOpen, conn>> /\ Grows
      BY <1>2 DEF RunSavepoint, RunReleaseSavepoint, RunRollbackTo, Grows, Gone
    <2> HIDE DEF Running, Closing, Free, engineVars, c
    <2> QED
      BY <2>1, <2>2, <2>3, QuietTask
  <1>3. ASSUME RunBegin(q) PROVE HeldInv'
    <2>1. queue[q] # <<>> /\ Head(queue[q]).kind = "begin" /\ Pop(q) /\ conn' = conn /\ Grows
      BY <1>3 DEF RunBegin, Grows, Gone
    <2>2. /\ held[c] = job[Caller(q)].scope
          /\ Head(queue[q]).scope = job[Caller(q)].scope
          /\ engine[c].tx = NoScope
      BY TaskHolds, <2>1
    <2>3. CASE /\ engine' = [engine EXCEPT ![c] = [NoTransaction EXCEPT !.tx = Head(queue[q]).scope]]
               /\ hasOpen' = [hasOpen EXCEPT ![q] = TRUE]
               /\ held' = held
               /\ Settle(Caller(q), TRUE)
      <3>1. engine'[c].tx = job[Caller(q)].scope
        BY <1>c, <1>t, <2>2, <2>3 DEF NoTransaction
      <3> QED
        BY <1>c, <1>t, <2>1, <2>2, <2>3, <3>1, RootTask
    <2>4. CASE held' = [held EXCEPT ![c] = NoScope] /\ UNCHANGED <<engine, hasOpen>> /\ Settle(Caller(q), FALSE)
      BY <1>c, <1>t, <2>1, <2>2, <2>4, RootTask
    <2> QED
      BY <1>3, <2>3, <2>4 DEF RunBegin
  <1>4. ASSUME RunCommit(q) PROVE HeldInv'
    <2>1. /\ queue[q] # <<>>
          /\ Head(queue[q]).kind = "commit"
          /\ Pop(q)
          /\ Settle(Caller(q), TRUE)
          /\ conn' = conn
          /\ engine' = [engine EXCEPT ![c] = NoTransaction]
          /\ hasOpen' = [hasOpen EXCEPT ![q] = FALSE]
          /\ held' = [held EXCEPT ![c] = NoScope]
      BY <1>4 DEF RunCommit
    <2>4. /\ spoiled' = spoiled
          /\ committed \subseteq committed'
          /\ undone \subseteq undone'
          /\ IF c \in aborted THEN {engine[c].tx} \ {NoScope} \subseteq undone'
             ELSE {engine[c].tx} \ {NoScope} \subseteq committed'
      BY <1>4 DEF RunCommit
    <2>5. Grows
      BY <2>4 DEF Grows, Gone
    <2>6. /\ engine[c].tx = job[Caller(q)].scope \/ job[Caller(q)].scope \in Gone
          /\ engine[c].tx \in {NoScope, job[Caller(q)].scope}
          /\ job[Caller(q)].scope # NoScope
      BY TaskHolds, <2>1
    <2>7. c \in aborted => engine[c].tx \in spoiled /\ engine[c].tx # NoScope
      BY <1>c, FlowAssumption DEF HeldInv, GivenUp, TypeInv, TypeOK
    <2>2. job[Caller(q)].scope \in committed' \cup Gone'
      BY <2>4, <2>6, <2>7 DEF Gone
    <2>3. engine'[c].tx = NoScope
      BY <1>c, <1>t, <2>1 DEF NoTransaction
    <2> QED
      BY <1>c, <1>t, <2>1, <2>2, <2>3, <2>5, RootTask
  <1>5. ASSUME CommitFails(q) PROVE HeldInv'
    <2>1. /\ queue[q] # <<>>
          /\ Head(queue[q]).kind = "commit"
          /\ Pop(q)
          /\ Settle(Caller(q), FALSE)
          /\ UNCHANGED <<conn, held, hasOpen>>
          /\ Grows
          /\ engine' = engine \/ engine' = [engine EXCEPT ![c] = NoTransaction]
      BY <1>5 DEF CommitFails, Grows, Gone
    <2>2. held[c] = job[Caller(q)].scope /\ hasOpen[q]
      BY TaskHolds, <2>1
    <2>3. engine'[c].tx \in {NoScope, engine[c].tx} /\ \A d \in Connection \ {c} : engine'[d] = engine[d]
      BY <1>c, <1>t, <2>1 DEF NoTransaction
    <2> QED
      BY <2>1, <2>2, <2>3, RootTask
  <1>6. ASSUME RunRollback(q) PROVE HeldInv'
    <2>1. queue[q] # <<>> /\ Head(queue[q]).kind \in {"rollback", "check"}
      BY <1>6 DEF RunRollback
    <2>2. Head(queue[q]).kind = "rollback"
      BY <2>1, CallerWaits
    <2>3. /\ Pop(q)
          /\ Settle(Caller(q), TRUE) \/ Settle(Caller(q), FALSE)
          /\ conn' = conn
          /\ Grows
          /\ engine' = [engine EXCEPT ![c] = NoTransaction]
          /\ hasOpen' = [hasOpen EXCEPT ![q] = FALSE]
          /\ held' = [held EXCEPT ![c] = NoScope]
      BY <1>6, <1>c DEF RunRollback, Connected, Grows, Gone
    <2>4. engine'[c].tx = NoScope
      BY <1>c, <1>t, <2>3 DEF NoTransaction
    <2> QED
      BY <1>c, <1>t, <2>1, <2>2, <2>3, <2>4, RootTask
  <1>7. ~CloseNothing(q) /\ ~RunHandBack(q)
    BY NothingToClose
  <1>8. ASSUME CommandFails(q) PROVE HeldInv'
    <2>1. /\ queue[q] # <<>>
          /\ Head(queue[q]).kind \notin {"begin", "commit", "rollback"}
          /\ Pop(q)
          /\ Settle(Caller(q), FALSE)
          /\ UNCHANGED <<held, hasOpen, conn>>
          /\ Grows
      BY <1>8 DEF CommandFails, Commands, Grows, Gone
    <2>2. \A d \in Connection : \/ engine'[d].tx = engine[d].tx
                                \/ engine'[d].tx = NoScope /\ engine[d].tx \in Gone'
      BY <1>8, <1>c, <1>t DEF CommandFails, Gone, NoTransaction
    <2> HIDE DEF Running, Closing, Free, engineVars, c
    <2> QED
      BY <2>1, <2>2, QuietTask
  <1> QED
    BY <1>1, <1>2, <1>3, <1>4, <1>5, <1>6, <1>7, <1>8 DEF QuerierStep

-----------------------------------------------------------------------------
(***************************************************************************)
(* What the event loop owes a flow.                                        *)
(***************************************************************************)
\* Where the slot is free the database is in no transaction.
LEMMA FreeIsClosed ==
    ASSUME HeldInv, NEW c \in Connection, held[c] = NoScope
    PROVE  engine[c].tx = NoScope
  BY DEF HeldInv, OpenIsHeld

\* A slot found free is no other flow's.
LEMMA FreeIsNobodys ==
    ASSUME HeldInv, NEW c \in Connection, held[c] = NoScope, NEW g \in Flow, InOwn(g), pc[g] # "claim"
    PROVE  SlotOf(on[g]) # c
  <1>1. held[SlotOf(on[g])] = RootOf(ctx[g]) /\ ctx[g] \in Scope /\ Used(ctx[g])
    BY DEF HeldInv, FlowInv, Holding, Calls, InOwn, TypeInv, TypeOK
  <1>2. RootOf(ctx[g]) \in Scope
    BY <1>1 DEF HeldInv, Scopes, ScopeMade
  <1> QED
    BY <1>1, <1>2, FlowAssumption

LEMMA ClaimKeepsHeld ==
    ASSUME HeldInv, TypeInv', GivenUp', NEW f \in Flow, Claim(f)
    PROVE  HeldInv'
  <1> DEFINE c == SlotOf(on[f])
  <1>c. c \in Connection /\ \A g \in Flow : SlotOf(on[g]) \in Connection
    BY FlowAssumption DEF HeldInv, TypeInv, TypeOK, SlotOf
  <1>1. /\ pc[f] = "claim"
        /\ held[c] = NoScope
        /\ held' = [held EXCEPT ![c] = job[f].scope]
        /\ pc' = [pc EXCEPT ![f] = "call"]
        /\ UNCHANGED <<scope, queue, hasOpen, conn, job, ctx, on, calls, engine, committed, undone, spoiled>>
    BY DEF Claim, querierVars, engineVars
  <1>2. /\ pc'[f] = "call"
        /\ held'[c] = job[f].scope
        /\ \A d \in Connection \ {c} : held'[d] = held[d]
        /\ \A g \in Flow \ {f} : Same(g)
    BY <1>1, <1>c DEF HeldInv, TypeInv, TypeOK, Same
  <1>3. /\ AtRoot(f)
        /\ job[f].scope = ctx[f]
        /\ job[f].kind = "begin"
        /\ ctx[f] \in Scope
        /\ Used(ctx[f])
    BY <1>1 DEF HeldInv, FlowInv, Sends, Calls, AtRoot, TypeInv, TypeOK
  <1>4. RootOf(ctx[f]) = ctx[f]
    BY <1>3 DEF HeldInv, Scopes, RootMade, AtRoot
  <1>5. FlowInv(f)'
    BY <1>1, <1>2, <1>3, <1>4
    DEF HeldInv, FlowInv, Calls, Sends, Holding, Open, Gone, NotYet, Resolved, InOwn, AtRoot, Asks, Used, RootOf
  <1>6. \A g \in Flow \ {f} : InOwn(g) /\ pc[g] # "claim" => Untouched(g)
    BY <1>c, <1>1, <1>2, FreeIsNobodys DEF Untouched
  <1>7. \A g \in Flow : pc[g] = "claim" \/ Asks(g, {"begin"}) => \A d \in Connection : engine'[d].tx # job[g].scope
    BY <1>1 DEF HeldInv, FlowInv, NotYet
  <1>8. \A d \in Connection : engine'[d].tx # NoScope => Used(engine[d].tx)' /\ held'[d] = engine'[d].tx
    <2>1. engine'[c].tx = NoScope
      BY <1>c, <1>1, FreeIsClosed
    <2> QED
      BY <1>1, <1>2, <2>1 DEF HeldInv, OpenIsHeld, Used
  <1>9. Kept /\ Scopes'
    BY <1>1, <1>2, ScopesStay DEF Kept, Same
  <1>10. \A q \in Querier : Tasks(q)'
    BY <1>1, <1>2, TasksStay
  <1>g. Grows
    BY <1>1 DEF Grows, Gone
  <1> QED
    BY <1>1, <1>2, <1>5, <1>6, <1>7, <1>8, <1>9, <1>10, <1>g, OneFlow

LEMMA NestedTurnKeepsHeld ==
    ASSUME HeldInv, TypeInv', GivenUp', NEW f \in Flow, NestedTurn(f)
    PROVE  HeldInv'
  <1>1. /\ pc[f] = "nest"
        /\ pc'[f] = "call"
        /\ ctx'[f] = job[f].scope
        /\ UNCHANGED <<scope, queue, held, hasOpen, conn, job, on, calls, engine, committed, undone, spoiled>>
        /\ \A g \in Flow \ {f} : Same(g)
    BY DEF NestedTurn, slotVars, querierVars, engineVars, Same, HeldInv, TypeInv, TypeOK
  <1>2. /\ job[f].kind = "savepoint"
        /\ ctx[f] # NoScope
        /\ job[f].scope # NoScope
        /\ Used(job[f].scope)
        /\ scope[job[f].scope].parent = ctx[f]
        /\ job[f].scope \in Scope
    BY <1>1 DEF HeldInv, FlowInv, Sends, TypeInv, TypeOK, Job
  <1>3. RootOf(job[f].scope) = RootOf(ctx[f])
    BY <1>2 DEF HeldInv, Scopes, NestedMade
  <1>4. FlowInv(f)'
    <2> USE DEF HeldInv, FlowInv
    <2>1. Calls(f)' /\ Sends(f)' /\ NotYet(f)' /\ Resolved(f)'
      BY <1>1, <1>2 DEF Calls, Sends, NotYet, Resolved, Gone, Asks, Used
    <2>2. Holding(f)' /\ Open(f)'
      BY <1>1, <1>2, <1>3 DEF Holding, Open, Gone, InOwn, Asks, RootOf
    <2> QED
      BY <2>1, <2>2
  <1> QED
    BY <1>1, <1>4, LocalStep

\* A call that may go joins the queue of its querier, as the one task its flow awaits.
LEMMA SerializeKeepsHeld ==
    ASSUME HeldInv, TypeInv', GivenUp', NEW f \in Flow, Serialize(f)
    PROVE  HeldInv'
  <1> DEFINE new == [flow |-> f, kind |-> job[f].kind, scope |-> job[f].scope, within |-> ScopeHere(f)]
  <1>p. PICK p \in Querier : p = on[f]
    BY DEF HeldInv, TypeInv, TypeOK
  <1>1. /\ pc[f] = "call"
        /\ pc'[f] = "queued"
        /\ UNCHANGED <<scope, held, hasOpen, conn, job, ctx, on, calls, engine, committed, undone, spoiled>>
        /\ \A g \in Flow \ {f} : Same(g)
        /\ queue' = [queue EXCEPT ![p] = Append(@, new)]
    BY <1>p DEF Serialize, slotVars, engineVars, Same, HeldInv, TypeInv, TypeOK
  <1>2. new \in Task
    <2>1. job[f] \in Job /\ ScopeHere(f) \in Scope \cup {NoScope}
      BY ScopeHereType DEF HeldInv, TypeInv, TypeOK
    <2> QED
      BY <2>1 DEF Job, Task
  <1>3. p \in Querier /\ \A q \in Querier : queue[q] \in Seq(Task)
    BY DEF HeldInv, TypeInv, TypeOK
  <1>4. \A q \in Querier \ {p} : queue'[q] = queue[q]
    BY <1>1 DEF HeldInv, TypeInv, TypeOK
  <1>5. /\ Len(queue'[p]) = Len(queue[p]) + 1
        /\ \A i \in 1..Len(queue[p]) : queue'[p][i] = queue[p][i]
        /\ queue'[p][Len(queue[p]) + 1] = new
    <2>1. queue'[p] = Append(queue[p], new)
      BY <1>1, <1>3 DEF HeldInv, TypeInv, TypeOK
    <2> HIDE DEF new
    <2> QED
      BY <1>2, <1>3, <2>1, AppendProperties
  <1>6. \A q \in Querier : \A i \in 1..Len(queue[q]) :
           /\ queue[q][i].flow \in Flow \ {f}
           /\ pc[queue[q][i].flow] = "queued"
           /\ on[queue[q][i].flow] = q
           /\ queue[q][i].kind = job[queue[q][i].flow].kind
           /\ queue[q][i].scope = job[queue[q][i].flow].scope
    <2> SUFFICES ASSUME NEW q \in Querier, NEW i \in 1..Len(queue[q])
                 PROVE  /\ queue[q][i].flow \in Flow \ {f}
                        /\ pc[queue[q][i].flow] = "queued"
                        /\ on[queue[q][i].flow] = q
                        /\ queue[q][i].kind = job[queue[q][i].flow].kind
                        /\ queue[q][i].scope = job[queue[q][i].flow].scope
      OBVIOUS
    <2>1. queue[q][i] \in Task /\ Tasks(q)
      BY <1>3 DEF HeldInv
    <2>2. queue[q][i].flow \in Flow
      BY <2>1 DEF Task
    <2> QED
      BY <1>1, <2>1, <2>2 DEF Tasks
  <1>7. \A q \in Querier : Tasks(q)'
    <2>1. ASSUME NEW q \in Querier \ {p} PROVE Tasks(q)'
      <3>1. Tasks(q)
        BY DEF HeldInv
      <3> QED
        BY <1>4, <1>6, <1>1, <3>1 DEF Tasks, Same
    <2>2. Tasks(p)'
      <3> DEFINE n == Len(queue[p])
      <3>1. n \in Nat
        BY <1>3
      <3>2. ASSUME NEW i \in 1..n
            PROVE  LET g == queue'[p][i].flow IN
                   /\ g \in Flow \ {f}
                   /\ pc'[g] = "queued"
                   /\ on'[g] = p
                   /\ queue'[p][i].kind = job'[g].kind
                   /\ queue'[p][i].scope = job'[g].scope
                   /\ \A k \in 1..n : queue'[p][k].flow = g => k = i
        <4>1. Tasks(p)
          BY <1>3 DEF HeldInv
        <4> QED
          BY <1>1, <1>3, <1>5, <1>6, <4>1 DEF Tasks, Same
      <3>3. /\ queue'[p][n + 1].flow = f
            /\ pc'[f] = "queued"
            /\ on'[f] = p
            /\ queue'[p][n + 1].kind = job'[f].kind
            /\ queue'[p][n + 1].scope = job'[f].scope
        BY <1>p, <1>1, <1>5
      <3>4. 1..Len(queue'[p]) = (1..n) \cup {n + 1}
        BY <1>5, <3>1
      <3> SUFFICES ASSUME NEW i \in 1..Len(queue'[p])
                   PROVE  LET g == queue'[p][i].flow IN
                          /\ pc'[g] = "queued"
                          /\ on'[g] = p
                          /\ queue'[p][i].kind = job'[g].kind
                          /\ queue'[p][i].scope = job'[g].scope
                          /\ \A k \in 1..Len(queue'[p]) : queue'[p][k].flow = g => k = i
        BY <1>1 DEF Tasks
      <3>5. CASE i \in 1..n
        BY <3>2, <3>3, <3>4, <3>5
      <3>6. CASE i = n + 1
        BY <3>2, <3>3, <3>4, <3>6
      <3> QED
        BY <3>4, <3>5, <3>6
    <2> QED
      BY <2>1, <2>2
  <1>8. FlowInv(f)'
    BY <1>1
    DEF HeldInv, FlowInv, Calls, Sends, Holding, Open, Gone, NotYet, Resolved, InOwn, AtRoot, Asks, Used, RootOf
  <1>9. Kept /\ Scopes'
    BY <1>1, ScopesStay DEF Kept, Same
  <1>10. \A g \in Flow : Untouched(g)
    BY <1>1 DEF Untouched
  <1>11. \A g \in Flow : pc[g] = "claim" \/ Asks(g, {"begin"}) => \A d \in Connection : engine'[d].tx # job[g].scope
    BY <1>1 DEF HeldInv, FlowInv, NotYet
  <1>12. \A d \in Connection : engine'[d].tx # NoScope => Used(engine[d].tx)' /\ held'[d] = engine'[d].tx
    BY <1>1 DEF HeldInv, OpenIsHeld, Used
  <1>g. Grows
    BY <1>1 DEF Grows, Gone
  <1> QED
    BY <1>1, <1>7, <1>8, <1>9, <1>10, <1>11, <1>12, <1>g, OneFlow

LEMMA RefuseKeepsHeld ==
    ASSUME HeldInv, TypeInv', GivenUp', NEW f \in Flow, Refuse(f)
    PROVE  HeldInv'
  <1> DEFINE c == SlotOf(on[f])
  <1>c. c \in Connection /\ \A g \in Flow : SlotOf(on[g]) \in Connection
    BY FlowAssumption DEF HeldInv, TypeInv, TypeOK, SlotOf
  <1>1. /\ pc[f] = "call"
        /\ Settle(f, FALSE)
        /\ UNCHANGED <<queue, hasOpen, conn, engine, committed, undone, spoiled>>
        /\ IF job[f].kind = "begin" THEN held' = [held EXCEPT ![c] = NoScope] ELSE held' = held
    BY DEF Refuse, Free, querierVars, engineVars
  <1>g. Grows
    BY <1>1 DEF Grows, Gone
  <1>2. /\ FlowInv(f)'
        /\ pc'[f] # "idle"
        /\ \A g \in Flow \ {f} : Same(g)
        /\ UNCHANGED <<scope, on>>
    <2>1. InOwn(f) /\ job[f].kind \notin {"rollback", "begin"} =>
             /\ held'[c] = RootOf(ctx[f])
             /\ hasOpen'[on[f]]
             /\ job[f].kind # "commit" => engine'[c].tx = RootOf(ctx[f]) \/ RootOf(ctx[f]) \in Gone'
      BY <1>1 DEF HeldInv, FlowInv, Holding, Open, Gone, Asks
    <2> QED
      BY <1>1, <1>g, <2>1, Answered
  <1>3. ASSUME job[f].kind = "begin"
        PROVE  /\ engine[c].tx = NoScope
               /\ \A g \in Flow \ {f} : InOwn(g) /\ pc[g] # "claim" => SlotOf(on[g]) # c
    <2>1. Asks(f, {"begin", "commit", "rollback"})
      BY <1>1, <1>3 DEF Asks
    <2>2. held[c] = ctx[f] /\ job[f].scope = ctx[f]
      BY <2>1, AtRootHolds
    <2>3. engine[c].tx = NoScope
      BY <1>c, <1>1, <1>3, <2>2 DEF HeldInv, OpenIsHeld, FlowInv, NotYet, Asks
    <2> QED
      BY <2>1, <2>3, AtRootHolds
  <1>4. \A g \in Flow \ {f} : InOwn(g) /\ pc[g] # "claim" => Untouched(g)
    BY <1>c, <1>1, <1>3 DEF Untouched, HeldInv, TypeInv, TypeOK
  <1>5. \A g \in Flow : pc[g] = "claim" \/ Asks(g, {"begin"}) => \A d \in Connection : engine'[d].tx # job[g].scope
    BY <1>1 DEF HeldInv, FlowInv, NotYet
  <1>6. \A d \in Connection : engine'[d].tx # NoScope => Used(engine[d].tx)' /\ held'[d] = engine'[d].tx
    BY <1>1, <1>2, <1>3 DEF HeldInv, OpenIsHeld, Used, TypeInv, TypeOK
  <1>7. Kept /\ Scopes'
    BY <1>1, <1>2, ScopesStay DEF Kept, Same
  <1>8. \A q \in Querier : Tasks(q)'
    BY <1>1, <1>2, TasksStay
  <1> QED
    BY <1>1, <1>2, <1>4, <1>5, <1>6, <1>7, <1>8, <1>g, OneFlow

LEMMA FlowStepsKeepHeld ==
    ASSUME HeldInv, TypeInv', GivenUp', NEW f \in Flow, FlowStep(f)
    PROVE  HeldInv'
  BY NeverByHand, ClaimKeepsHeld, NestedTurnKeepsHeld, StaysKeepsHeld, SerializeKeepsHeld, RefuseKeepsHeld,
     RunCallbacksKeepsHeld
  DEF FlowStep

-----------------------------------------------------------------------------
(***************************************************************************)
(* A new scope.                                                            *)
(***************************************************************************)
\* A call runs in the scope its flow carries, or in none; in one of its own while that lasts.
LEMMA ScopeHereIsContext ==
    ASSUME HeldInv, NEW f \in Flow
    PROVE  /\ ScopeHere(f) \in {ctx[f], NoScope}
           /\ ScopeHere(f) # NoScope => SlotOf(scope[ctx[f]].querier) = SlotOf(on[f])
           /\ InOwn(f) /\ pc[f] # "claim" => ScopeHere(f) # NoScope
  <1> DEFINE c == SlotOf(on[f])
             h == held[c]
  <1>1. c \in Connection /\ h \in Scope \cup {NoScope} /\ ctx[f] \in Scope \cup {NoScope}
    BY FlowAssumption DEF HeldInv, TypeInv, TypeOK, SlotOf
  <1>2. h # NoScope => ~scope[h].manual
    BY <1>1 DEF HeldInv, Scopes, ScopeMade
  <1>3. CurrentTransaction(f, c) \in {ctx[f], NoScope}
    BY DEF CurrentTransaction
  <1>4. CurrentTransaction(f, c) # NoScope => SlotOf(scope[ctx[f]].querier) = c
    BY DEF CurrentTransaction
  <1>5. ScopeHere(f) = IF h # NoScope /\ CurrentTransaction(f, c) # NoScope THEN CurrentTransaction(f, c) ELSE NoScope
    <2>1. ~(h # NoScope /\ CurrentTransaction(f, c) = NoScope /\ scope[h].manual /\ scope[h].querier = on[f])
      BY <1>2
    <2> QED
      BY <2>1 DEF ScopeHere
  <1>6. ASSUME InOwn(f), pc[f] # "claim"
        PROVE  h # NoScope /\ CurrentTransaction(f, c) # NoScope
    <2>1. h = RootOf(ctx[f]) /\ ctx[f] \in Scope /\ Used(ctx[f]) /\ scope[RootOf(ctx[f])].flow = f /\ ctx[f] # NoScope
      BY <1>1, <1>6 DEF HeldInv, FlowInv, Holding, Calls, InOwn
    <2>2. /\ RootOf(ctx[f]) \in Scope
          /\ Used(RootOf(ctx[f]))
          /\ SlotOf(scope[ctx[f]].querier) = SlotOf(scope[RootOf(ctx[f])].querier)
      BY <2>1 DEF HeldInv, Scopes, ScopeMade
    <2>3. scope[RootOf(ctx[f])].querier = on[f]
      BY <2>1, <2>2 DEF HeldInv, Scopes, ScopeMade
    <2> QED
      BY <2>1, <2>2, <2>3, FlowAssumption DEF CurrentTransaction
  <1> QED
    BY <1>3, <1>4, <1>5, <1>6

\* A scope is created where none was, and changes no other.
LEMMA ScopeIsNew ==
    ASSUME HeldInv, NEW f \in Flow, NEW parent \in Scope \cup {NoScope}, Fresh # {},
           scope' = NewScope(f, parent, FALSE)
    PROVE  \E n \in Scope :
             /\ n = NextScope
             /\ ~Used(n)
             /\ \A s \in Scope \ {n} : scope'[s] = scope[s]
             /\ Kept
             /\ scope'[n].flow = f
             /\ scope'[n].querier = on[f]
             /\ scope'[n].parent = parent
             /\ ~scope'[n].manual
             /\ scope'[n].outer = ctx[f]
             /\ scope'[n].root = IF parent = NoScope THEN n ELSE RootOf(parent)
  <1>1. PICK n \in Scope : n = NextScope /\ scope[n] = Unused
    BY NextScopeType
  <1>2. ~Used(n)
    BY <1>1 DEF Used, Unused
  <1>3. scope \in [Scope -> ScopeRecord]
    BY DEF HeldInv, TypeInv, TypeOK
  <1>4. \A s \in Scope \ {n} : scope'[s] = scope[s]
    BY <1>1, <1>3 DEF NewScope
  <1>5. Kept
    BY <1>2, <1>4 DEF Kept
  <1>6. /\ scope'[n].flow = f
        /\ scope'[n].querier = on[f]
        /\ scope'[n].parent = parent
        /\ ~scope'[n].manual
        /\ scope'[n].outer = ctx[f]
        /\ scope'[n].root = IF parent = NoScope THEN n ELSE RootOf(parent)
    BY <1>1, <1>3 DEF NewScope
  <1> QED
    BY <1>1, <1>2, <1>4, <1>5, <1>6

LEMMA ScopesGrow ==
    ASSUME HeldInv, NEW n \in Scope, ~Used(n), \A s \in Scope \ {n} : scope'[s] = scope[s],
           on' = on, \A g \in Flow : pc[g] # "idle" => pc'[g] # "idle",
           ScopeMade(n)', RootMade(n)', NestedMade(n)'
    PROVE  Scopes'
  <1> SUFFICES ASSUME NEW s \in Scope \ {n}
               PROVE  ScopeMade(s)' /\ RootMade(s)' /\ NestedMade(s)'
    BY DEF Scopes
  <1>1. ScopeMade(s) /\ RootMade(s) /\ NestedMade(s) /\ scope'[s] = scope[s]
    BY DEF HeldInv, Scopes
  <1>2. /\ scope[s].flow \in Flow \cup {NoFlow}
        /\ scope[s].outer \in Scope \cup {NoScope}
        /\ scope[s].parent \in Scope \cup {NoScope}
    BY DEF HeldInv, TypeInv, TypeOK, ScopeRecord
  <1>3. ScopeMade(s)'
    <2>1. Used(s) => scope'[RootOf(s)] = scope[RootOf(s)] /\ RootOf(s)' = RootOf(s)
      BY <1>1 DEF ScopeMade, RootOf
    <2> QED
      BY <1>1, <1>2, <2>1 DEF ScopeMade, Used, SlotOf
  <1>4. RootMade(s)'
    <2>1. ASSUME Used(s), scope[s].parent = NoScope, scope[s].outer # NoScope
          PROVE  /\ scope'[scope[s].outer] = scope[scope[s].outer]
                 /\ scope'[RootOf(scope[s].outer)] = scope[RootOf(scope[s].outer)]
      <3>1. scope[s].outer \in Scope /\ Used(scope[s].outer)
        BY <1>1, <1>2, <2>1 DEF RootMade
      <3>2. RootOf(scope[s].outer) \in Scope /\ Used(RootOf(scope[s].outer))
        BY <3>1 DEF HeldInv, Scopes, ScopeMade
      <3> QED
        BY <3>1, <3>2
    <2> QED
      BY <1>1, <2>1 DEF RootMade, Used, RootOf
  <1>5. NestedMade(s)'
    BY <1>1, <1>2 DEF NestedMade, Used, RootOf
  <1> QED
    BY <1>3, <1>4, <1>5

LEMMA NestedKeepsHeld ==
    ASSUME HeldInv, TypeInv', GivenUp', NEW f \in Flow, Nested(f)
    PROVE  HeldInv'
  <1>1. /\ pc[f] = "run"
        /\ Fresh # {}
        /\ ScopeHere(f) # NoScope
        /\ scope' = NewScope(f, ScopeHere(f), FALSE)
        /\ UNCHANGED <<queue, held, hasOpen, conn, ctx, on, engine, committed, undone, spoiled>>
        /\ Count(f)
    BY DEF Nested, CanCall, querierVars, engineVars
  <1>3. \A g \in Flow : calls'[g].kinds = calls[g].kinds
    BY <1>1, CallKeepsKinds DEF HeldInv
  <1>4. \A g \in Flow \ {f} : Same(g)
    BY <1>1, <1>3 DEF Nested, Go, Same, HeldInv, TypeInv, TypeOK
  <1>5. /\ ScopeHere(f) = ctx[f]
        /\ ctx[f] \in Scope
        /\ ctx[f] # NoScope
        /\ Used(ctx[f])
        /\ SlotOf(scope[ctx[f]].querier) = SlotOf(on[f])
    BY <1>1, ScopeHereIsContext DEF HeldInv, FlowInv, Calls, TypeInv, TypeOK
  <1>6. /\ RootOf(ctx[f]) \in Scope
        /\ Used(RootOf(ctx[f]))
        /\ scope[RootOf(ctx[f])].parent = NoScope
        /\ SlotOf(scope[ctx[f]].querier) = SlotOf(scope[RootOf(ctx[f])].querier)
    BY <1>5 DEF HeldInv, Scopes, ScopeMade
  <1>p. PICK p \in Scope : p = ctx[f]
    BY <1>5
  <1>n. scope' = NewScope(f, p, FALSE) /\ p # NoScope
    BY <1>1, <1>5, <1>p
  <1>s. PICK n \in Scope :
        /\ n = NextScope
        /\ ~Used(n)
        /\ \A s \in Scope \ {n} : scope'[s] = scope[s]
        /\ Kept
        /\ scope'[n].flow = f
        /\ scope'[n].querier = on[f]
        /\ scope'[n].parent = p
        /\ ~scope'[n].manual
        /\ scope'[n].outer = ctx[f]
        /\ scope'[n].root = IF p = NoScope THEN n ELSE RootOf(p)
    <2>1. Fresh # {} /\ p \in Scope \cup {NoScope}
      BY <1>1
    <2> QED
      BY <1>n, <2>1, ScopeIsNew, ZenonT(60)
  <1>7. /\ n = NextScope
        /\ ~Used(n)
        /\ \A s \in Scope \ {n} : scope'[s] = scope[s]
        /\ Kept
        /\ scope'[n].flow = f
        /\ scope'[n].querier = on[f]
        /\ scope'[n].parent = ctx[f]
        /\ ~scope'[n].manual
        /\ scope'[n].outer = ctx[f]
        /\ scope'[n].root = RootOf(ctx[f])
    BY <1>s, <1>n, <1>p
  <1>2. pc'[f] = "nest" /\ job'[f].kind = "savepoint" /\ job'[f].scope = n
    BY <1>7 DEF Nested, Go, HeldInv, TypeInv, TypeOK
  <1>8. scope'[ctx[f]] = scope[ctx[f]] /\ scope'[RootOf(ctx[f])] = scope[RootOf(ctx[f])] /\ f # NoFlow
    BY <1>5, <1>6, <1>7, FlowAssumption
  <1>9. Scopes'
    <2>1. ScopeMade(n)' /\ RootMade(n)' /\ NestedMade(n)'
      BY <1>1, <1>2, <1>5, <1>6, <1>7, <1>8, ZenonT(60) DEF ScopeMade, RootMade, NestedMade, Used, RootOf, SlotOf
    <2>2. \A g \in Flow : pc[g] # "idle" => pc'[g] # "idle"
      BY <1>2, <1>4 DEF Same
    <2> QED
      BY <1>1, <1>7, <2>1, <2>2, ScopesGrow
  <1>10. FlowInv(f)'
    <2> USE DEF HeldInv, FlowInv
    <2>1. Calls(f)' /\ NotYet(f)' /\ Resolved(f)'
      BY <1>1, <1>2, <1>3, <1>5, <1>8 DEF Calls, NotYet, Resolved, Asks, Used
    <2>2. Sends(f)'
      <3>1. n # NoScope
        BY <1>7, FlowAssumption
      <3>2. ~Asks(f, {"begin", "commit", "rollback"})' /\ ~Asks(f, {"savepoint", "releaseSavepoint", "rollbackTo"})'
        BY <1>2 DEF Asks
      <3>3. Used(job[f].scope)'
        BY <1>2, <1>7, <1>8 DEF Used
      <3>4. pc'[f] = "nest" => /\ job'[f].kind = "savepoint"
                               /\ job'[f].scope # NoScope
                               /\ Used(job[f].scope)'
                               /\ scope'[job'[f].scope].flow = f
                               /\ ctx'[f] # NoScope
                               /\ scope'[job'[f].scope].parent = ctx'[f]
        BY <1>1, <1>2, <1>5, <1>7, <3>1, <3>3
      <3>5. pc'[f] # "claim"
        BY <1>2
      <3> HIDE DEF HeldInv, FlowInv
      <3> QED
        BY <3>2, <3>4, <3>5 DEF Sends
    <2>3. InOwn(f)' = InOwn(f) /\ RootOf(ctx[f])' = RootOf(ctx[f])
      BY <1>1, <1>8 DEF InOwn, RootOf
    <2>4. Holding(f) /\ Open(f) /\ ~Asks(f, {"begin"}) /\ ~Asks(f, {"begin", "rollback"}) /\ pc[f] \notin {"claim", "abort"}
      BY <1>1 DEF Asks
    <2>5. Holding(f)' /\ Open(f)'
      <3> HIDE DEF HeldInv, FlowInv
      <3> QED
        BY <1>1, <1>2, <2>3, <2>4 DEF Holding, Open, Gone, SlotOf
    <2> QED
      BY <2>1, <2>2, <2>5
  <1>11. \A g \in Flow : Untouched(g)
    BY <1>1 DEF Untouched
  <1>12. \A g \in Flow : pc[g] = "claim" \/ Asks(g, {"begin"}) => \A d \in Connection : engine'[d].tx # job[g].scope
    BY <1>1 DEF HeldInv, FlowInv, NotYet
  <1>13. \A d \in Connection : engine'[d].tx # NoScope => Used(engine[d].tx)' /\ held'[d] = engine'[d].tx
    <2>1. \A d \in Connection : engine[d].tx \in Scope \cup {NoScope}
      BY DEF HeldInv, TypeInv, TypeOK, Session
    <2> QED
      BY <1>1, <1>7, <2>1 DEF HeldInv, OpenIsHeld, Used, Kept
  <1>14. \A q \in Querier : Tasks(q)'
    BY <1>1, <1>4, TasksStay
  <1>g. Grows
    BY <1>1 DEF Grows, Gone
  <1> QED
    BY <1>1, <1>4, <1>7, <1>9, <1>10, <1>11, <1>12, <1>13, <1>14, <1>g, OneFlow

\* A transaction takes the slot in the turn that found it free, or waits for it.
LEMMA TransactionKeepsHeld ==
    ASSUME HeldInv, TypeInv', GivenUp', NEW f \in Flow, Transaction(f)
    PROVE  HeldInv'
  <1> DEFINE c == SlotOf(on[f])
  <1>c. c \in Connection /\ \A g \in Flow : SlotOf(on[g]) \in Connection
    BY FlowAssumption DEF HeldInv, TypeInv, TypeOK, SlotOf
  <1>1. /\ pc[f] = "run"
        /\ Fresh # {}
        /\ ScopeHere(f) = NoScope
        /\ scope' = NewScope(f, NoScope, FALSE)
        /\ UNCHANGED <<queue, hasOpen, conn, on, engine, committed, undone, spoiled>>
        /\ Count(f)
    BY DEF Transaction, CanCall, querierVars, engineVars
  <1>n. PICK n \in Scope :
        /\ n = NextScope
        /\ ~Used(n)
        /\ \A s \in Scope \ {n} : scope'[s] = scope[s]
        /\ Kept
        /\ scope'[n].flow = f
        /\ scope'[n].querier = on[f]
        /\ scope'[n].parent = NoScope
        /\ ~scope'[n].manual
        /\ scope'[n].outer = ctx[f]
        /\ scope'[n].root = IF NoScope = NoScope THEN n ELSE RootOf(NoScope)
    <2>1. Fresh # {} /\ NoScope \in Scope \cup {NoScope} /\ scope' = NewScope(f, NoScope, FALSE)
      BY <1>1
    <2> QED
      BY <2>1, ScopeIsNew, ZenonT(60)
  <1>2. /\ ctx'[f] = n
        /\ job'[f].kind = "begin"
        /\ job'[f].scope = n
        /\ \/ pc'[f] = "call" /\ held[c] = NoScope /\ held' = [held EXCEPT ![c] = n]
           \/ pc'[f] = "claim" /\ held' = held
    BY <1>n DEF Transaction, ClaimNow, Go, HeldInv, TypeInv, TypeOK
  <1>3. \A g \in Flow : calls'[g].kinds = calls[g].kinds
    BY <1>1, CallKeepsKinds DEF HeldInv
  <1>4. \A g \in Flow \ {f} : Same(g)
    BY <1>1, <1>3 DEF Transaction, ClaimNow, Go, Same, HeldInv, TypeInv, TypeOK
  <1>5. /\ ctx[f] \in Scope \cup {NoScope}
        /\ ctx[f] # NoScope => /\ Used(ctx[f])
                               /\ RootOf(ctx[f]) \in Scope
                               /\ Used(RootOf(ctx[f]))
                               /\ scope[RootOf(ctx[f])].flow # f
    <2>1. ~InOwn(f)
      BY <1>1, ScopeHereIsContext
    <2>2. ctx[f] \in Scope \cup {NoScope} /\ (ctx[f] # NoScope => Used(ctx[f]))
      BY DEF HeldInv, FlowInv, Calls, TypeInv, TypeOK
    <2> QED
      BY <2>1, <2>2 DEF InOwn, HeldInv, Scopes, ScopeMade
  <1>6. n # NoScope /\ f # NoFlow
    BY FlowAssumption
  <1>7. Scopes'
    <2>1. ScopeMade(n)'
      BY <1>1, <1>2, <1>n, <1>6 DEF ScopeMade, Used, RootOf, SlotOf
    <2>2. ctx[f] # NoScope => scope'[ctx[f]] = scope[ctx[f]] /\ scope'[RootOf(ctx[f])] = scope[RootOf(ctx[f])]
      BY <1>n, <1>5
    <2>3. RootMade(n)' /\ NestedMade(n)'
      BY <1>5, <1>n, <1>6, <2>2 DEF RootMade, NestedMade, Used, RootOf
    <2>4. \A g \in Flow : pc[g] # "idle" => pc'[g] # "idle"
      BY <1>2, <1>4 DEF Same
    <2> QED
      BY <1>1, <1>n, <2>1, <2>3, <2>4, ScopesGrow
  <1>8. \A d \in Connection : engine'[d].tx # n
    BY <1>1, <1>n, <1>6 DEF HeldInv
  <1>9. FlowInv(f)'
    <2>1. RootOf(n)' = n /\ Used(n)'
      BY <1>n, <1>6 DEF RootOf, Used
    <2>2. calls[f].kinds \cap ByHand = {}
      BY DEF HeldInv, FlowInv, Calls
    <2>3. Calls(f)' /\ NotYet(f)' /\ Resolved(f)'
      BY <1>2, <1>3, <1>8, <1>n, <1>6, <2>2 DEF Calls, NotYet, Resolved, Asks, Used
    <2>4. Sends(f)'
      BY <1>2, <1>n, <1>6 DEF Sends, AtRoot, Asks
    <2>5. pc'[f] = "call" => held'[c] = n
      BY <1>c, <1>2 DEF HeldInv, TypeInv, TypeOK
    <2>6. Holding(f)' /\ Open(f)'
      BY <1>1, <1>2, <1>n, <2>1, <2>5 DEF Holding, Open, InOwn, Asks, RootOf, SlotOf
    <2> QED
      BY <2>3, <2>4, <2>6 DEF FlowInv
  <1>10. \A g \in Flow \ {f} : InOwn(g) /\ pc[g] # "claim" => Untouched(g)
    <2>1. held[c] = NoScope => \A g \in Flow : InOwn(g) /\ pc[g] # "claim" => SlotOf(on[g]) # c
      BY <1>c, FreeIsNobodys
    <2> QED
      BY <1>c, <1>1, <1>2, <2>1 DEF Untouched, HeldInv, TypeInv, TypeOK
  <1>11. \A g \in Flow : pc[g] = "claim" \/ Asks(g, {"begin"}) => \A d \in Connection : engine'[d].tx # job[g].scope
    BY <1>1 DEF HeldInv, FlowInv, NotYet
  <1>12. \A d \in Connection : engine'[d].tx # NoScope => Used(engine[d].tx)' /\ held'[d] = engine'[d].tx
    <2>1. \A d \in Connection : engine[d].tx \in Scope \cup {NoScope}
      BY DEF HeldInv, TypeInv, TypeOK, Session
    <2>2. \A d \in Connection : engine[d].tx # NoScope => Used(engine[d].tx) /\ held[d] = engine[d].tx
      BY DEF HeldInv, OpenIsHeld
    <2>3. \A d \in Connection : engine[d].tx # NoScope => held'[d] = held[d]
      BY <1>c, <1>2, <2>2 DEF HeldInv, TypeInv, TypeOK
    <2> QED
      BY <1>1, <1>n, <2>1, <2>2, <2>3 DEF Used, Kept
  <1>13. \A q \in Querier : Tasks(q)'
    BY <1>1, <1>4, TasksStay
  <1>g. Grows
    BY <1>1 DEF Grows, Gone
  <1> QED
    BY <1>1, <1>4, <1>7, <1>9, <1>n, <1>10, <1>11, <1>12, <1>13, <1>g, OneFlow

\* A branch starts in its parent's scope, on its querier: it has opened nothing yet.
LEMMA StartKeepsHeld ==
    ASSUME HeldInv, TypeInv', GivenUp', NEW f \in Flow, NEW g \in Flow, Start(f, g)
    PROVE  HeldInv'
  <1>1. /\ pc[g] = "idle"
        /\ pc'[g] = "run"
        /\ ctx[f] # NoScope
        /\ ctx'[g] = ctx[f]
        /\ on' = [on EXCEPT ![g] = on[f]]
        /\ UNCHANGED <<scope, queue, held, hasOpen, conn, job, calls, engine, committed, undone, spoiled>>
        /\ \A h \in Flow \ {g} : Same(h)
    BY DEF Start, InCallback, slotVars, querierVars, engineVars, Same, HeldInv, TypeInv, TypeOK
  <1>2. /\ ctx[f] \in Scope
        /\ Used(ctx[f])
        /\ RootOf(ctx[f]) \in Scope
        /\ Used(RootOf(ctx[f]))
    BY <1>1 DEF HeldInv, FlowInv, Calls, Scopes, ScopeMade, TypeInv, TypeOK
  <1>3. \A s \in Scope : scope[s].flow # g
    BY <1>1, FlowAssumption DEF HeldInv, Scopes, ScopeMade, Used
  <1>4. ~InOwn(g)'
    BY <1>1, <1>2, <1>3 DEF InOwn, RootOf
  <1>5. FlowInv(g)'
    <2> USE DEF HeldInv, FlowInv
    <2>1. Calls(g)' /\ Sends(g)' /\ NotYet(g)' /\ Resolved(g)'
      BY <1>1, <1>2 DEF Calls, Sends, NotYet, Resolved, Asks, Used
    <2>2. Holding(g)' /\ Open(g)'
      BY <1>4 DEF Holding, Open
    <2> QED
      BY <2>1, <2>2
  <1>6. Scopes'
    <2> SUFFICES ASSUME NEW s \in Scope
                 PROVE  ScopeMade(s)' /\ RootMade(s)' /\ NestedMade(s)'
      BY DEF Scopes
    <2>1. ScopeMade(s) /\ RootMade(s) /\ NestedMade(s)
      BY DEF HeldInv, Scopes
    <2>2. Used(s) => scope[s].flow \in Flow \ {g}
      BY <1>3 DEF Used, HeldInv, TypeInv, TypeOK, ScopeRecord
    <2>3. ScopeMade(s)'
      BY <1>1, <2>1, <2>2 DEF ScopeMade, Same, Used, RootOf, SlotOf
    <2> QED
      BY <1>1, <2>1, <2>3 DEF RootMade, NestedMade, Used, RootOf
  <1>7. \A h \in Flow \ {g} : Untouched(h)
    BY <1>1 DEF Untouched
  <1>8. \A h \in Flow : pc[h] = "claim" \/ Asks(h, {"begin"}) => \A d \in Connection : engine'[d].tx # job[h].scope
    BY <1>1 DEF HeldInv, FlowInv, NotYet
  <1>9. \A d \in Connection : engine'[d].tx # NoScope => Used(engine[d].tx)' /\ held'[d] = engine'[d].tx
    BY <1>1 DEF HeldInv, OpenIsHeld, Used
  <1>10. \A q \in Querier : Tasks(q)'
    BY <1>1, TasksStay
  <1>11. Kept
    BY <1>1 DEF Kept
  <1>g. Grows
    BY <1>1 DEF Grows, Gone
  <1> QED
    BY <1>1, <1>5, <1>6, <1>7, <1>8, <1>9, <1>10, <1>11, <1>g, OneFlow

LEMMA UserStepsKeepHeld ==
    ASSUME HeldInv, TypeInv', GivenUp', NEW f \in Flow, UserStep(f)
    PROVE  HeldInv'
  BY NeverByHand, StatementKeepsHeld, TransactionKeepsHeld, NestedKeepsHeld, StaysKeepsHeld, ReturnKeepsHeld,
     StartKeepsHeld
  DEF UserStep

-----------------------------------------------------------------------------
(***************************************************************************)
(* The theorems.                                                           *)
(***************************************************************************)
LEMMA InitHeld ==
    ASSUME NothingByHand, Init
    PROVE  HeldInv
  <1>1. TypeInv /\ GivenUp
    BY InitTypes DEF Init, GivenUp
  <1>2. PICK plan \in Plan :
          /\ pc = [f \in Flow |-> IF f \in plan.branches THEN "idle" ELSE "run"]
          /\ on = plan.querier
          /\ calls = plan.calls
    BY DEF Init
  <1>3. \A f \in Flow : pc[f] \in {"idle", "run"} /\ job[f].kind = "none" /\ ctx[f] = NoScope
    BY <1>2 DEF Init, Idle
  <1>4. \A f \in Flow : calls[f].kinds \cap ByHand = {}
    BY <1>2 DEF NothingByHand
  <1>5. \A f \in Flow : FlowInv(f)
    BY <1>3, <1>4 DEF FlowInv, Calls, Sends, Holding, Open, NotYet, Resolved, InOwn, AtRoot, Asks
  <1>6. Scopes
    BY DEF Init, Scopes, ScopeMade, RootMade, NestedMade, Used, Unused
  <1>7. \A q \in Querier : Tasks(q) /\ conn[q] = "mine"
    <2>1. \A q \in Querier : queue[q] = <<>> /\ conn[q] = "mine"
      BY DEF Init
    <2> QED
      BY <2>1, EmptySeq DEF Tasks
  <1>8. \A c \in Connection : engine[c].tx = NoScope
    BY DEF Init, NoTransaction
  <1> QED
    BY <1>1, <1>5, <1>6, <1>7, <1>8 DEF HeldInv, OpenIsHeld

\* Only a refused command makes a transaction take nothing more, and nothing begins in it before it ends.
LEMMA GivenUpStays ==
    ASSUME TypeInv, GivenUp, [Next]_vars
    PROVE  GivenUp'
  <1>1. CASE \E f \in Flow : UserStep(f) \/ FlowStep(f)
    <2>1. UNCHANGED <<engine, aborted, spoiled>>
      BY <1>1 DEF UserStep, FlowStep, Statement, Transaction, Nested, BeginTransaction, CommitTransaction,
         RollbackTransaction, OnCommit, StreamNext, StreamEnd, Release, Return, Throw, Start, Claim, NestedTurn,
         StreamTurn, StreamReturned, Serialize, Refuse, Released, RunCallbacks, engineVars
    <2> QED
      BY <2>1 DEF GivenUp
  <1>2. ASSUME NEW q \in Querier, QuerierStep(q)
        PROVE  GivenUp'
    <2> DEFINE c == SlotOf(q)
    <2>c. c \in Connection /\ TypeOK
      BY FlowAssumption DEF SlotOf, TypeInv
    <2>e. /\ engine \in [Connection -> Session]
          /\ spoiled \subseteq Scope
          /\ aborted \subseteq Connection
      BY <2>c DEF TypeOK
    <2> HIDE DEF c
    <2>1. CASE RunStatement(q) \/ RunSavepoint(q) \/ RunReleaseSavepoint(q) \/ RunRollbackTo(q) \/ RunHandBack(q)
      <3>1. \A d \in Connection : engine'[d].tx = engine[d].tx
        BY <2>1, TaskLeaves
      <3>2. spoiled' = spoiled /\ aborted' \subseteq aborted
        BY <2>1 DEF RunStatement, RunSavepoint, RunReleaseSavepoint, RunRollbackTo, RunHandBack, engineVars
      <3> QED
        BY <2>e, <3>1, <3>2 DEF GivenUp
    <2>2. CASE RunBegin(q)
      <3>1. /\ UNCHANGED <<spoiled, aborted>>
            /\ \/ engine' = engine
               \/ engine[c].tx = NoScope /\ \A d \in Connection \ {c} : engine'[d] = engine[d]
        BY <2>2, <2>e DEF RunBegin, c
      <3>2. engine[c].tx = NoScope => c \notin aborted
        BY <2>e, FlowAssumption DEF GivenUp
      <3> QED
        BY <2>e, <3>1, <3>2 DEF GivenUp
    <2>3. CASE CloseNothing(q)
      BY <2>3 DEF CloseNothing, engineVars, GivenUp
    <2>4. CASE RunCommit(q) \/ CommitFails(q) \/ RunRollback(q)
      <3>1. /\ spoiled' = spoiled
            /\ \/ UNCHANGED <<engine, aborted>>
               \/ aborted' = aborted \ {c} /\ \A d \in Connection \ {c} : engine'[d] = engine[d]
        BY <2>4, <2>e DEF RunCommit, CommitFails, RunRollback, c
      <3> QED
        BY <2>e, <3>1 DEF GivenUp
    <2>5. CASE CommandFails(q)
      <3>1. /\ spoiled \subseteq spoiled'
            /\ \/ UNCHANGED <<engine, aborted>>
               \/ engine' = engine /\ aborted' = aborted \cup {c} /\ engine[c].tx \in spoiled'
               \/ aborted' = aborted \ {c} /\ \A d \in Connection \ {c} : engine'[d] = engine[d]
        BY <2>5, <2>e DEF CommandFails, c
      <3> QED
        BY <2>e, <3>1 DEF GivenUp
    <2> QED
      BY <1>2, <2>1, <2>2, <2>3, <2>4, <2>5 DEF QuerierStep
  <1>3. CASE UNCHANGED vars
    BY <1>3 DEF vars, engineVars, GivenUp
  <1> QED
    BY <1>1, <1>2, <1>3 DEF Next

LEMMA NextHeld ==
    ASSUME HeldInv, [Next]_vars
    PROVE  HeldInv'
  <1>1. TypeInv' /\ GivenUp'
    BY NextTypes, GivenUpStays DEF HeldInv
  <1>2. CASE \E f \in Flow : UserStep(f) \/ FlowStep(f)
    BY <1>1, <1>2, UserStepsKeepHeld, FlowStepsKeepHeld
  <1>3. CASE \E q \in Querier : QuerierStep(q)
    BY <1>1, <1>3, QuerierStepsKeepHeld
  <1>4. CASE UNCHANGED vars
    <2>1. UNCHANGED <<scope, queue, held, hasOpen, conn, pc, job, ctx, on, calls, engine, committed, undone, spoiled>>
      BY <1>4 DEF vars, slotVars, querierVars, flowVars, engineVars
    <2>2. \A f \in Flow : FlowInv(f)'
      BY <2>1
      DEF HeldInv, FlowInv, Calls, Sends, Holding, Open, Gone, NotYet, Resolved, InOwn, AtRoot, Asks, Used, RootOf, SlotOf
    <2>3. Scopes'
      BY <2>1, ScopesStay
    <2>4. \A q \in Querier : Tasks(q)' /\ conn'[q] = "mine"
      BY <2>1 DEF HeldInv, Tasks
    <2> QED
      BY <1>1, <2>1, <2>2, <2>3, <2>4 DEF HeldInv, OpenIsHeld, Used
  <1> QED
    BY <1>2, <1>3, <1>4 DEF Next

\* A program that uses `transaction` alone never leaves the database in a transaction the slot does not
\* hold, whatever its flows, branches, nesting and handles and whatever the database refuses: `claim`
\* hands the slot on only once `endTransaction` ran.
THEOREM OpenIsHeldAlways ==
    ASSUME NothingByHand
    PROVE  Spec => []OpenIsHeld
  <1>1. Init => HeldInv
    BY InitHeld
  <1>2. HeldInv /\ [Next]_vars => HeldInv'
    BY NextHeld
  <1> QED
    BY <1>1, <1>2, PTL DEF Spec, HeldInv

\* A transaction of such a program that resolves did commit, unless the database had given it up and rolled
\* it back at a command it refused: a COMMIT is answered for the transaction it was sent for, so no other
\* flow's end is taken for it.
THEOREM ResolvedCommitted ==
    ASSUME NothingByHand
    PROVE  Spec => []ResolvedIsCommitted
  <1>1. Init => HeldInv
    BY InitHeld
  <1>2. HeldInv /\ [Next]_vars => HeldInv'
    BY NextHeld
  <1>3. HeldInv => ResolvedIsCommitted
    BY DEF HeldInv, FlowInv, Resolved, Gone, ResolvedIsCommitted
  <1> QED
    BY <1>1, <1>2, <1>3, PTL DEF Spec

-----------------------------------------------------------------------------
(***************************************************************************)
(* What a pool whose queriers share no handle keeps from a flow outside a  *)
(* transaction, for a program that uses `transaction` alone: its           *)
(* statements never land in another flow's transaction, and its stream     *)
(* never reads one.  Where queriers share a handle neither holds.          *)
(*                                                                         *)
(* The invariant follows a statement from its turn in `serialize` to its   *)
(* run, and a reader from its turn on the connection to its last row.      *)
(***************************************************************************)
NothingShared == \A c \in Connection : ~Shared(c)

\* A flow of this querier claimed the connection for `h` after the task at `i` was queued: its BEGIN comes later.
BeginsAfter(q, h, i) ==
    \E g \in Flow : /\ on[g] = q
                    /\ Asks(g, {"begin"})
                    /\ job[g].scope = h
                    /\ \A j \in 1..Len(queue[q]) : queue[q][j].flow = g => i < j

\* A queued statement was sent from inside the transaction that holds the connection, or runs before it begins.
Waiting(q) ==
    LET h == held[SlotOf(q)] IN
    h # NoScope =>
        \A i \in 1..Len(queue[q]) :
            queue[q][i].kind = "statement" => Root(queue[q][i].within) = h \/ BeginsAfter(q, h, i)

\* What is written, and what each savepoint goes back to, is the transaction's own.
Own(writes, tx) == \A i \in DOMAIN writes : Root(writes[i]) = tx
Inside(session) ==
    /\ session.tx = NoScope => session.writes = <<>> /\ session.saves = <<>>
    /\ Own(session.writes, session.tx)
    /\ \A k \in DOMAIN session.saves : Own(session.saves[k].writes, session.tx)

\* The transaction is the flow's, or one it runs in.
RunsIn(f, q, tx) ==
    \/ scope[tx].flow = f
    \/ ctx[f] # NoScope /\ RootOf(ctx[f]) = tx /\ SlotOf(scope[ctx[f]].querier) = SlotOf(q)

\* While a flow reads, its querier runs no task, and a transaction open on the connection is one it runs in.
Reading(q) ==
    LET f == stream[q]
        tx == engine[SlotOf(q)].tx
    IN  f # NoFlow =>
          /\ on[f] = q
          /\ pc[f] # "idle"
          /\ pc[f] # "stream" => queue[q] = <<>> /\ (tx # NoScope => RunsIn(f, q, tx))

ApartInv ==
    /\ HeldInv
    /\ \A q \in Querier : Waiting(q) /\ Reading(q)
    /\ \A c \in Connection : Inside(engine[c])

-----------------------------------------------------------------------------
(***************************************************************************)
(* What every step leaves alone.                                           *)
(***************************************************************************)
RootsStay == \A s \in Scope : RootOf(s) # NoScope => scope'[s] = scope[s]
Steady(g) == pc'[g] = pc[g] /\ job'[g] = job[g] /\ ctx'[g] = ctx[g] /\ on'[g] = on[g]

LEMMA NewScopeKeepsRoots ==
    ASSUME HeldInv, NEW f \in Flow, NEW parent, Fresh # {}, scope' = NewScope(f, parent, FALSE)
    PROVE  RootsStay /\ Kept
  <1>1. NextScope \in Scope /\ scope[NextScope] = Unused
    BY NextScopeType
  <1>2. \A s \in Scope \ {NextScope} : scope'[s] = scope[s]
    BY <1>1 DEF NewScope, HeldInv, TypeInv, TypeOK
  <1>3. scope[NextScope].root = NoScope /\ scope[NextScope].flow = NoFlow
    BY <1>1 DEF Unused
  <1> QED
    BY <1>2, <1>3 DEF RootsStay, Kept, RootOf, Used

LEMMA FlowFrame ==
    ASSUME HeldInv, NEW f \in Flow, UserStep(f) \/ FlowStep(f)
    PROVE  /\ engine' = engine
           /\ RootsStay /\ Kept
           /\ pc[f] \notin {"idle", "queued"}
           /\ \A g \in Flow \ {f} : pc[g] # "idle" => Steady(g)
           /\ on'[f] = on[f]
  <1> USE DEF slotVars, querierVars, engineVars, flowVars
  <1>1. UNCHANGED scope => RootsStay /\ Kept
    BY DEF RootsStay, Kept
  <1>2. TypeOK
    BY DEF HeldInv, TypeInv
  <1>3. CASE Statement(f) \/ OnCommit(f) \/ StreamNext(f) \/ StreamEnd(f) \/ Return(f) \/ Throw(f)
    BY <1>1, <1>2, <1>3 DEF Statement, OnCommit, StreamNext, StreamEnd, Return, Throw, CanCall, Go, Steady, TypeOK
  <1>4. CASE Transaction(f)
    <2>1. RootsStay /\ Kept
      BY <1>4, NewScopeKeepsRoots DEF Transaction
    <2> QED
      BY <1>2, <1>4, <2>1 DEF Transaction, ClaimNow, CanCall, Go, Steady, TypeOK
  <1>5. CASE Nested(f)
    <2>1. RootsStay /\ Kept
      BY <1>5, NewScopeKeepsRoots DEF Nested
    <2> QED
      BY <1>2, <1>5, <2>1 DEF Nested, CanCall, Go, Steady, TypeOK
  <1>6. CASE \E g \in Flow : Start(f, g)
    BY <1>1, <1>2, <1>6 DEF Start, Steady, TypeOK
  <1>7. CASE Claim(f) \/ NestedTurn(f) \/ StreamTurn(f) \/ Serialize(f) \/ RunCallbacks(f)
    BY <1>1, <1>2, <1>7 DEF Claim, NestedTurn, StreamTurn, Serialize, RunCallbacks, Go, Steady, TypeOK
  <1>8. CASE Refuse(f)
    BY <1>1, <1>2, <1>8 DEF Refuse, Settle, Steady, TypeOK
  <1> QED
    BY <1>3, <1>4, <1>5, <1>6, <1>7, <1>8, NeverByHand DEF UserStep, FlowStep

\* A scope with a root keeps it.
LEMMA RootStays ==
    ASSUME RootsStay, NEW s \in Scope \cup {NoScope}, NEW tx \in Scope, Root(s) = tx
    PROVE  Root(s)' = tx
  BY FlowAssumption DEF RootsStay, Root, RootOf

-----------------------------------------------------------------------------
(***************************************************************************)
(* The turn of a statement.                                                *)
(***************************************************************************)
\* A queue that stays as it is, behind a slot that stays or is given up.
LEMMA WaitingStays ==
    ASSUME ApartInv, NEW q \in Querier, RootsStay, queue'[q] = queue[q],
           held'[SlotOf(q)] \in {held[SlotOf(q)], NoScope},
           \A g \in Flow : on[g] = q /\ Asks(g, {"begin"}) /\ held'[SlotOf(q)] # NoScope => Steady(g)
    PROVE  Waiting(q)'
  <1> DEFINE h == held[SlotOf(q)]
  <1> SUFFICES ASSUME held'[SlotOf(q)] # NoScope,
                      NEW i \in 1..Len(queue[q]), queue[q][i].kind = "statement"
               PROVE  (Root(queue[q][i].within) = h \/ BeginsAfter(q, h, i))'
    BY DEF Waiting, SlotOf
  <1>1. h # NoScope /\ h' = h
    BY DEF SlotOf
  <1>2. h \in Scope
    BY <1>1, FlowAssumption DEF ApartInv, HeldInv, TypeInv, TypeOK, SlotOf
  <1>3. queue[q][i].within \in Scope \cup {NoScope}
    <2>1. queue[q][i] \in Task
      BY DEF ApartInv, HeldInv, TypeInv, TypeOK
    <2> QED
      BY <2>1 DEF Task
  <1> HIDE DEF h
  <1>4. Root(queue[q][i].within) = h \/ BeginsAfter(q, h, i)
    BY <1>1 DEF ApartInv, Waiting, h
  <1>5. ASSUME Root(queue[q][i].within) = h PROVE (Root(queue[q][i].within) = h)'
    <2> DEFINE w == queue[q][i].within
    <2>1. queue'[q][i].within = w
      OBVIOUS
    <2>2. Root(w)' = h
      BY <1>2, <1>3, <1>5, RootStays
    <2> QED
      BY <1>1, <2>1, <2>2 DEF Root, RootOf
  <1>6. ASSUME BeginsAfter(q, h, i) PROVE BeginsAfter(q, h, i)'
    BY <1>1, <1>6 DEF BeginsAfter, Steady, Asks, h
  <1> QED
    BY <1>4, <1>5, <1>6

\* A claim: what is queued runs before its BEGIN, and no other querier shares the connection.
LEMMA WaitingAfterClaim ==
    ASSUME ApartInv, NothingShared, NEW f \in Flow, NEW s \in Scope, NEW q \in Querier, RootsStay, queue' = queue,
           pc[f] # "queued", held' = [held EXCEPT ![SlotOf(on[f])] = s],
           pc'[f] = "call", job'[f].kind = "begin", job'[f].scope = s, on'[f] = on[f],
           \A g \in Flow \ {f} : pc[g] # "idle" => Steady(g)
    PROVE  Waiting(q)'
  <1>1. on[f] \in Querier /\ held \in [Connection -> Scope \cup {NoScope}]
    BY DEF ApartInv, HeldInv, TypeInv, TypeOK
  <1>2. \A p \in Querier : ConnectionOf[p] \in Connection
    BY FlowAssumption
  <1>3. CASE q = on[f]
    <2>1. held'[SlotOf(q)] = s
      BY <1>1, <1>2, <1>3 DEF SlotOf
    <2>2. \A j \in 1..Len(queue[q]) : queue[q][j].flow # f
      BY DEF ApartInv, HeldInv, Tasks
    <2>3. \A i \in 1..Len(queue[q]) : BeginsAfter(q, s, i)'
      BY <1>3, <2>2 DEF BeginsAfter, Asks
    <2> QED
      BY <2>1, <2>3 DEF Waiting, SlotOf, BeginsAfter
  <1>4. CASE q # on[f]
    <2>1. SlotOf(q) # SlotOf(on[f])
      BY <1>1, <1>2, <1>4 DEF NothingShared, Shared, SlotOf
    <2>2. held'[SlotOf(q)] = held[SlotOf(q)]
      BY <1>1, <1>2, <2>1 DEF SlotOf
    <2>3. \A g \in Flow : on[g] = q /\ Asks(g, {"begin"}) => Steady(g)
      BY <1>4 DEF Asks
    <2> QED
      BY <2>2, <2>3, WaitingStays
  <1> QED
    BY <1>3, <1>4

\* `serialize` lets through only what runs in the transaction that holds the connection.
LEMMA WaitingAfterSerialize ==
    ASSUME ApartInv, NEW f \in Flow, NEW q \in Querier, RootsStay, Serialize(f), pc[f] # "queued",
           \A g \in Flow \ {f} : pc[g] # "idle" => Steady(g)
    PROVE  Waiting(q)'
  <1>1. on[f] \in Querier /\ queue \in [Querier -> Seq(Task)] /\ pc \in [Flow -> Place]
    BY DEF ApartInv, HeldInv, TypeInv, TypeOK
  <1>2. UNCHANGED <<held, scope, job, on>>
    BY DEF Serialize, slotVars
  <1>3. CASE q # on[f]
    <2>1. queue'[q] = queue[q]
      BY <1>1, <1>3 DEF Serialize
    <2>2. \A g \in Flow : on[g] = q /\ Asks(g, {"begin"}) => Steady(g)
      BY <1>3 DEF Asks
    <2> QED
      BY <1>2, <2>1, <2>2, WaitingStays
  <1>4. CASE q = on[f]
    <2> DEFINE t == [flow |-> f, kind |-> job[f].kind, scope |-> job[f].scope, within |-> ScopeHere(f)]
               h == held[SlotOf(q)]
               n == Len(queue[q])
    <2>1. queue'[q] = Append(queue[q], t) /\ queue[q] \in Seq(Task)
      BY <1>1, <1>4 DEF Serialize
    <2>2. Len(queue'[q]) = n + 1 /\ n \in Nat /\ queue'[q][n + 1] = t /\ \A i \in 1..n : queue'[q][i] = queue[q][i]
      BY <2>1
    <2>3. h # NoScope => Root(ScopeHere(f)) = h
      <3>1. h # NoScope => ScopeHere(f) # NoScope
        BY <1>4 DEF Serialize, Blocked
      <3>2. h \in Scope \cup {NoScope}
        BY FlowAssumption DEF ApartInv, HeldInv, TypeInv, TypeOK, SlotOf
      <3>3. h # NoScope => ~scope[h].manual
        BY <3>2 DEF ApartInv, HeldInv, Scopes, ScopeMade
      <3>4. ScopeHere(f) # NoScope => ScopeHere(f) = ctx[f] /\ RootOf(ctx[f]) = h
        BY <1>4, <3>3 DEF ScopeHere, CurrentTransaction
      <3> QED
        BY <3>1, <3>4 DEF Root
    <2>4. \A i \in 1..n : h # NoScope /\ queue[q][i].kind = "statement" =>
                             Root(queue[q][i].within) = h \/ BeginsAfter(q, h, i)
      BY DEF ApartInv, Waiting
    <2> HIDE DEF t
    <2>5. ASSUME NEW i \in 1..n, BeginsAfter(q, h, i) PROVE BeginsAfter(q, h, i)'
      <3>1. PICK g \in Flow : /\ on[g] = q
                              /\ Asks(g, {"begin"})
                              /\ job[g].scope = h
                              /\ \A j \in 1..n : queue[q][j].flow = g => i < j
        BY <2>5 DEF BeginsAfter
      <3>2. Asks(g, {"begin"})' /\ on'[g] = q /\ job'[g].scope = h
        BY <1>1, <1>2, <3>1 DEF Asks, Serialize
      <3>3. \A j \in 1..Len(queue'[q]) : queue'[q][j].flow = g => i < j
        BY <2>2, <3>1
      <3> QED
        BY <1>2, <3>2, <3>3 DEF BeginsAfter, SlotOf
    <2>6. t.within = ScopeHere(f)
      BY DEF t
    <2>7. ASSUME NEW i \in 1..Len(queue'[q]), h # NoScope, queue'[q][i].kind = "statement"
          PROVE  Root(queue'[q][i].within) = h \/ BeginsAfter(q, h, i)'
      <3>1. CASE i = n + 1
        BY <2>2, <2>3, <2>6, <2>7, <3>1
      <3>2. CASE i \in 1..n
        BY <2>2, <2>4, <2>5, <2>7, <3>2
      <3> QED
        BY <2>2, <3>1, <3>2
    <2> QED
      BY <1>2, <2>7 DEF Waiting, Root, RootOf, SlotOf
  <1> QED
    BY <1>3, <1>4

\* A task taken off its queue: what waits behind it waits as before.
LEMMA WaitingAfterPop ==
    ASSUME ApartInv, NEW p \in Querier, NEW q \in Querier, RootsStay, queue[p] # <<>>, Pop(p),
           held'[SlotOf(q)] \in {held[SlotOf(q)], NoScope},
           \A g \in Flow \ {Caller(p)} : Steady(g)
    PROVE  Waiting(q)'
  <1> DEFINE f == Caller(p)
             h == held[SlotOf(q)]
  <1>1. f = queue[p][1].flow /\ f \in Flow /\ on[f] = p
    BY CallerWaits DEF ApartInv, Caller
  <1>2. queue \in [Querier -> Seq(Task)]
    BY DEF ApartInv, HeldInv, TypeInv, TypeOK
  <1>3. CASE q # p
    <2>1. queue'[q] = queue[q]
      BY <1>2, <1>3 DEF Pop
    <2>2. \A g \in Flow : on[g] = q /\ Asks(g, {"begin"}) => Steady(g)
      BY <1>1, <1>3
    <2> QED
      BY <2>1, <2>2, WaitingStays
  <1>4. CASE q = p
    <2>1. /\ Len(queue[q]) \in Nat /\ Len(queue'[q]) = Len(queue[q]) - 1
          /\ \A i \in 1..Len(queue'[q]) : queue'[q][i] = queue[q][i + 1] /\ i + 1 \in 1..Len(queue[q])
      <3>1. queue'[q] = Tail(queue[q]) /\ queue[q] \in Seq(Task) /\ queue[q] # <<>>
        BY <1>2, <1>4 DEF Pop
      <3>2. /\ Len(queue[q]) \in Nat /\ Len(queue'[q]) = Len(queue[q]) - 1
            /\ \A i \in 1..Len(queue'[q]) : queue'[q][i] = queue[q][i + 1]
        BY <3>1, HeadTailProperties
      <3> QED
        BY <3>2
    <2> SUFFICES ASSUME held'[SlotOf(q)] # NoScope,
                        NEW i \in 1..Len(queue'[q]), queue'[q][i].kind = "statement"
                 PROVE  (Root(queue[q][i].within) = h \/ BeginsAfter(q, h, i))'
      BY DEF Waiting, SlotOf
    <2>2. h # NoScope /\ h' = h
      BY DEF SlotOf
    <2>3. h \in Scope
      BY <2>2, FlowAssumption DEF ApartInv, HeldInv, TypeInv, TypeOK, SlotOf
    <2> DEFINE t == queue[q][i + 1]
    <2>4. t \in Task /\ i + 1 \in 1..Len(queue[q]) /\ t.kind = "statement" /\ queue'[q][i] = t
      BY <1>2, <2>1
    <2> HIDE DEF h
    <2>5. Root(t.within) = h \/ BeginsAfter(q, h, i + 1)
      BY <2>2, <2>4 DEF ApartInv, Waiting, h
    <2> HIDE DEF t
    <2>6. ASSUME Root(t.within) = h PROVE (Root(queue[q][i].within) = h)'
      <3>1. PICK w \in Scope \cup {NoScope} : w = t.within
        BY <2>4 DEF Task
      <3>2. Root(w)' = h
        <4>1. PICK tx \in Scope : tx = h
          BY <2>3
        <4>2. Root(w)' = tx
          BY <2>6, <3>1, <4>1, RootStays
        <4> QED
          BY <4>1, <4>2
      <3>3. queue'[q][i].within = w
        BY <2>4, <3>1
      <3> QED
        BY <2>2, <3>2, <3>3 DEF Root, RootOf
    <2>7. ASSUME BeginsAfter(q, h, i + 1) PROVE BeginsAfter(q, h, i)'
      <3>1. PICK g \in Flow : /\ on[g] = q
                              /\ Asks(g, {"begin"})
                              /\ job[g].scope = h
                              /\ \A j \in 1..Len(queue[q]) : queue[q][j].flow = g => i + 1 < j
        BY <2>7 DEF BeginsAfter
      <3>2. g # f
        <4>1. 1 \in 1..Len(queue[q]) /\ ~ (i + 1 < 1)
          BY <2>1
        <4> QED
          BY <1>1, <1>4, <3>1, <4>1
      <3>3. Steady(g)
        BY <3>2
      <3>4. \A j \in 1..Len(queue'[q]) : queue'[q][j].flow = g => i < j
        <4>1. ASSUME NEW j \in 1..Len(queue'[q]), queue'[q][j].flow = g PROVE i + 1 < j + 1
          BY <2>1, <3>1, <4>1
        <4>2. \A j \in 1..Len(queue'[q]) : i + 1 < j + 1 => i < j
          BY <2>1
        <4> QED
          BY <4>1, <4>2
      <3> QED
        BY <2>2, <3>1, <3>3, <3>4 DEF BeginsAfter, Steady, Asks
    <2> QED
      BY <2>5, <2>6, <2>7
  <1> QED
    BY <1>3, <1>4

LEMMA FlowStepsKeepWaiting ==
    ASSUME ApartInv, NothingShared, NEW f \in Flow, UserStep(f) \/ FlowStep(f), NEW q \in Querier
    PROVE  Waiting(q)'
  <1> USE DEF slotVars, querierVars
  <1>1. /\ RootsStay
        /\ pc[f] \notin {"idle", "queued"}
        /\ \A g \in Flow \ {f} : pc[g] # "idle" => Steady(g)
        /\ on'[f] = on[f]
    BY FlowFrame DEF ApartInv
  <1>2. /\ on[f] \in Querier
        /\ held \in [Connection -> Scope \cup {NoScope}]
        /\ pc \in [Flow -> Place] /\ job \in [Flow -> Job]
        /\ SlotOf(on[f]) \in Connection
    BY FlowAssumption DEF ApartInv, HeldInv, TypeInv, TypeOK, SlotOf
  <1>3. ASSUME queue' = queue, held' = held, ~Asks(f, {"begin"}) PROVE Waiting(q)'
    <2>1. \A g \in Flow : Asks(g, {"begin"}) => Steady(g)
      BY <1>1, <1>3 DEF Asks
    <2> QED
      BY <1>1, <1>3, <2>1, WaitingStays
  <1>4. ASSUME queue' = queue, held' = held, pc[f] \notin {"call", "queued"} PROVE Waiting(q)'
    BY <1>3, <1>4 DEF Asks
  <1>5. CASE Statement(f) \/ OnCommit(f) \/ StreamNext(f) \/ StreamEnd(f) \/ Return(f) \/ Throw(f) \/ Nested(f)
             \/ \E g \in Flow : Start(f, g)
    BY <1>4, <1>5 DEF Statement, OnCommit, StreamNext, StreamEnd, Return, Throw, Nested, Start, CanCall
  <1>6. CASE NestedTurn(f) \/ StreamTurn(f) \/ RunCallbacks(f)
    BY <1>4, <1>6 DEF NestedTurn, StreamTurn, RunCallbacks
  <1>7. CASE Transaction(f)
    <2>1. NextScope \in Scope
      BY <1>7, NextScopeType DEF Transaction
    <2>2. CASE held' = held
      BY <1>4, <1>7, <2>2 DEF Transaction, CanCall
    <2>3. CASE held' # held
      <3>1. /\ held' = [held EXCEPT ![SlotOf(on[f])] = NextScope]
            /\ Go(f, "call", "begin", NextScope)
            /\ queue' = queue
        BY <1>7, <2>3 DEF Transaction, ClaimNow
      <3>2. pc'[f] = "call" /\ job'[f].kind = "begin" /\ job'[f].scope = NextScope
        BY <1>2, <3>1 DEF Go
      <3> QED
        BY <1>1, <2>1, <3>1, <3>2, WaitingAfterClaim
    <2> QED
      BY <2>2, <2>3
  <1>8. CASE Claim(f)
    <2>1. /\ held' = [held EXCEPT ![SlotOf(on[f])] = job[f].scope]
          /\ queue' = queue
          /\ job' = job
          /\ pc'[f] = "call"
      BY <1>2, <1>8 DEF Claim
    <2>2. job[f].kind = "begin"
      BY <1>8 DEF ApartInv, HeldInv, FlowInv, Sends, Claim
    <2>3. job[f].scope \in Scope
      BY <1>2, <2>2 DEF Job, NeedsScope
    <2> QED
      BY <1>1, <2>1, <2>2, <2>3, WaitingAfterClaim
  <1>9. CASE Serialize(f)
    BY <1>1, <1>9, WaitingAfterSerialize
  <1>10. CASE Refuse(f)
    <2>1. queue' = queue
      BY <1>10 DEF Refuse
    <2>2. CASE job[f].kind = "begin"
      <3>1. held' = [held EXCEPT ![SlotOf(on[f])] = NoScope]
        BY <1>10, <2>2 DEF Refuse, Free
      <3>2. SlotOf(q) \in Connection
        BY FlowAssumption DEF SlotOf
      <3>3. held'[SlotOf(q)] \in {held[SlotOf(q)], NoScope}
        BY <1>2, <3>1, <3>2
      <3>4. on[f] = q => held'[SlotOf(q)] = NoScope
        BY <1>2, <3>1
      <3>5. \A g \in Flow : on[g] = q /\ Asks(g, {"begin"}) /\ held'[SlotOf(q)] # NoScope => Steady(g)
        BY <1>1, <3>4 DEF Asks
      <3> QED
        BY <1>1, <2>1, <3>3, <3>5, WaitingStays
    <2>3. CASE job[f].kind # "begin"
      BY <1>3, <1>10, <2>1, <2>3 DEF Refuse, Asks
    <2> QED
      BY <2>2, <2>3
  <1> QED
    BY <1>5, <1>6, <1>7, <1>8, <1>9, <1>10, NeverByHand DEF UserStep, FlowStep, ApartInv

-----------------------------------------------------------------------------
(***************************************************************************)
(* What the database takes.                                                *)
(***************************************************************************)
LEMMA QuerierFrame ==
    ASSUME HeldInv, NEW q \in Querier, QuerierStep(q)
    PROVE  /\ queue[q] # <<>> /\ Pop(q)
           /\ held' = held \/ held' = [held EXCEPT ![SlotOf(q)] = NoScope]
           /\ UNCHANGED <<scope, on, stream>>
           /\ RootsStay
           /\ \A g \in Flow \ {Caller(q)} : Steady(g)
           /\ \A d \in Connection \ {SlotOf(q)} : engine'[d] = engine[d]
  <1> USE DEF Running, Closing, Free, engineVars
  <1> DEFINE Answer == Settle(Caller(q), TRUE) \/ Settle(Caller(q), FALSE)
  <1>1. engine \in [Connection -> Session] /\ released \in [Querier -> BOOLEAN]
    BY DEF HeldInv, TypeInv, TypeOK
  <1>2. Answer =>
          /\ UNCHANGED <<scope, on>>
          /\ RootsStay
          /\ \A g \in Flow \ {Caller(q)} : Steady(g)
    BY DEF Settle, RootsStay, Steady, HeldInv, TypeInv, TypeOK
  <1>3. \A b \in BOOLEAN : Settle(Caller(q), b) => Answer
    OBVIOUS
  <1> HIDE DEF Answer
  <1>4. CASE RunStatement(q)
    <2>1. Answer
      BY <1>1, <1>3, <1>4 DEF RunStatement
    <2> QED
      BY <1>1, <1>2, <1>4, <2>1 DEF RunStatement
  <1>5. CASE RunBegin(q)
    <2>1. Answer
      BY <1>3, <1>5 DEF RunBegin
    <2> QED
      BY <1>1, <1>2, <1>5, <2>1 DEF RunBegin
  <1>6. CASE CloseNothing(q)
    <2>1. (Holds(q) \/ Head(queue[q]).kind # "commit") \in BOOLEAN
      OBVIOUS
    <2>2. Answer
      BY <1>3, <1>6, <2>1 DEF CloseNothing
    <2> QED
      BY <1>1, <1>2, <1>6, <2>2 DEF CloseNothing
  <1>7. CASE RunCommit(q) \/ CommitFails(q) \/ RunRollback(q)
    <2>1. Answer
      BY <1>3, <1>7 DEF RunCommit, CommitFails, RunRollback
    <2> QED
      BY <1>1, <1>2, <1>7, <2>1 DEF RunCommit, CommitFails, RunRollback
  <1>8. CASE RunSavepoint(q) \/ RunReleaseSavepoint(q) \/ RunRollbackTo(q)
    <2>1. Answer
      BY <1>3, <1>8 DEF RunSavepoint, RunReleaseSavepoint, RunRollbackTo
    <2> QED
      BY <1>1, <1>2, <1>8, <2>1 DEF RunSavepoint, RunReleaseSavepoint, RunRollbackTo
  <1>9. CASE RunHandBack(q)
    <2>1. Answer
      BY <1>3, <1>9 DEF RunHandBack
    <2> QED
      BY <1>2, <1>9, <2>1 DEF RunHandBack
  <1>10. CASE CommandFails(q)
    <2>1. Answer
      BY <1>3, <1>10 DEF CommandFails
    <2> QED
      BY <1>1, <1>2, <1>10, <2>1 DEF CommandFails
  <1> QED
    BY <1>4, <1>5, <1>6, <1>7, <1>8, <1>9, <1>10 DEF QuerierStep

\* Roots that stay keep every write where it was.
LEMMA InsideStays ==
    ASSUME NEW session \in Session, Inside(session), RootsStay
    PROVE  Inside(session)'
  <1>1. CASE session.tx = NoScope
    BY <1>1 DEF Inside, Own
  <1>2. CASE session.tx # NoScope
    <2>1. ASSUME NEW w \in Scope \cup {NoScope}, Root(w) = session.tx PROVE Root(w)' = session.tx
      BY <1>2, <2>1, RootStays DEF Session
    <2>2. ASSUME NEW writes \in Seq(Scope \cup {NoScope}), Own(writes, session.tx)
          PROVE  Own(writes, session.tx)'
      BY <2>1, <2>2 DEF Own
    <2>3. session.writes \in Seq(Scope \cup {NoScope}) /\ session.saves \in Seq(Savepoint)
      BY DEF Session
    <2>4. \A k \in DOMAIN session.saves : session.saves[k].writes \in Seq(Scope \cup {NoScope})
      <3>1. \A k \in DOMAIN session.saves : session.saves[k] \in Savepoint
        BY <2>3
      <3> QED
        BY <3>1 DEF Savepoint
    <2> QED
      BY <1>2, <2>2, <2>3, <2>4 DEF Inside
  <1> QED
    BY <1>1, <1>2

\* A statement that finds a transaction open was sent from inside it: no BEGIN ran since its turn.
LEMMA StatementIsInside ==
    ASSUME ApartInv, NEW q \in Querier, Running(q, {"statement"}), engine[SlotOf(q)].tx # NoScope
    PROVE  /\ Head(queue[q]).within \in Scope \cup {NoScope}
           /\ Root(Head(queue[q]).within) = engine[SlotOf(q)].tx
  <1>1. SlotOf(q) \in Connection /\ queue[q] \in Seq(Task) /\ queue[q] # <<>>
    BY FlowAssumption DEF ApartInv, HeldInv, TypeInv, TypeOK, SlotOf, Running
  <1>2. 1 \in 1..Len(queue[q]) /\ Head(queue[q]) = queue[q][1] /\ Head(queue[q]) \in Task
    BY <1>1
  <1>3. held[SlotOf(q)] = engine[SlotOf(q)].tx
    BY <1>1 DEF ApartInv, HeldInv, OpenIsHeld
  <1>4. ~ BeginsAfter(q, held[SlotOf(q)], 1)
    BY <1>1, <1>3 DEF BeginsAfter, ApartInv, HeldInv, FlowInv, NotYet
  <1>5. Root(Head(queue[q]).within) = held[SlotOf(q)]
    BY <1>2, <1>3, <1>4 DEF ApartInv, Waiting, Running
  <1> QED
    BY <1>2, <1>3, <1>5 DEF Task

LEMMA QuerierStepsKeepInside ==
    ASSUME ApartInv, NEW q \in Querier, QuerierStep(q), NEW d \in Connection
    PROVE  Inside(engine[d])'
  <1> DEFINE c == SlotOf(q)
  <1>1. engine \in [Connection -> Session] /\ c \in Connection
    BY FlowAssumption DEF ApartInv, HeldInv, TypeInv, TypeOK, SlotOf
  <1>2. scope' = scope /\ RootsStay /\ \A b \in Connection \ {c} : engine'[b] = engine[b]
    BY QuerierFrame DEF ApartInv
  <1>3. PICK session \in Session : session = engine[c]
    BY <1>1
  <1>4. Inside(session) /\ session.writes \in Seq(Scope \cup {NoScope}) /\ session.saves \in Seq(Savepoint)
    BY <1>1, <1>3 DEF ApartInv, Session
  <1> DEFINE next == engine'[c]
             tx == session.tx
  <1>a. ASSUME engine'[d] = engine[d] PROVE Inside(engine[d])'
    <2>1. PICK same \in Session : same = engine[d] /\ Inside(same)
      BY <1>1 DEF ApartInv
    <2>2. Inside(same)'
      BY <1>2, <2>1, InsideStays
    <2> QED
      BY <1>a, <2>1, <2>2 DEF Inside, Own, Root, RootOf
  <1>b. ASSUME Inside(next) PROVE Inside(engine[c])'
    BY <1>2, <1>b DEF Inside, Own, Root, RootOf
  <1> HIDE DEF c, next
  <1>5. CASE d # c
    BY <1>2, <1>5, <1>a
  <1>6. ASSUME engine' = engine PROVE Inside(engine[d])'
    BY <1>6, <1>a
  <1>7. ASSUME engine' = [engine EXCEPT ![c] = NoTransaction] PROVE Inside(next)
    BY <1>1, <1>7 DEF Inside, Own, NoTransaction, next
  <1>8. CASE d = c
    <2> USE DEF c
    <2>1. CASE RunStatement(q)
      <3>1. CASE engine[c].tx = NoScope
        BY <1>6, <2>1, <3>1 DEF RunStatement
      <3>2. CASE engine[c].tx # NoScope
        <4> DEFINE w == Head(queue[q]).within
        <4>1. w \in Scope \cup {NoScope} /\ Root(w) = tx /\ tx # NoScope
          BY <1>3, <2>1, <3>2, StatementIsInside DEF RunStatement
        <4>2. next = [session EXCEPT !.writes = Append(session.writes, w)]
          BY <1>1, <1>3, <2>1, <3>2 DEF RunStatement, next
        <4> HIDE DEF w
        <4>3. next.tx = tx /\ next.saves = session.saves /\ next.writes = Append(session.writes, w)
          BY <4>2 DEF Session
        <4>4. Own(Append(session.writes, w), tx)
          BY <1>4, <4>1 DEF Inside, Own
        <4>5. Inside(next)
          BY <1>4, <4>1, <4>3, <4>4 DEF Inside
        <4> QED
          BY <1>8, <1>b, <4>5
      <3> QED
        BY <3>1, <3>2
    <2>2. CASE RunBegin(q)
      <3>1. CASE engine' = engine
        BY <1>6, <3>1
      <3>2. CASE engine' # engine
        <4>1. PICK s : engine' = [engine EXCEPT ![c] = [NoTransaction EXCEPT !.tx = s]] /\ s = Head(queue[q]).scope
          BY <2>2, <3>2 DEF RunBegin
        <4>2. next.tx = s /\ next.writes = <<>> /\ next.saves = <<>>
          BY <1>1, <4>1 DEF NoTransaction, next
        <4>3. Inside(next)
          BY <4>2 DEF Inside, Own
        <4> QED
          BY <1>8, <1>b, <4>3
      <3> QED
        BY <3>1, <3>2
    <2>3. CASE CloseNothing(q) \/ RunHandBack(q)
      BY <1>6, <2>3 DEF CloseNothing, RunHandBack, engineVars
    <2>4. CASE RunCommit(q) \/ CommitFails(q) \/ RunRollback(q)
      <3>1. engine' = engine \/ engine' = [engine EXCEPT ![c] = NoTransaction]
        BY <2>4 DEF RunCommit, CommitFails, RunRollback
      <3> QED
        BY <1>6, <1>7, <1>8, <1>b, <3>1
    <2>8. CASE CommandFails(q)
      <3>1. engine' = engine \/ engine' = [engine EXCEPT ![c] = NoTransaction]
        BY <2>8 DEF CommandFails
      <3> QED
        BY <1>6, <1>7, <1>8, <1>b, <3>1
    <2>5. CASE RunSavepoint(q)
      <3>1. CASE engine' = engine
        BY <1>6, <3>1
      <3>2. CASE engine' # engine
        <4> DEFINE save == [depth |-> scope[Head(queue[q]).scope].depth, writes |-> engine[c].writes]
        <4>1. tx # NoScope /\ engine' = [engine EXCEPT ![c].saves = Append(@, save)]
          BY <1>3, <2>5, <3>2 DEF RunSavepoint
        <4>2. save.writes = session.writes
          BY <1>3
        <4> HIDE DEF save
        <4>3. next = [session EXCEPT !.saves = Append(session.saves, save)]
          BY <1>1, <1>3, <4>1 DEF next
        <4>4. next.tx = tx /\ next.writes = session.writes /\ next.saves = Append(session.saves, save)
          BY <4>3 DEF Session
        <4>5. ASSUME NEW k \in DOMAIN next.saves PROVE Own(next.saves[k].writes, tx)
          <5>1. next.saves[k] = save \/ (k \in DOMAIN session.saves /\ next.saves[k] = session.saves[k])
            BY <1>4, <4>4
          <5> QED
            BY <1>4, <4>2, <5>1 DEF Inside
        <4>6. Inside(next)
          BY <1>4, <4>1, <4>4, <4>5 DEF Inside
        <4> QED
          BY <1>8, <1>b, <4>6
      <3> QED
        BY <3>1, <3>2
    <2>6. CASE RunReleaseSavepoint(q)
      <3>1. CASE engine' = engine
        BY <1>6, <3>1
      <3>2. CASE engine' # engine
        <4>1. PICK i \in Named(c, Head(queue[q]).scope) : engine' = [engine EXCEPT ![c].saves = SubSeq(@, 1, i - 1)]
          BY <2>6, <3>2 DEF RunReleaseSavepoint
        <4>2. i \in DOMAIN session.saves
          BY <1>3, <4>1 DEF Named
        <4>3. next = [session EXCEPT !.saves = SubSeq(session.saves, 1, i - 1)]
          BY <1>1, <1>3, <4>1 DEF next
        <4>4. next.tx = tx /\ next.writes = session.writes /\ next.saves = SubSeq(session.saves, 1, i - 1)
          BY <4>3 DEF Session
        <4>5. \A k \in DOMAIN next.saves : k \in DOMAIN session.saves /\ next.saves[k] = session.saves[k]
          BY <1>4, <4>2, <4>4
        <4>6. tx # NoScope
          BY <1>4, <4>2 DEF Inside
        <4>7. Inside(next)
          BY <1>4, <4>4, <4>5, <4>6 DEF Inside
        <4> QED
          BY <1>8, <1>b, <4>7
      <3> QED
        BY <3>1, <3>2
    <2>7. CASE RunRollbackTo(q)
      <3>1. CASE engine' = engine
        BY <1>6, <3>1
      <3>2. CASE engine' # engine
        <4>1. PICK i \in Named(c, Head(queue[q]).scope) :
                engine' = [engine EXCEPT ![c].writes = engine[c].saves[i].writes, ![c].saves = SubSeq(@, 1, i)]
          BY <2>7, <3>2 DEF RunRollbackTo
        <4>2. i \in DOMAIN session.saves
          BY <1>3, <4>1 DEF Named
        <4>3. next = [session EXCEPT !.writes = session.saves[i].writes, !.saves = SubSeq(session.saves, 1, i)]
          BY <1>1, <1>3, <4>1 DEF next
        <4>4. next.tx = tx /\ next.writes = session.saves[i].writes /\ next.saves = SubSeq(session.saves, 1, i)
          BY <4>3 DEF Session
        <4>5. \A k \in DOMAIN next.saves : k \in DOMAIN session.saves /\ next.saves[k] = session.saves[k]
          BY <1>4, <4>2, <4>4
        <4>6. tx # NoScope
          BY <1>4, <4>2 DEF Inside
        <4>7. Inside(next)
          BY <1>4, <4>2, <4>4, <4>5, <4>6 DEF Inside
        <4> QED
          BY <1>8, <1>b, <4>7
      <3> QED
        BY <3>1, <3>2
    <2> QED
      BY <2>1, <2>2, <2>3, <2>4, <2>5, <2>6, <2>7, <2>8 DEF QuerierStep
  <1> QED
    BY <1>5, <1>8

-----------------------------------------------------------------------------
(***************************************************************************)
(* The turn of a reader.                                                   *)
(***************************************************************************)
\* A call answered from inside a transaction was made in it.
LEMMA HereIsInside ==
    ASSUME HeldInv, NEW f \in Flow, NEW q \in Querier, on[f] = q, engine[SlotOf(q)].tx # NoScope
    PROVE  /\ ScopeHere(f) # NoScope => RunsIn(f, q, engine[SlotOf(q)].tx)
           /\ ctx[f] # NoScope /\ RootOf(ctx[f]) = engine[SlotOf(q)].tx /\ SlotOf(scope[ctx[f]].querier) = SlotOf(q)
                => ScopeHere(f) = ctx[f]
  <1> DEFINE h == held[SlotOf(q)]
  <1>1. SlotOf(q) \in Connection
    BY FlowAssumption DEF SlotOf
  <1>2. h = engine[SlotOf(q)].tx
    BY <1>1 DEF HeldInv, OpenIsHeld
  <1>3. h \in Scope /\ ~scope[h].manual
    BY <1>1, <1>2 DEF HeldInv, TypeInv, TypeOK, Scopes, ScopeMade
  <1> QED
    BY <1>2, <1>3 DEF ScopeHere, CurrentTransaction, RunsIn

\* A flow that stays where it is runs in the transaction it ran in.
LEMMA RunsInStays ==
    ASSUME HeldInv, NEW f \in Flow, NEW q \in Querier, NEW tx \in Scope, RootsStay, Kept, Used(tx), RunsIn(f, q, tx),
           ctx'[f] = ctx[f]
    PROVE  RunsIn(f, q, tx)'
  <1>1. scope'[tx] = scope[tx] /\ tx # NoScope
    BY FlowAssumption DEF Kept
  <1>2. ctx[f] \in Scope \cup {NoScope}
    BY DEF HeldInv, TypeInv, TypeOK
  <1>3. CASE scope[tx].flow = f
    BY <1>1, <1>3 DEF RunsIn
  <1>4. CASE ctx[f] # NoScope /\ RootOf(ctx[f]) = tx /\ SlotOf(scope[ctx[f]].querier) = SlotOf(q)
    <2>1. scope'[ctx[f]] = scope[ctx[f]]
      BY <1>1, <1>2, <1>4 DEF RootsStay
    <2> QED
      BY <1>4, <2>1 DEF RunsIn, RootOf, SlotOf
  <1> QED
    BY <1>3, <1>4 DEF RunsIn

\* A flow's own step leaves the transaction of its reader only where it opened that one itself.
LEMMA ReaderStaysInside ==
    ASSUME HeldInv, NEW f \in Flow, NEW q \in Querier, NEW tx \in Scope, UserStep(f) \/ FlowStep(f),
           on[f] = q, tx = engine[SlotOf(q)].tx, RunsIn(f, q, tx)
    PROVE  RunsIn(f, q, tx)'
  <1>1. RootsStay /\ Kept
    BY FlowFrame
  <1>2. Used(tx) /\ tx # NoScope
    BY FlowAssumption DEF HeldInv, SlotOf
  <1>3. scope'[tx] = scope[tx]
    BY <1>1, <1>2 DEF Kept
  <1>4. ctx[f] \in Scope \cup {NoScope} /\ ctx \in [Flow -> Scope \cup {NoScope}] /\ job[f] \in Job
    BY DEF HeldInv, TypeInv, TypeOK
  <1>5. FlowInv(f)
    BY DEF HeldInv
  <1>6. ASSUME scope[tx].flow = f PROVE RunsIn(f, q, tx)'
    BY <1>3, <1>6 DEF RunsIn
  <1>7. ASSUME ctx'[f] = ctx[f] PROVE RunsIn(f, q, tx)'
    BY <1>1, <1>2, <1>7, RunsInStays
  <1> USE DEF slotVars, querierVars, flowVars
  <1>8. CASE Statement(f) \/ OnCommit(f) \/ StreamNext(f) \/ StreamEnd(f) \/ Return(f) \/ Throw(f) \/ Nested(f)
             \/ Claim(f) \/ StreamTurn(f) \/ Serialize(f) \/ RunCallbacks(f)
    BY <1>7, <1>8 DEF Statement, OnCommit, StreamNext, StreamEnd, Return, Throw, Nested,
                      Claim, StreamTurn, Serialize, RunCallbacks
  <1>9. CASE \E g \in Flow : Start(f, g)
    BY <1>4, <1>7, <1>9 DEF Start
  <1>10. CASE Transaction(f)
    <2>1. ScopeHere(f) = NoScope
      BY <1>10 DEF Transaction
    <2>2. scope[tx].flow = f
      BY <1>2, <2>1, HereIsInside DEF RunsIn
    <2> QED
      BY <1>6, <2>2
  \* Between a nested transaction and the one around it the root stays the same.
  <1>11. ASSUME NEW inner \in Scope, NEW outer \in Scope, Used(inner), scope[inner].parent = outer
         PROVE  /\ RootOf(inner) = RootOf(outer)
                /\ SlotOf(scope[inner].querier) = SlotOf(scope[outer].querier)
    BY <1>11, FlowAssumption DEF HeldInv, Scopes, ScopeMade, NestedMade
  <1>12. ASSUME NEW to \in Scope, ctx'[f] = to, scope' = scope, ctx[f] \in Scope,
                \/ Used(ctx[f]) /\ scope[ctx[f]].parent = to
                \/ Used(to) /\ scope[to].parent = ctx[f]
         PROVE  RunsIn(f, q, tx)'
    <2>1. RootOf(to) = RootOf(ctx[f]) /\ SlotOf(scope[to].querier) = SlotOf(scope[ctx[f]].querier)
      BY <1>11, <1>12
    <2>2. to # NoScope
      BY FlowAssumption
    <2> QED
      BY <1>12, <2>1, <2>2 DEF RunsIn, RootOf, SlotOf
  <1>13. CASE NestedTurn(f)
    <2>1. /\ job[f].scope \in Scope /\ Used(job[f].scope)
          /\ ctx[f] \in Scope /\ scope[job[f].scope].parent = ctx[f]
      BY <1>4, <1>5, <1>13 DEF NestedTurn, FlowInv, Sends, Job
    <2>2. ctx'[f] = job[f].scope /\ scope' = scope
      BY <1>4, <1>13 DEF NestedTurn
    <2> QED
      BY <1>12, <2>1, <2>2
  <1>14. CASE Refuse(f)
    <2>1. pc[f] = "call" /\ scope' = scope /\ Settle(f, FALSE)
      BY <1>14 DEF Refuse, Settle
    <2>2. CASE ~ Ends(job[f], FALSE)
      BY <1>7, <2>1, <2>2 DEF Settle
    <2>3. CASE Ends(job[f], FALSE)
      <3>1. ctx'[f] = scope[job[f].scope].outer
        BY <1>4, <2>1, <2>3 DEF Settle
      <3>2. CASE job[f].kind \in {"begin", "rollback"}
        <4>1. AtRoot(f) /\ job[f].scope = ctx[f]
          BY <1>5, <2>1, <3>2 DEF FlowInv, Sends, Asks
        <4>2. ctx[f] \in Scope /\ Used(ctx[f]) /\ scope[ctx[f]].flow = f /\ scope[ctx[f]].parent = NoScope
          BY <1>4, <1>5, <4>1 DEF AtRoot, FlowInv, Calls
        <4>3. RootOf(ctx[f]) = ctx[f]
          BY <4>2 DEF HeldInv, Scopes, RootMade
        <4>4. scope[tx].flow = f
          BY <4>2, <4>3 DEF RunsIn
        <4> QED
          BY <1>6, <4>4
      <3>3. CASE job[f].kind \in {"savepoint", "rollbackTo"}
        <4>1. ctx[f] # NoScope /\ job[f].scope = ctx[f] /\ scope[ctx[f]].parent # NoScope
          BY <1>5, <2>1, <3>3 DEF FlowInv, Sends, Asks
        <4>2. ctx[f] \in Scope /\ Used(ctx[f])
          BY <1>4, <1>5, <4>1 DEF FlowInv, Calls
        <4>3. scope[ctx[f]].outer = scope[ctx[f]].parent /\ scope[ctx[f]].parent \in Scope
          <5>1. scope[ctx[f]].parent \in Scope \cup {NoScope}
            BY <4>2 DEF HeldInv, TypeInv, TypeOK, ScopeRecord
          <5> QED
            BY <4>1, <4>2, <5>1 DEF HeldInv, Scopes, NestedMade
        <4>4. PICK to \in Scope : to = scope[ctx[f]].parent
          BY <4>3
        <4>5. ctx'[f] = to
          BY <3>1, <4>1, <4>3, <4>4
        <4>6. Used(ctx[f]) /\ scope[ctx[f]].parent = to
          BY <4>2, <4>4
        <4>7. scope' = scope /\ ctx[f] \in Scope
          BY <2>1, <4>2
        <4> QED
          BY <1>12, <4>5, <4>6, <4>7
      <3> QED
        BY <2>3, <3>2, <3>3 DEF Ends
    <2> QED
      BY <2>2, <2>3
  <1> QED
    BY <1>8, <1>9, <1>10, <1>13, <1>14, NeverByHand DEF UserStep, FlowStep

LEMMA FlowStepsKeepReading ==
    ASSUME ApartInv, HeldInv', NEW f \in Flow, UserStep(f) \/ FlowStep(f), NEW q \in Querier
    PROVE  Reading(q)'
  <1> DEFINE c == SlotOf(q)
             r == stream[q]
  <1>1. /\ engine' = engine
        /\ RootsStay /\ Kept
        /\ pc[f] \notin {"idle", "queued"}
        /\ \A g \in Flow \ {f} : pc[g] # "idle" => Steady(g)
        /\ on'[f] = on[f]
    BY FlowFrame DEF ApartInv
  <1>2. /\ stream \in [Querier -> Flow \cup {NoFlow}]
        /\ queue \in [Querier -> Seq(Task)]
        /\ engine[c] \in Session
        /\ pc \in [Flow -> Place]
        /\ on[f] \in Querier
        /\ c \in Connection
    BY FlowAssumption DEF ApartInv, HeldInv, TypeInv, TypeOK, SlotOf
  <1>3. Reading(q) /\ HeldInv
    BY DEF ApartInv
  <1>4. pc'[f] # "idle"
    <2> USE DEF flowVars
    <2>2. pc[f] # "idle" /\ FlowInv(f)
      BY <1>1, <1>3 DEF HeldInv
    <2>3. UserStep(f) => pc'[f] # "idle"
      BY <1>2, <2>2, NeverByHand, <1>3
      DEF UserStep, Statement, Transaction, ClaimNow, Nested, OnCommit, StreamNext, StreamEnd, Return, Throw, Start, Go
    <2>4. FlowStep(f) => pc'[f] # "idle"
      BY <1>2, <2>2, NeverByHand, <1>3
      DEF FlowStep, Claim, NestedTurn, StreamTurn, Serialize, Refuse, Settle, NextPlace, RunCallbacks, Go
    <2> QED
      BY <2>3, <2>4
  \* What every step leaves to a flow that already reads.
  <1>5. ASSUME stream'[q] = r, r # NoFlow, queue'[q] = queue[q], pc[r] # "stream" \/ pc'[r] = "stream"
        PROVE  Reading(q)'
    <2>1. PICK g \in Flow : g = r /\ on[g] = q /\ pc[g] # "idle"
      BY <1>2, <1>3, <1>5 DEF Reading
    <2>2. on'[g] = q /\ pc'[g] # "idle"
      BY <1>1, <1>4, <2>1 DEF Steady
    <2>3. ASSUME engine[c].tx # NoScope, pc'[g] # "stream"
          PROVE  RunsIn(g, q, engine[c].tx)'
      <3>1. PICK tx \in Scope : tx = engine[c].tx
        BY <1>2, <2>3 DEF Session
      <3>2. RunsIn(g, q, tx)
        BY <1>3, <1>5, <2>1, <2>3, <3>1 DEF Reading
      <3>3. RunsIn(g, q, tx)'
        <4>1. CASE g = f
          BY <1>3, <2>1, <3>1, <3>2, <4>1, ReaderStaysInside
        <4>2. CASE g # f
          <5>1. ctx'[g] = ctx[g]
            BY <1>1, <2>1, <4>2 DEF Steady
          <5>2. Used(tx)
            BY <1>2, <1>3, <2>3, <3>1 DEF HeldInv
          <5> QED
            BY <1>1, <1>3, <3>2, <5>1, <5>2, RunsInStays
        <4> QED
          BY <4>1, <4>2
      <3> QED
        BY <1>1, <3>1, <3>3 DEF RunsIn, SlotOf, RootOf
    <2>4. pc'[g] # "stream" => queue'[q] = <<>>
      BY <1>3, <1>5, <2>1 DEF Reading
    <2> QED
      BY <1>1, <1>5, <2>1, <2>2, <2>3, <2>4 DEF Reading, SlotOf
  <1>6. ASSUME stream'[q] = NoFlow PROVE Reading(q)'
    BY <1>6 DEF Reading
  <1>7. ASSUME stream' = stream, queue'[q] = queue[q], pc[f] # "stream" PROVE Reading(q)'
    <2>1. r # NoFlow => r \in Flow /\ pc[r] # "idle"
      BY <1>2, <1>3 DEF Reading
    <2>2. r # NoFlow => pc[r] # "stream" \/ pc'[r] = "stream"
      BY <1>1, <1>7, <2>1 DEF Steady
    <2> QED
      BY <1>5, <1>6, <1>7, <2>2
  <1> USE DEF slotVars, querierVars, flowVars
  <1>8. CASE Statement(f) \/ OnCommit(f) \/ Return(f) \/ Throw(f) \/ Nested(f) \/ Transaction(f)
             \/ \E g \in Flow : Start(f, g)
    BY <1>7, <1>8 DEF Statement, OnCommit, Return, Throw, Nested, Transaction, Start, CanCall
  <1>9. CASE Claim(f) \/ NestedTurn(f) \/ RunCallbacks(f) \/ Refuse(f)
    BY <1>7, <1>9 DEF Claim, NestedTurn, RunCallbacks, Refuse
  <1>10. CASE Serialize(f)
    <2>1. stream' = stream /\ pc[f] = "call" /\ stream[on[f]] = NoFlow
      BY <1>10 DEF Serialize
    <2>2. on[f] # q => queue'[q] = queue[q]
      BY <1>2, <1>10 DEF Serialize
    <2> QED
      BY <1>6, <1>7, <2>1, <2>2
  <1>11. CASE StreamNext(f)
    <2>1. queue' = queue /\ pc[f] = "run"
      BY <1>11 DEF StreamNext, CanCall
    <2>2. CASE stream' = stream
      BY <1>7, <2>1, <2>2
    <2>3. CASE stream' # stream
      <3>1. stream' = [stream EXCEPT ![on[f]] = f] /\ pc' = [pc EXCEPT ![f] = "stream"] /\ stream[on[f]] = NoFlow
        BY <1>11, <2>3 DEF StreamNext
      <3>2. CASE on[f] = q
        BY <1>1, <1>2, <3>1, <3>2 DEF Reading
      <3>3. CASE on[f] # q
        <4>1. stream'[q] = r
          BY <1>2, <3>1, <3>3
        <4>2. r # NoFlow => pc[r] # "stream" \/ pc'[r] = "stream"
          BY <1>2, <1>3, <3>1
        <4> QED
          BY <1>5, <1>6, <2>1, <4>1, <4>2
      <3> QED
        BY <3>2, <3>3
    <2> QED
      BY <2>2, <2>3
  <1>12. CASE StreamEnd(f)
    <2>1. queue' = queue /\ pc[f] = "run" /\ pc' = pc
      BY <1>12 DEF StreamEnd
    <2>2. stream'[q] \in {r, NoFlow}
      BY <1>2, <1>12 DEF StreamEnd
    <2> QED
      BY <1>5, <1>6, <2>1, <2>2
  <1>13. CASE StreamTurn(f)
    <2>1. /\ queue' = queue /\ pc' = [pc EXCEPT ![f] = "run"] /\ ctx' = ctx
          /\ queue[on[f]] = <<>> /\ ~Blocked(f)
          /\ stream'[q] \in {r, NoFlow}
      BY <1>2, <1>13 DEF StreamTurn
    <2>2. CASE r # f
      <3>1. r # NoFlow => pc[r] # "stream" \/ pc'[r] = "stream"
        BY <1>2, <2>1, <2>2
      <3> QED
        BY <1>5, <1>6, <2>1, <3>1
    <2>3. CASE r = f
      <3>1. on[f] = q /\ f # NoFlow
        BY <1>3, <2>3, FlowAssumption DEF Reading
      <3>2. ASSUME engine[c].tx # NoScope PROVE RunsIn(f, q, engine[c].tx)'
        <4>1. held[c] = engine[c].tx
          BY <1>2, <1>3, <3>2 DEF HeldInv, OpenIsHeld
        <4>2. ScopeHere(f) # NoScope
          BY <2>1, <3>1, <3>2, <4>1 DEF Blocked
        <4>3. PICK tx \in Scope : tx = engine[c].tx
          BY <1>2, <3>2 DEF Session
        <4>4. RunsIn(f, q, tx)
          BY <1>3, <3>1, <3>2, <4>2, <4>3, HereIsInside
        <4>5. RunsIn(f, q, tx)'
          BY <1>3, <3>1, <4>3, <4>4, ReaderStaysInside
        <4> QED
          BY <1>1, <4>3, <4>5 DEF RunsIn, SlotOf, RootOf
      <3> QED
        BY <1>1, <1>4, <1>6, <2>1, <2>3, <3>1, <3>2 DEF Reading, SlotOf
    <2> QED
      BY <2>2, <2>3
  <1> QED
    BY <1>3, <1>8, <1>9, <1>10, <1>11, <1>12, <1>13, NeverByHand DEF UserStep, FlowStep

\* While a flow reads, no task of its querier runs, and no other querier reaches its connection.
LEMMA QuerierStepsKeepReading ==
    ASSUME ApartInv, NothingShared, NEW p \in Querier, QuerierStep(p), NEW q \in Querier
    PROVE  Reading(q)'
  <1> DEFINE r == stream[q]
             f == Caller(p)
  <1>1. /\ queue[p] # <<>> /\ Pop(p)
        /\ UNCHANGED <<scope, on, stream>>
        /\ RootsStay
        /\ \A g \in Flow \ {f} : Steady(g)
        /\ \A d \in Connection \ {SlotOf(p)} : engine'[d] = engine[d]
    BY QuerierFrame DEF ApartInv
  <1>2. f \in Flow /\ pc[f] = "queued" /\ on[f] = p
    BY <1>1, CallerWaits DEF ApartInv
  <1>3. /\ queue \in [Querier -> Seq(Task)] /\ r \in Flow \cup {NoFlow}
        /\ SlotOf(p) \in Connection /\ SlotOf(q) \in Connection
    BY FlowAssumption DEF ApartInv, HeldInv, TypeInv, TypeOK, SlotOf
  <1>4. Reading(q)
    BY DEF ApartInv
  <1>5. CASE r = NoFlow
    BY <1>1, <1>5 DEF Reading
  <1>6. CASE r # NoFlow /\ pc[r] = "stream"
    <2>1. Steady(r)
      BY <1>1, <1>2, <1>3, <1>6
    <2> QED
      BY <1>1, <1>4, <1>6, <2>1 DEF Reading, Steady
  <1>7. CASE r # NoFlow /\ pc[r] # "stream"
    <2>1. queue[q] = <<>> /\ on[r] = q
      BY <1>4, <1>7 DEF Reading
    <2>2. p # q
      BY <1>1, <2>1
    <2>3. SlotOf(p) # SlotOf(q)
      BY <1>3, <2>2 DEF NothingShared, Shared, SlotOf
    <2>4. engine'[SlotOf(q)] = engine[SlotOf(q)] /\ queue'[q] = queue[q]
      BY <1>1, <1>3, <2>2, <2>3 DEF Pop
    <2>5. Steady(r)
      BY <1>1, <1>2, <1>3, <1>7, <2>1, <2>2
    <2> QED
      BY <1>1, <1>4, <1>7, <2>1, <2>4, <2>5 DEF Reading, Steady, RunsIn, RootOf, SlotOf
  <1> QED
    BY <1>5, <1>6, <1>7

-----------------------------------------------------------------------------
(***************************************************************************)
(* The theorems.                                                           *)
(***************************************************************************)
LEMMA InitApart ==
    ASSUME NothingByHand, Init
    PROVE  ApartInv
  <1>1. HeldInv
    BY InitHeld
  <1>2. \A q \in Querier : queue[q] = <<>> /\ stream[q] = NoFlow
    BY DEF Init
  <1>3. \A c \in Connection : engine[c].tx = NoScope /\ engine[c].writes = <<>> /\ engine[c].saves = <<>>
    BY DEF Init, NoTransaction
  <1>4. \A q \in Querier : Waiting(q) /\ Reading(q)
    BY <1>2 DEF Waiting, Reading
  <1>5. \A c \in Connection : Inside(engine[c])
    BY <1>3 DEF Inside, Own
  <1> QED
    BY <1>1, <1>4, <1>5 DEF ApartInv

LEMMA NextApart ==
    ASSUME NothingShared, ApartInv, [Next]_vars
    PROVE  ApartInv'
  <1>1. HeldInv'
    BY NextHeld DEF ApartInv
  <1>2. CASE \E f \in Flow : UserStep(f) \/ FlowStep(f)
    <2>1. PICK f \in Flow : UserStep(f) \/ FlowStep(f)
      BY <1>2
    <2>2. \A q \in Querier : Waiting(q)'
      BY <2>1, FlowStepsKeepWaiting
    <2>3. \A q \in Querier : Reading(q)'
      BY <1>1, <2>1, FlowStepsKeepReading
    <2>4. ASSUME NEW c \in Connection PROVE Inside(engine[c])'
      <3>1. engine' = engine /\ RootsStay
        BY <2>1, FlowFrame DEF ApartInv
      <3>2. PICK session \in Session : session = engine[c] /\ Inside(session)
        BY DEF ApartInv, HeldInv, TypeInv, TypeOK
      <3>3. Inside(session)'
        BY <3>1, <3>2, InsideStays
      <3> QED
        BY <3>1, <3>2, <3>3 DEF Inside, Own, Root, RootOf
    <2> QED
      BY <1>1, <2>2, <2>3, <2>4 DEF ApartInv
  <1>3. CASE \E q \in Querier : QuerierStep(q)
    <2>1. PICK p \in Querier : QuerierStep(p)
      BY <1>3
    <2>2. ASSUME NEW q \in Querier PROVE Waiting(q)'
      <3>1. /\ queue[p] # <<>> /\ Pop(p)
            /\ held' = held \/ held' = [held EXCEPT ![SlotOf(p)] = NoScope]
            /\ RootsStay
            /\ \A g \in Flow \ {Caller(p)} : Steady(g)
        BY <2>1, QuerierFrame DEF ApartInv
      <3>2. held \in [Connection -> Scope \cup {NoScope}] /\ SlotOf(q) \in Connection
        BY FlowAssumption DEF ApartInv, HeldInv, TypeInv, TypeOK, SlotOf
      <3>3. held'[SlotOf(q)] \in {held[SlotOf(q)], NoScope}
        BY <3>1, <3>2
      <3> QED
        BY <3>1, <3>3, WaitingAfterPop
    <2>3. \A q \in Querier : Reading(q)'
      BY <2>1, QuerierStepsKeepReading
    <2>4. \A c \in Connection : Inside(engine[c])'
      BY <2>1, QuerierStepsKeepInside
    <2> QED
      BY <1>1, <2>2, <2>3, <2>4 DEF ApartInv
  <1>4. CASE UNCHANGED vars
    <2>1. UNCHANGED <<held, scope, queue, stream, pc, job, ctx, on, engine>>
      BY <1>4 DEF vars, slotVars, querierVars, flowVars, engineVars
    <2> QED
      BY <1>1, <2>1
      DEF ApartInv, Waiting, BeginsAfter, Asks, Reading, RunsIn, Inside, Own, Root, RootOf, SlotOf
  <1> QED
    BY <1>2, <1>3, <1>4 DEF Next

\* Where no two queriers share a handle, a statement from outside a transaction never lands in it, the promise
\* of `serialize`: it runs before the BEGIN it was queued ahead of, or waits for the end of the transaction.
THEOREM OutsidersStayOutAlways ==
    ASSUME NothingByHand, NothingShared
    PROVE  Spec => []OutsidersStayOut
  <1>1. Init => ApartInv
    BY InitApart
  <1>2. ApartInv /\ [Next]_vars => ApartInv'
    BY NextApart
  <1>3. ApartInv => OutsidersStayOut
    BY DEF ApartInv, Inside, Own, OutsidersStayOut
  <1> QED
    BY <1>1, <1>2, <1>3, PTL DEF Spec

\* There too, a stream between two rows reads no other flow's open transaction: no transaction begins on the
\* connection while its querier reads, and the turn it waited for was its own or a free one.
THEOREM StreamsReadCommittedAlways ==
    ASSUME NothingByHand, NothingShared
    PROVE  Spec => []StreamsReadCommitted
  <1>1. Init => ApartInv
    BY InitApart
  <1>2. ApartInv /\ [Next]_vars => ApartInv'
    BY NextApart
  <1>3. ApartInv => StreamsReadCommitted
    <2> SUFFICES ASSUME ApartInv, NEW q \in Querier, stream[q] # NoFlow, pc[stream[q]] = "run",
                        engine[SlotOf(q)].tx # NoScope
                 PROVE  LET f == stream[q]
                            tx == engine[SlotOf(q)].tx
                        IN  scope[tx].flow = f \/ Root(ScopeHere(f)) = tx
      BY DEF StreamsReadCommitted
    <2>1. HeldInv /\ Reading(q)
      BY DEF ApartInv
    <2>2. PICK f \in Flow : f = stream[q] /\ on[f] = q
      BY <2>1 DEF Reading, HeldInv, TypeInv, TypeOK
    <2>3. RunsIn(f, q, engine[SlotOf(q)].tx)
      BY <2>1, <2>2 DEF Reading
    <2> QED
      BY <2>1, <2>2, <2>3, HereIsInside DEF RunsIn, Root
  <1> QED
    BY <1>1, <1>2, <1>3, PTL DEF Spec

-----------------------------------------------------------------------------
(***************************************************************************)
(* What a released querier hands back, for programs that make any call,    *)
(* `begin`, `commit`, `rollback` and `release` by hand among them, in any  *)
(* order, legal or not: a querier is released by a flow beside which the   *)
(* others on it send statements alone.                                     *)
(*                                                                         *)
(* Such a flow is the only one that moves its connection: the slot, the    *)
(* flag `hasOpenTransaction` and the database move by its tasks, one at a  *)
(* time, and agree whenever `release` looks.                               *)
(***************************************************************************)
Bystander == {"statement", "onCommit"}
ReleasesItsOwn ==
    \A plan \in Plan : \A f \in Flow : "release" \in plan.calls[f].kinds =>
        /\ f \notin plan.branches
        /\ \A g \in Flow \ {f} : plan.querier[g] = plan.querier[f] \/ g \in plan.branches =>
               plan.calls[g].kinds \subseteq Bystander

Releases(f) == "release" \in calls[f].kinds
StandsBy(f) == calls[f].kinds \subseteq Bystander

\* Whoever is on the querier of a flow that releases it, or may be started there, stands by.
Sole(f) == Releases(f) =>
    /\ pc[f] # "idle"
    /\ \A g \in Flow \ {f} : on[g] = on[f] \/ pc[g] = "idle" => StandsBy(g)

\* One that stands by awaits statements alone, and no scope is its own.
Stands(f) == StandsBy(f) => /\ pc[f] \in {"idle", "run", "call", "queued"}
                            /\ job[f].kind \in {"statement", "none"}
Made(s) == Used(s) => ~StandsBy(scope[s].flow)

\* What a flow waits for, by where it waits.
Awaits(f) ==
    /\ pc[f] = "claim" => job[f].kind = "begin"
    /\ pc[f] = "nest" => job[f].kind = "savepoint"
    /\ pc[f] = "returning" => job[f].kind = "check"
    /\ pc[f] \in {"returning", "checked"} \/ Asks(f, {"check", "handback"}) => Releases(f)
    /\ Asks(f, {"handback"}) => pc[f] = "queued" /\ released[on[f]]

\* The slot, the flag and the database agree on the connection of a flow that releases it; its BEGIN finds nothing
\* open and the slot its own, and past its check nothing is open.
HandsBack(f) ==
    LET q == on[f]
        c == SlotOf(q)
    IN  Releases(f) /\ ~Shared(c) =>
          /\ held[c] # NoScope => scope[held[c]].querier = q
          /\ engine[c].tx # NoScope => held[c] # NoScope /\ hasOpen[q] /\ ~released[q]
          /\ pc[f] = "claim" \/ Asks(f, {"begin"}) => scope[job[f].scope].querier = q
          /\ Asks(f, {"begin"}) => held[c] = job[f].scope /\ engine[c].tx = NoScope
          /\ pc[f] = "checked" => engine[c].tx = NoScope
          /\ pc[f] = "call" /\ job[f].kind = "check" => stream[q] = NoFlow

\* A connection is given back once, by the flow that released its querier.
GivenBack(q) == conn[q] # "mine" =>
    /\ released[q]
    /\ ~Shared(SlotOf(q))
    /\ \E f \in Flow : Releases(f) /\ on[f] = q

ReleaseInv ==
    /\ TypeInv
    /\ \A f \in Flow : Sole(f) /\ Stands(f) /\ Awaits(f) /\ HandsBack(f)
    /\ \A s \in Scope : Made(s)
    /\ Turns
    /\ \A q \in Querier : GivenBack(q)

-----------------------------------------------------------------------------
(***************************************************************************)
(* What a step leaves alone.                                               *)
(***************************************************************************)
\* No other querier is on a connection that is not shared.
LEMMA OneQuerier ==
    ASSUME NEW p \in Querier, NEW q \in Querier, ~Shared(SlotOf(p)), SlotOf(q) = SlotOf(p)
    PROVE  q = p
  BY DEF Shared, SlotOf

\* A flow that awaits no task puts one at the end of its querier's queue, and awaits it.
LEMMA TurnsGrow ==
    ASSUME TypeInv, Turns, NEW f \in Flow, pc[f] # "queued",
           NEW t \in Task, queue' = [queue EXCEPT ![on[f]] = Append(@, t)],
           t.flow = f, pc'[f] = "queued", on'[f] = on[f], t.kind = job'[f].kind, t.scope = job'[f].scope,
           \A g \in Flow \ {f} : Same(g)
    PROVE  Turns'
  <1> SUFFICES ASSUME NEW q \in Querier PROVE Tasks(q)'
    BY DEF Turns
  <1>1. Tasks(q) /\ queue[q] \in Seq(Task) /\ Len(queue[q]) \in Nat
    BY DEF Turns, TypeInv, TypeOK
  <1>2. \A i \in 1..Len(queue[q]) : queue[q][i].flow \in Flow \ {f}
    <2>1. \A i \in 1..Len(queue[q]) : queue[q][i] \in Task
      BY <1>1
    <2> QED
      BY <1>1, <2>1 DEF Tasks, Task
  <1>3. CASE q # on[f]
    <2>1. queue'[q] = queue[q]
      BY <1>3 DEF TypeInv, TypeOK
    <2> QED
      BY <1>1, <1>2, <2>1 DEF Tasks, Same
  <1>4. CASE q = on[f]
    <2>1. queue'[q] = Append(queue[q], t)
      BY <1>4 DEF TypeInv, TypeOK
    <2>2. /\ Len(queue'[q]) = Len(queue[q]) + 1
          /\ \A i \in 1..Len(queue[q]) : queue'[q][i] = queue[q][i]
          /\ queue'[q][Len(queue[q]) + 1] = t
      BY <1>1, <2>1, AppendProperties
    <2> SUFFICES ASSUME NEW i \in 1..Len(queue'[q])
                 PROVE  LET g == queue'[q][i].flow IN
                        /\ pc'[g] = "queued"
                        /\ on'[g] = q
                        /\ queue'[q][i].kind = job'[g].kind
                        /\ queue'[q][i].scope = job'[g].scope
                        /\ \A k \in 1..Len(queue'[q]) : queue'[q][k].flow = g => k = i
      BY DEF Tasks
    <2>3. CASE i = Len(queue[q]) + 1
      <3>1. \A k \in 1..Len(queue'[q]) : k # i => k \in 1..Len(queue[q])
        BY <1>1, <2>2, <2>3
      <3> QED
        BY <1>2, <1>4, <2>2, <2>3, <3>1
    <2>4. CASE i # Len(queue[q]) + 1
      <3>1. i \in 1..Len(queue[q]) /\ \A k \in 1..Len(queue'[q]) : k \in 1..Len(queue[q]) \/ k = Len(queue[q]) + 1
        BY <1>1, <2>2, <2>4
      <3>2. queue'[q][i] = queue[q][i] /\ Same(queue[q][i].flow)
        BY <1>2, <2>2, <3>1
      <3> DEFINE g == queue[q][i].flow
      <3>3. /\ pc[g] = "queued" /\ on[g] = q /\ queue[q][i].kind = job[g].kind /\ queue[q][i].scope = job[g].scope
            /\ \A k \in 1..Len(queue[q]) : queue[q][k].flow = g => k = i
        BY <1>1, <3>1 DEF Tasks
      <3>4. g # f
        BY <1>2, <3>1
      <3>5. ASSUME NEW k \in 1..Len(queue'[q]), queue'[q][k].flow = g PROVE k = i
        <4>1. k # Len(queue[q]) + 1
          BY <2>2, <3>4, <3>5
        <4> QED
          BY <2>2, <3>1, <3>3, <3>5, <4>1
      <3>6. queue'[q][i].flow = g /\ pc'[g] = "queued" /\ on'[g] = q
        BY <3>2, <3>3 DEF Same
      <3>7. queue'[q][i].kind = job'[g].kind /\ queue'[q][i].scope = job'[g].scope
        BY <3>2, <3>3 DEF Same
      <3> HIDE DEF g
      <3> QED
        BY <3>5, <3>6, <3>7
    <2> QED
      BY <2>3, <2>4
  <1> QED
    BY <1>3, <1>4

\* What a scope is was said as it was made.
ScopesKept == \A s \in Scope : scope[s].querier # NoQuerier => scope'[s].querier = scope[s].querier

\* The flow of a released querier keeps what it relies on through a step that does not touch its connection.
LEMMA ReleaserUntouched ==
    ASSUME TypeInv, NEW f \in Flow, Awaits(f), HandsBack(f), Same(f), Untouched(f), ScopesKept,
           released'[on[f]] = released[on[f]], stream'[on[f]] \in {stream[on[f]], NoFlow}
    PROVE  HandsBack(f)'
  <1> DEFINE q == on[f]
             c == SlotOf(q)
  <1> SUFFICES ASSUME Releases(f)', ~Shared(c)
               PROVE  /\ held'[c] # NoScope => scope'[held'[c]].querier = q
                      /\ engine'[c].tx # NoScope => held'[c] # NoScope /\ hasOpen'[q] /\ ~released'[q]
                      /\ pc'[f] = "claim" \/ Asks(f, {"begin"})' => scope'[job'[f].scope].querier = q
                      /\ Asks(f, {"begin"})' => held'[c] = job'[f].scope /\ engine'[c].tx = NoScope
                      /\ pc'[f] = "checked" => engine'[c].tx = NoScope
                      /\ pc'[f] = "call" /\ job'[f].kind = "check" => stream'[q] = NoFlow
    BY DEF HandsBack, Same, SlotOf, Shared
  <1>1. q \in Querier /\ c \in Connection /\ q # NoQuerier
    BY FlowAssumption DEF TypeInv, TypeOK, SlotOf
  <1>2. Releases(f)
    BY DEF Releases, Same
  <1>3. held[c] # NoScope => scope'[held[c]].querier = q
    BY <1>1, <1>2 DEF HandsBack, ScopesKept, TypeInv, TypeOK
  <1>4. pc[f] = "claim" \/ Asks(f, {"begin"}) => scope'[job[f].scope].querier = q
    <2>1. pc[f] = "claim" \/ Asks(f, {"begin"}) => job[f].scope \in Scope
      BY DEF Awaits, Asks, TypeInv, TypeOK, Job, NeedsScope
    <2> QED
      BY <1>1, <1>2, <2>1 DEF HandsBack, ScopesKept
  <1> QED
    BY <1>2, <1>3, <1>4 DEF HandsBack, Same, Untouched, Asks

\* A flow's step touches neither the database nor the flag, and of the rest what is its own querier's.
LEMMA FlowStepFrame ==
    ASSUME TypeInv, NEW f \in Flow, UserStep(f) \/ FlowStep(f)
    PROVE  /\ UNCHANGED <<engine, hasOpen, conn>>
           /\ ScopesKept
           /\ \A g \in Flow : calls'[g].kinds = calls[g].kinds
           /\ \A p \in Querier \ {on[f]} : released'[p] = released[p] /\ stream'[p] = stream[p]
           /\ \A c \in Connection \ {SlotOf(on[f])} : held'[c] = held[c]
  <1> USE DEF slotVars, querierVars, flowVars, engineVars
  <1>1. \A s \in Scope : scope[s] = Unused => scope[s].querier = NoQuerier
    BY DEF Unused
  <1>2. scope' = scope => ScopesKept
    BY DEF ScopesKept
  <1>3. ASSUME Fresh # {}, NEW parent, NEW manual, scope' = NewScope(f, parent, manual) PROVE ScopesKept
    <2>1. NextScope \in Scope /\ scope[NextScope].querier = NoQuerier
      BY <1>1, <1>3, NextScopeType
    <2>2. \A s \in Scope \ {NextScope} : scope'[s] = scope[s]
      BY <1>3, <2>1 DEF NewScope, TypeInv, TypeOK
    <2> QED
      BY <2>1, <2>2 DEF ScopesKept
  <1>4. ASSUME NEW kind, CanCall(f, kind), Count(f) PROVE \A g \in Flow : calls'[g].kinds = calls[g].kinds
    BY <1>4, CallKeepsKinds
  <1> USE DEF TypeInv, TypeOK
  <1>5. CASE Statement(f) \/ Return(f) \/ Throw(f) \/ RollbackTransaction(f) \/ Release(f)
    <2>1. UNCHANGED <<scope, engine, hasOpen, conn, released, stream, held>>
      BY <1>5 DEF Statement, Return, Throw, RollbackTransaction, Release
    <2>2. \A g \in Flow : calls'[g].kinds = calls[g].kinds
      BY <1>4, <1>5 DEF Statement, Return, Throw, RollbackTransaction, Release
    <2> QED
      BY <1>2, <2>1, <2>2
  <1>6. CASE Transaction(f) \/ Nested(f)
    <2>1. ScopesKept
      BY <1>3, <1>6 DEF Transaction, Nested
    <2>2. \A g \in Flow : calls'[g].kinds = calls[g].kinds
      BY <1>4, <1>6 DEF Transaction, Nested
    <2> QED
      BY <1>6, <2>1, <2>2 DEF Transaction, Nested, ClaimNow
  <1>7. CASE BeginTransaction(f)
    <2>1. ScopesKept
      BY <1>2, <1>3, <1>7 DEF BeginTransaction
    <2>2. \A g \in Flow : calls'[g].kinds = calls[g].kinds
      BY <1>4, <1>7 DEF BeginTransaction
    <2> QED
      BY <1>7, <2>1, <2>2 DEF BeginTransaction, ClaimNow
  <1>8. CASE CommitTransaction(f) \/ OnCommit(f) \/ StreamNext(f) \/ StreamEnd(f)
    <2>1. \A g \in Flow : calls'[g].kinds = calls[g].kinds
      BY <1>4, <1>8 DEF CommitTransaction, OnCommit, StreamNext, StreamEnd
    <2> QED
      BY <1>2, <1>8, <2>1 DEF CommitTransaction, OnCommit, StreamNext, StreamEnd
  <1>9. CASE \E g \in Flow : Start(f, g)
    BY <1>2, <1>9 DEF Start
  <1>10. CASE Claim(f) \/ NestedTurn(f) \/ StreamTurn(f) \/ StreamReturned(f)
    BY <1>2, <1>10 DEF Claim, NestedTurn, StreamTurn, StreamReturned
  <1>11. CASE Serialize(f) \/ Refuse(f) \/ Released(f) \/ RunCallbacks(f)
    BY <1>2, <1>11 DEF Serialize, Refuse, Settle, Free, Released, RunCallbacks
  <1> QED
    BY <1>5, <1>6, <1>7, <1>8, <1>9, <1>10, <1>11 DEF UserStep, FlowStep

\* A flow that stands by sends statements, and ends loops.
LEMMA BystanderSteps ==
    ASSUME ReleaseInv, NEW f \in Flow, StandsBy(f), UserStep(f) \/ FlowStep(f)
    PROVE  \/ Statement(f) \/ OnCommit(f) \/ StreamEnd(f) \/ Serialize(f)
           \/ Refuse(f) /\ job[f].kind \in {"statement", "none"}
  <1>1. ~InCallback(f)
    <2>1. ctx[f] \in Scope \cup {NoScope} /\ f # NoFlow
      BY FlowAssumption DEF ReleaseInv, TypeInv, TypeOK
    <2>2. \A s \in Scope : Made(s)
      BY DEF ReleaseInv
    <2> QED
      BY <2>1, <2>2 DEF InCallback, Made, Used
  <1>2. \A kind \in {"transaction", "begin", "commit", "rollback", "stream", "release"} : ~CanCall(f, kind)
    BY DEF StandsBy, Bystander, CanCall
  <1>3. pc[f] \in {"idle", "run", "call", "queued"} /\ job[f].kind \in {"statement", "none"}
    BY DEF ReleaseInv, Stands
  <1>4. CASE UserStep(f)
    BY <1>1, <1>2, <1>3, <1>4 DEF UserStep, Transaction, Nested, BeginTransaction, CommitTransaction,
       RollbackTransaction, StreamNext, Release, Return, Throw, Start
  <1>5. CASE FlowStep(f)
    BY <1>3, <1>5 DEF FlowStep, Claim, NestedTurn, StreamTurn, StreamReturned, Released, RunCallbacks
  <1> QED
    BY <1>4, <1>5

\* Another flow's step leaves a releasing flow, and its connection, as they are.
LEMMA OthersStandBy ==
    ASSUME ReleaseInv, NEW f \in Flow, NEW g \in Flow \ {f}, UserStep(g) \/ FlowStep(g), Same(f), Releases(f)
    PROVE  HandsBack(f)'
  <1> DEFINE q == on[f]
             c == SlotOf(q)
  <1> SUFFICES ASSUME ~Shared(c) PROVE HandsBack(f)'
    BY DEF HandsBack, Same, SlotOf, Shared
  <1>1. q \in Querier /\ on[g] \in Querier /\ c \in Connection
    BY FlowAssumption DEF ReleaseInv, TypeInv, TypeOK, SlotOf
  <1>2. /\ UNCHANGED <<engine, hasOpen, conn>>
        /\ ScopesKept
        /\ \A p \in Querier \ {on[g]} : released'[p] = released[p] /\ stream'[p] = stream[p]
        /\ \A d \in Connection \ {SlotOf(on[g])} : held'[d] = held[d]
    BY FlowStepFrame DEF ReleaseInv
  <1>3. held'[c] = held[c] /\ released'[q] = released[q] /\ stream'[q] \in {stream[q], NoFlow}
    <2>1. CASE on[g] # q
      <3>1. SlotOf(on[g]) # c
        BY <1>1, <2>1, OneQuerier
      <3> QED
        BY <1>1, <1>2, <2>1, <3>1
    <2>2. CASE on[g] = q
      <3>1. StandsBy(g)
        BY <2>2 DEF ReleaseInv, Sole
      <3>2. \/ Statement(g) \/ OnCommit(g) \/ StreamEnd(g) \/ Serialize(g)
            \/ Refuse(g) /\ job[g].kind \in {"statement", "none"}
        BY <3>1, BystanderSteps
      <3>3. UNCHANGED <<held, released>>
        BY <3>2 DEF Statement, OnCommit, StreamEnd, Serialize, Refuse, slotVars, querierVars
      <3>4. stream' = stream \/ stream' = [stream EXCEPT ![q] = NoFlow]
        BY <2>2, <3>2 DEF Statement, OnCommit, StreamEnd, Serialize, Refuse, querierVars
      <3> QED
        BY <1>1, <3>3, <3>4 DEF ReleaseInv, TypeInv, TypeOK
    <2> QED
      BY <2>1, <2>2
  <1>4. Untouched(f)
    BY <1>2, <1>3 DEF Untouched
  <1> QED
    BY <1>2, <1>3, <1>4, ReleaserUntouched DEF ReleaseInv

-----------------------------------------------------------------------------
(***************************************************************************)
(* The steps of the flow that releases.                                    *)
(***************************************************************************)
\* A call that leaves the slot, and `released`, as they are, and neither begins nor checks unless it did.
LEMMA ReleaserGoesOn ==
    ASSUME ReleaseInv, NEW f \in Flow, Releases(f), UserStep(f) \/ FlowStep(f),
           on'[f] = on[f], held'[SlotOf(on[f])] = held[SlotOf(on[f])], released'[on[f]] = released[on[f]],
           pc'[f] \notin {"claim", "checked"},
           Asks(f, {"begin"})' => Asks(f, {"begin"}) /\ job'[f] = job[f],
           pc'[f] = "call" /\ job'[f].kind = "check" => stream'[on[f]] = NoFlow
    PROVE  HandsBack(f)'
  <1> DEFINE q == on[f]
             c == SlotOf(q)
  <1> SUFFICES ASSUME ~Shared(c)
               PROVE  /\ held'[c] # NoScope => scope'[held'[c]].querier = q
                      /\ engine'[c].tx # NoScope => held'[c] # NoScope /\ hasOpen'[q] /\ ~released'[q]
                      /\ pc'[f] = "claim" \/ Asks(f, {"begin"})' => scope'[job'[f].scope].querier = q
                      /\ Asks(f, {"begin"})' => held'[c] = job'[f].scope /\ engine'[c].tx = NoScope
                      /\ pc'[f] = "checked" => engine'[c].tx = NoScope
                      /\ pc'[f] = "call" /\ job'[f].kind = "check" => stream'[q] = NoFlow
    BY DEF HandsBack, SlotOf, Shared
  <1>1. q \in Querier /\ c \in Connection /\ q # NoQuerier /\ held[c] \in Scope \cup {NoScope} /\ job[f] \in Job
    BY FlowAssumption DEF ReleaseInv, TypeInv, TypeOK, SlotOf
  <1>2. UNCHANGED <<engine, hasOpen>> /\ ScopesKept
    BY FlowStepFrame DEF ReleaseInv
  <1>3. HandsBack(f)
    BY DEF ReleaseInv
  <1>4. held[c] # NoScope => scope'[held[c]].querier = q
    BY <1>1, <1>2, <1>3 DEF HandsBack, ScopesKept
  <1>5. Asks(f, {"begin"}) => scope'[job[f].scope].querier = q
    <2>1. Asks(f, {"begin"}) => job[f].scope \in Scope
      BY <1>1 DEF Asks, Job, NeedsScope
    <2> QED
      BY <1>1, <1>2, <1>3, <2>1 DEF HandsBack, ScopesKept
  <1> QED
    BY <1>2, <1>3, <1>4, <1>5 DEF HandsBack

\* A transaction, or a BEGIN by hand, takes the slot where it is free, or waits for it.
LEMMA ReleaserClaims ==
    ASSUME ReleaseInv, NEW f \in Flow, Releases(f), UserStep(f), on' = on, UNCHANGED released, Fresh # {},
           NEW manual, scope' = NewScope(f, NoScope, manual), ClaimNow(f, NextScope)
    PROVE  HandsBack(f)'
  <1> DEFINE q == on[f]
             c == SlotOf(q)
  <1> SUFFICES ASSUME ~Shared(c)
               PROVE  /\ held'[c] # NoScope => scope'[held'[c]].querier = q
                      /\ engine'[c].tx # NoScope => held'[c] # NoScope /\ hasOpen'[q] /\ ~released'[q]
                      /\ pc'[f] = "claim" \/ Asks(f, {"begin"})' => scope'[job'[f].scope].querier = q
                      /\ Asks(f, {"begin"})' => held'[c] = job'[f].scope /\ engine'[c].tx = NoScope
                      /\ pc'[f] = "checked" => engine'[c].tx = NoScope
                      /\ pc'[f] = "call" /\ job'[f].kind = "check" => stream'[q] = NoFlow
    BY DEF HandsBack, SlotOf, Shared
  <1>1. q \in Querier /\ c \in Connection /\ q # NoQuerier /\ held[c] \in Scope \cup {NoScope}
    BY FlowAssumption DEF ReleaseInv, TypeInv, TypeOK, SlotOf
  <1>2. UNCHANGED <<engine, hasOpen>> /\ ScopesKept
    BY FlowStepFrame DEF ReleaseInv
  <1>3. HandsBack(f)
    BY DEF ReleaseInv
  <1>4. held[c] # NoScope => scope'[held[c]].querier = q
    BY <1>1, <1>2, <1>3 DEF HandsBack, ScopesKept
  <1>5. NextScope \in Scope /\ scope'[NextScope].querier = q
    BY NextScopeType DEF NewScope, ReleaseInv, TypeInv, TypeOK
  <1>6. /\ job'[f].kind = "begin"
        /\ job'[f].scope = NextScope
        /\ \/ pc'[f] = "call" /\ held[c] = NoScope /\ held'[c] = NextScope
           \/ pc'[f] = "claim" /\ held[c] # NoScope /\ held'[c] = held[c]
    BY <1>1 DEF ClaimNow, Go, ReleaseInv, TypeInv, TypeOK
  <1> QED
    BY <1>2, <1>3, <1>4, <1>5, <1>6 DEF HandsBack, Asks

LEMMA ReleaserSteps ==
    ASSUME ReleaseInv, NEW f \in Flow, Releases(f), UserStep(f) \/ FlowStep(f)
    PROVE  HandsBack(f)'
  <1> DEFINE q == on[f]
             c == SlotOf(q)
  <1> USE DEF slotVars, querierVars, flowVars, engineVars
  <1>1. q \in Querier /\ c \in Connection /\ q # NoQuerier /\ held[c] \in Scope \cup {NoScope} /\ job[f] \in Job
    BY FlowAssumption DEF ReleaseInv, TypeInv, TypeOK, SlotOf
  <1>t. /\ pc \in [Flow -> Place]
        /\ job \in [Flow -> Job]
        /\ stream \in [Querier -> Flow \cup {NoFlow}]
        /\ held \in [Connection -> Scope \cup {NoScope}]
        /\ released \in [Querier -> BOOLEAN]
        /\ on \in [Flow -> Querier]
    BY DEF ReleaseInv, TypeInv, TypeOK
  <1>a. Awaits(f) /\ HandsBack(f)
    BY DEF ReleaseInv
  <1>2. CASE Statement(f) \/ Nested(f) \/ CommitTransaction(f) \/ RollbackTransaction(f) \/ OnCommit(f)
    <2>1. pc[f] = "run" /\ UNCHANGED <<on, held, released, stream>>
      BY <1>2 DEF Statement, Nested, CommitTransaction, RollbackTransaction, OnCommit, CanCall
    <2>2. pc'[f] \in {"run", "nest", "call"} /\ (pc'[f] = "call" => job'[f].kind \in {"statement", "commit", "rollback"})
      <3>1. CASE Statement(f)
        BY <1>t, <3>1 DEF Statement, Go
      <3>2. CASE Nested(f)
        BY <1>t, <3>2 DEF Nested, Go
      <3>3. CASE CommitTransaction(f)
        BY <1>t, <2>1, <3>3 DEF CommitTransaction, Go
      <3>4. CASE RollbackTransaction(f) \/ OnCommit(f)
        BY <1>t, <2>1, <3>4 DEF RollbackTransaction, OnCommit, Go
      <3> QED
        BY <1>2, <3>1, <3>2, <3>3, <3>4
    <2> QED
      BY <2>1, <2>2, ReleaserGoesOn DEF Asks
  <1>3. CASE Return(f) \/ Throw(f) \/ Release(f)
    <2>1. UNCHANGED <<on, held, released, stream>>
      BY <1>3 DEF Return, Throw, Release
    <2>2. pc'[f] \in {"call", "returning"} /\ job'[f].kind # "begin" /\ (pc'[f] = "call" /\ job'[f].kind = "check" => stream[q] = NoFlow)
      BY <1>3, <1>t DEF Return, Throw, Release, Go
    <2> QED
      BY <2>1, <2>2, ReleaserGoesOn DEF Asks
  <1>4. CASE StreamNext(f) \/ StreamTurn(f) \/ StreamEnd(f) \/ RunCallbacks(f)
    <2>1. UNCHANGED <<on, held, released>>
      BY <1>4 DEF StreamNext, StreamTurn, StreamEnd, RunCallbacks
    <2>2. pc'[f] \in {"run", "stream"}
      BY <1>4, <1>t DEF StreamNext, StreamTurn, StreamEnd, RunCallbacks, CanCall, Go
    <2> QED
      BY <2>1, <2>2, ReleaserGoesOn DEF Asks
  <1>5. CASE \E g \in Flow : Start(f, g)
    <2>1. PICK g \in Flow : Start(f, g)
      BY <1>5
    <2>2. UNCHANGED <<held, released, stream, job>> /\ g # f /\ pc'[f] = "run" /\ on'[f] = on[f]
      BY <1>t, <2>1 DEF Start
    <2> QED
      BY <2>2, ReleaserGoesOn DEF Asks
  <1>6. CASE NestedTurn(f) \/ StreamReturned(f) \/ Serialize(f)
    <2>1. UNCHANGED <<on, held, released, job>>
      BY <1>6 DEF NestedTurn, StreamReturned, Serialize
    <2>2. \/ pc'[f] = "call" /\ job[f].kind = "savepoint"
          \/ pc'[f] = "call" /\ job[f].kind = "check" /\ stream'[q] = NoFlow
          \/ pc'[f] = "queued" /\ pc[f] = "call"
      BY <1>1, <1>6, <1>t, <1>a DEF NestedTurn, StreamReturned, Serialize, Awaits
    <2> QED
      BY <2>1, <2>2, ReleaserGoesOn DEF Asks
  <1>7. CASE Transaction(f) \/ BeginTransaction(f)
    <2>1. CASE BeginTransaction(f) /\ ScopeHere(f) # NoScope
      BY <2>1, ReleaserGoesOn DEF BeginTransaction, CanCall, Asks
    <2>2. CASE ~(BeginTransaction(f) /\ ScopeHere(f) # NoScope)
      <3>1. /\ UNCHANGED <<on, released>>
            /\ Fresh # {}
            /\ \E manual \in BOOLEAN : scope' = NewScope(f, NoScope, manual)
            /\ ClaimNow(f, NextScope)
        BY <1>7, <2>2 DEF Transaction, BeginTransaction
      <3> QED
        BY <1>7, <3>1, ReleaserClaims DEF UserStep
    <2> QED
      BY <2>1, <2>2
  <1>8. SUFFICES ASSUME ~Shared(c), Claim(f) \/ Refuse(f) \/ Released(f), on' = on
                 PROVE  /\ held'[c] # NoScope => scope'[held'[c]].querier = q
                        /\ engine'[c].tx # NoScope => held'[c] # NoScope /\ hasOpen'[q] /\ ~released'[q]
                        /\ pc'[f] = "claim" \/ Asks(f, {"begin"})' => scope'[job'[f].scope].querier = q
                        /\ Asks(f, {"begin"})' => held'[c] = job'[f].scope /\ engine'[c].tx = NoScope
                        /\ pc'[f] = "checked" => engine'[c].tx = NoScope
                        /\ pc'[f] = "call" /\ job'[f].kind = "check" => stream'[q] = NoFlow
    <2>1. Claim(f) \/ Refuse(f) \/ Released(f) => on' = on
      BY DEF Claim, Refuse, Settle, Released
    <2>2. Claim(f) \/ Refuse(f) \/ Released(f) \/ HandsBack(f)'
      BY <1>2, <1>3, <1>4, <1>5, <1>6, <1>7 DEF UserStep, FlowStep
    <2> QED
      BY <1>8, <2>1, <2>2 DEF HandsBack, SlotOf, Shared
  <1>9. CASE Claim(f)
    <2>1. /\ held[c] = NoScope
          /\ held'[c] = job[f].scope
          /\ pc[f] = "claim"
          /\ pc'[f] = "call"
          /\ UNCHANGED <<job, scope, engine, hasOpen, released>>
      BY <1>1, <1>9, <1>t DEF Claim
    <2> QED
      BY <1>8, <1>a, <2>1 DEF HandsBack, Awaits, Asks
  <1>10. CASE Refuse(f)
    <2>1. pc[f] = "call" /\ stream[q] # NoFlow /\ UNCHANGED <<scope, engine, hasOpen, released>>
      BY <1>10 DEF Refuse, Settle
    <2>2. job[f].kind # "check"
      BY <1>8, <1>a, <2>1 DEF HandsBack
    <2>3. pc'[f] \in {"callbacks", "abort", "run"}
      BY <1>10, <1>t, <2>2 DEF Refuse, Settle, NextPlace
    <2>4. IF job[f].kind = "begin" THEN held'[c] = NoScope ELSE held'[c] = held[c]
      BY <1>1, <1>10, <1>t DEF Refuse, Free
    <2> QED
      BY <1>8, <1>a, <2>1, <2>3, <2>4 DEF HandsBack, Asks
  <1>11. CASE Released(f)
    <2>1. pc[f] = "checked" /\ pc'[f] = "queued" /\ job'[f].kind = "handback" /\ UNCHANGED <<held, scope, engine, hasOpen>>
      BY <1>11, <1>t DEF Released, Go
    <2> QED
      BY <1>8, <1>a, <2>1 DEF HandsBack, Asks
  <1> QED
    BY <1>8, <1>9, <1>10, <1>11

-----------------------------------------------------------------------------
(***************************************************************************)
(* Every flow's step keeps the invariant.                                  *)
(***************************************************************************)
LEMMA FlowAwake ==
    ASSUME TypeInv, NEW f \in Flow, UserStep(f) \/ FlowStep(f)
    PROVE  /\ pc[f] \notin {"idle", "queued"}
           /\ pc'[f] # "idle"
           /\ \A q \in Querier : released[q] => released'[q]
  <1> USE DEF slotVars, querierVars, flowVars, engineVars
  <1>t. pc \in [Flow -> Place] /\ released \in [Querier -> BOOLEAN]
    BY DEF TypeInv, TypeOK
  <1>1. CASE Statement(f) \/ Transaction(f) \/ Nested(f) \/ BeginTransaction(f) \/ CommitTransaction(f)
    BY <1>t, <1>1 DEF Statement, Transaction, Nested, BeginTransaction, CommitTransaction, CanCall, Go, ClaimNow
  <1>2. CASE RollbackTransaction(f) \/ OnCommit(f) \/ StreamNext(f) \/ StreamEnd(f) \/ Release(f)
    BY <1>t, <1>2 DEF RollbackTransaction, OnCommit, StreamNext, StreamEnd, Release, CanCall, Go
  <1>3. CASE Return(f) \/ Throw(f) \/ \E g \in Flow : Start(f, g)
    BY <1>t, <1>3 DEF Return, Throw, Start, Go
  <1>4. CASE Claim(f) \/ NestedTurn(f) \/ StreamTurn(f) \/ StreamReturned(f) \/ Serialize(f)
    BY <1>t, <1>4 DEF Claim, NestedTurn, StreamTurn, StreamReturned, Serialize
  <1>5. CASE Refuse(f) \/ Released(f) \/ RunCallbacks(f)
    BY <1>t, <1>5 DEF Refuse, Settle, NextPlace, Released, RunCallbacks, Go
  <1> QED
    BY <1>1, <1>2, <1>3, <1>4, <1>5 DEF UserStep, FlowStep

LEMMA OthersSame ==
    ASSUME TypeInv, NEW f \in Flow, UserStep(f) \/ FlowStep(f), NEW g \in Flow \ {f}, ~Start(f, g)
    PROVE  Same(g)
  <1> USE DEF slotVars, querierVars, flowVars, engineVars, TypeInv, TypeOK
  <1>k. calls'[g].kinds = calls[g].kinds
    BY FlowStepFrame
  <1>1. CASE Statement(f) \/ Transaction(f) \/ Nested(f) \/ BeginTransaction(f) \/ CommitTransaction(f)
    BY <1>k, <1>1 DEF Statement, Transaction, Nested, BeginTransaction, CommitTransaction, Go, ClaimNow, Same
  <1>2. CASE RollbackTransaction(f) \/ OnCommit(f) \/ StreamNext(f) \/ StreamEnd(f) \/ Release(f)
    BY <1>k, <1>2 DEF RollbackTransaction, OnCommit, StreamNext, StreamEnd, Release, Go, Same
  <1>3. CASE Return(f) \/ Throw(f) \/ \E h \in Flow : Start(f, h)
    BY <1>k, <1>3 DEF Return, Throw, Start, Go, Same
  <1>4. CASE Claim(f) \/ NestedTurn(f) \/ StreamTurn(f) \/ StreamReturned(f) \/ Serialize(f)
    BY <1>k, <1>4 DEF Claim, NestedTurn, StreamTurn, StreamReturned, Serialize, Same
  <1>5. CASE Refuse(f) \/ Released(f) \/ RunCallbacks(f)
    BY <1>k, <1>5 DEF Refuse, Settle, Released, RunCallbacks, Go, Same
  <1> QED
    BY <1>1, <1>2, <1>3, <1>4, <1>5 DEF UserStep, FlowStep

\* What the flow that steps waits for next.
LEMMA StepAwaits ==
    ASSUME ReleaseInv, NEW f \in Flow, UserStep(f) \/ FlowStep(f)
    PROVE  Awaits(f)'
  <1> USE DEF slotVars, querierVars, flowVars, engineVars
  <1>t. /\ pc \in [Flow -> Place]
        /\ job \in [Flow -> Job]
        /\ released \in [Querier -> BOOLEAN]
        /\ on[f] \in Querier
    BY DEF ReleaseInv, TypeInv, TypeOK
  <1>a. Awaits(f)
    BY DEF ReleaseInv
  <1>r. Releases(f)' = Releases(f)
    <2>1. calls'[f].kinds = calls[f].kinds
      BY FlowStepFrame DEF ReleaseInv
    <2> QED
      BY <2>1 DEF Releases
  <1>b. ASSUME ClaimNow(f, NextScope) PROVE pc'[f] \in {"call", "claim"} /\ job'[f].kind = "begin"
    BY <1>t, <1>b DEF ClaimNow, Go
  <1>1. CASE Statement(f) \/ Transaction(f) \/ Nested(f)
    <2>1. \/ pc'[f] = "call" /\ job'[f].kind = "statement"
          \/ pc'[f] \in {"call", "claim"} /\ job'[f].kind = "begin"
          \/ pc'[f] = "nest" /\ job'[f].kind = "savepoint"
      <3>1. CASE Statement(f)
        BY <1>t, <3>1 DEF Statement, Go
      <3>2. CASE Transaction(f)
        BY <1>b, <3>2 DEF Transaction
      <3>3. CASE Nested(f)
        BY <1>t, <3>3 DEF Nested, Go
      <3> QED
        BY <1>1, <3>1, <3>2, <3>3
    <2> QED
      BY <2>1 DEF Awaits, Asks
  <1>2. CASE BeginTransaction(f)
    <2>1. \/ pc'[f] = "run"
          \/ pc'[f] \in {"call", "claim"} /\ job'[f].kind = "begin"
      BY <1>b, <1>2 DEF BeginTransaction, CanCall
    <2> QED
      BY <2>1 DEF Awaits, Asks
  <1>3. CASE CommitTransaction(f) \/ RollbackTransaction(f) \/ OnCommit(f)
    <2>1. pc'[f] = "run" \/ (pc'[f] = "call" /\ job'[f].kind \in {"commit", "rollback"})
      <3>1. CASE CommitTransaction(f)
        BY <1>t, <3>1 DEF CommitTransaction, Go, CanCall
      <3>2. CASE RollbackTransaction(f) \/ OnCommit(f)
        BY <1>t, <3>2 DEF RollbackTransaction, OnCommit, Go, CanCall
      <3> QED
        BY <1>3, <3>1, <3>2
    <2> QED
      BY <2>1 DEF Awaits, Asks
  <1>4. CASE StreamNext(f) \/ StreamTurn(f) \/ StreamEnd(f) \/ RunCallbacks(f) \/ \E g \in Flow : Start(f, g)
    <2>1. pc'[f] \in {"run", "stream"}
      BY <1>4, <1>t DEF StreamNext, StreamTurn, StreamEnd, RunCallbacks, Start, CanCall, Go
    <2> QED
      BY <2>1 DEF Awaits, Asks
  <1>5. CASE Release(f)
    <2>1. Releases(f) /\ pc'[f] \in {"call", "returning"} /\ job'[f].kind = "check"
      BY <1>t, <1>5 DEF Release, CanCall, Go, Releases
    <2> QED
      BY <1>r, <2>1 DEF Awaits, Asks
  <1>6. CASE Return(f) \/ Throw(f)
    BY <1>t, <1>6 DEF Return, Throw, Go, Awaits, Asks
  <1>7. CASE Claim(f) \/ NestedTurn(f) \/ StreamReturned(f) \/ Serialize(f)
    <2>1. job' = job /\ on' = on /\ released' = released
      BY <1>7 DEF Claim, NestedTurn, StreamReturned, Serialize
    <2>2. \/ pc'[f] = "call" /\ job[f].kind \in {"begin", "savepoint"}
          \/ pc'[f] = "call" /\ job[f].kind = "check" /\ Releases(f)
          \/ pc'[f] = "queued" /\ pc[f] = "call"
      BY <1>t, <1>a, <1>7 DEF Claim, NestedTurn, StreamReturned, Serialize, Awaits
    <2> QED
      BY <1>a, <1>r, <2>1, <2>2 DEF Awaits, Asks
  <1>8. CASE Refuse(f)
    <2>1. pc[f] = "call" /\ pc'[f] \in {"checked", "callbacks", "abort", "run"} /\ (pc'[f] = "checked" => job[f].kind = "check")
      BY <1>t, <1>8 DEF Refuse, Settle, NextPlace
    <2> QED
      BY <1>a, <1>r, <2>1 DEF Awaits, Asks
  <1>9. CASE Released(f)
    <2>1. /\ Releases(f)
          /\ pc'[f] = "queued"
          /\ job'[f].kind = "handback"
          /\ on' = on
          /\ released'[on[f]]
      BY <1>t, <1>a, <1>9 DEF Released, Go, Awaits
    <2> QED
      BY <1>r, <2>1 DEF Awaits, Asks
  <1> QED
    BY <1>1, <1>2, <1>3, <1>4, <1>5, <1>6, <1>7, <1>8, <1>9 DEF UserStep, FlowStep

\* A flow that stands by goes on to.
LEMMA StepStands ==
    ASSUME ReleaseInv, NEW f \in Flow, UserStep(f) \/ FlowStep(f)
    PROVE  Stands(f)'
  <1>t. pc \in [Flow -> Place] /\ job \in [Flow -> Job]
    BY DEF ReleaseInv, TypeInv, TypeOK
  <1>1. StandsBy(f)' = StandsBy(f)
    <2>1. calls'[f].kinds = calls[f].kinds
      BY FlowStepFrame DEF ReleaseInv
    <2> QED
      BY <2>1 DEF StandsBy
  <1> SUFFICES ASSUME StandsBy(f) PROVE pc'[f] \in {"idle", "run", "call", "queued"} /\ job'[f].kind \in {"statement", "none"}
    BY <1>1 DEF Stands
  <1>2. pc[f] \in {"idle", "run", "call", "queued"} /\ job[f].kind \in {"statement", "none"}
    BY DEF ReleaseInv, Stands
  <1>3. \/ Statement(f) \/ OnCommit(f) \/ StreamEnd(f) \/ Serialize(f)
        \/ Refuse(f) /\ job[f].kind \in {"statement", "none"}
    BY BystanderSteps
  <1>4. CASE Statement(f)
    BY <1>t, <1>4 DEF Statement, Go
  <1>5. CASE OnCommit(f) \/ StreamEnd(f) \/ Serialize(f)
    BY <1>t, <1>2, <1>5 DEF OnCommit, StreamEnd, Serialize, flowVars
  <1>6. CASE Refuse(f)
    BY <1>t, <1>2, <1>6 DEF Refuse, Settle, NextPlace, Idle
  <1> QED
    BY <1>3, <1>4, <1>5, <1>6

\* A scope is made by a flow that does not stand by.
LEMMA StepMakes ==
    ASSUME ReleaseInv, NEW f \in Flow, UserStep(f) \/ FlowStep(f)
    PROVE  \A s \in Scope : Made(s)'
  <1> USE DEF slotVars, querierVars, flowVars, engineVars
  <1>1. \A s \in Scope : Made(s) /\ scope[s].flow \in Flow \cup {NoFlow}
    BY DEF ReleaseInv, TypeInv, TypeOK, ScopeRecord
  <1>2. \A g \in Flow : StandsBy(g)' = StandsBy(g)
    <2>1. \A g \in Flow : calls'[g].kinds = calls[g].kinds
      BY FlowStepFrame DEF ReleaseInv
    <2> QED
      BY <2>1 DEF StandsBy
  <1>3. CASE scope' = scope
    BY <1>1, <1>2, <1>3 DEF Made, Used
  <1>4. CASE scope' # scope
    <2>1. Transaction(f) \/ Nested(f) \/ BeginTransaction(f)
      BY <1>4 DEF UserStep, FlowStep, Statement, CommitTransaction, RollbackTransaction, OnCommit, StreamNext, StreamEnd, Release,
         Return, Throw, Start, Claim, NestedTurn, StreamTurn, StreamReturned, Serialize, Refuse, Settle, Released, RunCallbacks
    <2>2. Fresh # {} /\ (\E parent, manual : scope' = NewScope(f, parent, manual)) /\ ~StandsBy(f)
      <3>1. CASE Transaction(f)
        BY <3>1 DEF Transaction, CanCall, StandsBy, Bystander
      <3>2. CASE Nested(f)
        BY <3>2 DEF Nested, CanCall, StandsBy, Bystander
      <3>3. CASE BeginTransaction(f)
        BY <1>4, <3>3 DEF BeginTransaction, CanCall, StandsBy, Bystander
      <3> QED
        BY <2>1, <3>1, <3>2, <3>3
    <2>3. PICK parent, manual : scope' = NewScope(f, parent, manual)
      BY <2>2
    <2>4. /\ \A s \in Scope \ {NextScope} : scope'[s] = scope[s]
          /\ NextScope \in Scope => scope'[NextScope].flow = f
      BY <2>3 DEF NewScope, ReleaseInv, TypeInv, TypeOK
    <2> QED
      BY <1>1, <1>2, <2>2, <2>4 DEF Made, Used
  <1> QED
    BY <1>3, <1>4

\* What a flow sends waits at the end of its querier's queue.
LEMMA StepTurns ==
    ASSUME ReleaseInv, NEW f \in Flow, UserStep(f) \/ FlowStep(f), \A g \in Flow : ~Start(f, g)
    PROVE  Turns' /\ on' = on
  <1> USE DEF slotVars, querierVars, flowVars, engineVars
  <1>1. TypeInv /\ Turns /\ TypeOK
    BY DEF ReleaseInv, TypeInv
  <1>2. pc[f] # "queued" /\ \A g \in Flow \ {f} : Same(g)
    BY <1>1, FlowAwake, OthersSame
  <1>3. on' = on
    BY DEF UserStep, FlowStep, Statement, Transaction, Nested, BeginTransaction, CommitTransaction, RollbackTransaction,
       OnCommit, StreamNext, StreamEnd, Release, Return, Throw, Claim, NestedTurn, StreamTurn, StreamReturned,
       Serialize, Refuse, Settle, Released, RunCallbacks
  <1>4. CASE Serialize(f)
    <2> DEFINE t == [flow |-> f, kind |-> job[f].kind, scope |-> job[f].scope, within |-> ScopeHere(f)]
    <2>1. t \in Task
      BY <1>1, ScopeHereType DEF TypeOK, Job, Task
    <2>2. queue' = [queue EXCEPT ![on[f]] = Append(@, t)] /\ pc'[f] = "queued" /\ job' = job
      BY <1>1, <1>4 DEF Serialize, TypeOK
    <2>3. t.flow = f /\ t.kind = job'[f].kind /\ t.scope = job'[f].scope
      BY <2>2
    <2> HIDE DEF t
    <2> QED
      BY <1>1, <1>2, <1>3, <2>1, <2>2, <2>3, TurnsGrow
  <1>5. CASE Released(f)
    <2> DEFINE t == [flow |-> f, kind |-> "handback", scope |-> NoScope, within |-> NoScope]
    <2>1. t \in Task
      BY DEF Task, JobKind, NeedsScope
    <2>2. /\ queue' = [queue EXCEPT ![on[f]] = Append(@, t)]
          /\ pc'[f] = "queued"
          /\ job'[f] = [kind |-> "handback", scope |-> NoScope]
      BY <1>1, <1>5 DEF Released, Go, TypeOK
    <2>3. t.flow = f /\ t.kind = job'[f].kind /\ t.scope = job'[f].scope
      BY <2>2
    <2> HIDE DEF t
    <2> QED
      BY <1>1, <1>2, <1>3, <2>1, <2>2, <2>3, TurnsGrow
  <1>6. CASE ~Serialize(f) /\ ~Released(f)
    <2>1. queue' = queue
      BY <1>6 DEF UserStep, FlowStep, Statement, Transaction, Nested, BeginTransaction, CommitTransaction, RollbackTransaction,
         OnCommit, StreamNext, StreamEnd, Release, Return, Throw, Claim, NestedTurn, StreamTurn, StreamReturned,
         Refuse, RunCallbacks
    <2> QED
      BY <1>1, <1>2, <1>3, <2>1, TurnsStay
  <1> QED
    BY <1>4, <1>5, <1>6

\* Who stands by, and what was given back, is as before wherever the flows that run are on the same queriers.
LEMMA SoleStays ==
    ASSUME ReleaseInv, on' = on, \A g \in Flow : calls'[g].kinds = calls[g].kinds,
           \A g \in Flow : pc'[g] = "idle" <=> pc[g] = "idle"
    PROVE  \A g \in Flow : Sole(g)'
  BY DEF ReleaseInv, Sole, Releases, StandsBy

\* A callback starts a flow that stands by wherever one releases: it changes nothing for that one.
LEMMA StartKeepsRelease ==
    ASSUME ReleaseInv, TypeInv', NEW f \in Flow, NEW h \in Flow, Start(f, h)
    PROVE  ReleaseInv'
  <1>1. /\ pc[f] = "run"
        /\ h # f
        /\ pc[h] = "idle"
        /\ pc'[h] = "run"
        /\ job' = job
        /\ \A g \in Flow \ {h} : Same(g)
        /\ UNCHANGED <<calls, conn, released, queue, scope, stream, held, hasOpen, engine>>
    BY DEF Start, slotVars, querierVars, engineVars, Same, ReleaseInv, TypeInv, TypeOK
  <1>2. \A g \in Flow : Releases(g)' = Releases(g) /\ StandsBy(g)' = StandsBy(g)
    BY <1>1 DEF Releases, StandsBy
  <1>3. ~Releases(h)
    BY <1>1 DEF ReleaseInv, Sole
  <1>4. ASSUME NEW g \in Flow PROVE Sole(g)'
    <2>1. CASE g = h
      BY <1>2, <1>3, <2>1 DEF Sole
    <2>2. CASE g # h
      BY <1>1, <1>2, <2>2 DEF ReleaseInv, Sole, Same
    <2> QED
      BY <2>1, <2>2
  <1>5. ASSUME NEW g \in Flow PROVE Stands(g)' /\ Awaits(g)'
    <2>1. Stands(g) /\ Awaits(g)
      BY DEF ReleaseInv
    <2>2. CASE g = h
      BY <1>1, <1>2, <2>1, <2>2 DEF Stands, Awaits, Asks
    <2>3. CASE g # h
      BY <1>1, <1>2, <2>1, <2>3 DEF Stands, Awaits, Asks, Same
    <2> QED
      BY <2>2, <2>3
  <1>6. ASSUME NEW g \in Flow PROVE HandsBack(g)'
    <2>1. CASE g = h
      BY <1>2, <1>3, <2>1 DEF HandsBack
    <2>2. CASE g # h
      <3>1. Untouched(g) /\ ScopesKept /\ stream'[on[g]] \in {stream[on[g]], NoFlow}
        BY <1>1 DEF Untouched, ScopesKept
      <3> QED
        BY <1>1, <2>2, <3>1, ReleaserUntouched DEF ReleaseInv
    <2> QED
      BY <2>1, <2>2
  <1>7. \A s \in Scope : Made(s)'
    BY <1>1 DEF ReleaseInv, Made, Used, StandsBy
  <1>8. Turns'
    BY <1>1, TurnsStay DEF ReleaseInv
  <1>9. ASSUME NEW q \in Querier PROVE GivenBack(q)'
    BY <1>1, <1>2, <1>3 DEF ReleaseInv, GivenBack, Same
  <1> QED
    BY <1>4, <1>5, <1>6, <1>7, <1>8, <1>9 DEF ReleaseInv

LEMMA FlowStepsKeepRelease ==
    ASSUME ReleaseInv, TypeInv', NEW f \in Flow, UserStep(f) \/ FlowStep(f)
    PROVE  ReleaseInv'
  <1> SUFFICES ASSUME \A h \in Flow : ~Start(f, h) PROVE ReleaseInv'
    BY StartKeepsRelease
  <1>0. TypeInv
    BY DEF ReleaseInv
  <1>1. /\ Turns'
        /\ on' = on
        /\ \A g \in Flow \ {f} : Same(g)
        /\ pc[f] # "idle"
        /\ pc'[f] # "idle"
        /\ \A q \in Querier : released[q] => released'[q]
        /\ conn' = conn
        /\ \A g \in Flow : calls'[g].kinds = calls[g].kinds
    BY <1>0, StepTurns, OthersSame, FlowAwake, FlowStepFrame
  <1>2. \A g \in Flow : Sole(g)'
    BY <1>1, SoleStays DEF Same
  <1>3. ASSUME NEW g \in Flow PROVE Stands(g)' /\ Awaits(g)'
    <2>1. Stands(g) /\ Awaits(g) /\ on[g] \in Querier
      BY <1>0 DEF ReleaseInv, TypeInv, TypeOK
    <2>2. CASE g # f
      BY <1>1, <2>1, <2>2 DEF Stands, Awaits, Asks, Same, StandsBy, Releases
    <2> QED
      BY <2>2, StepStands, StepAwaits
  <1>4. ASSUME NEW g \in Flow PROVE HandsBack(g)'
    <2>1. Releases(g)' = Releases(g)
      BY <1>1 DEF Releases
    <2>2. CASE g = f /\ Releases(g)
      BY <2>2, ReleaserSteps
    <2>3. CASE g # f /\ Releases(g)
      BY <1>1, <2>3, OthersStandBy
    <2> QED
      BY <2>1, <2>2, <2>3 DEF HandsBack
  <1>5. ASSUME NEW q \in Querier PROVE GivenBack(q)'
    BY <1>1 DEF ReleaseInv, GivenBack, Releases
  <1> QED
    BY <1>1, <1>2, <1>3, <1>4, <1>5, StepMakes DEF ReleaseInv

-----------------------------------------------------------------------------
(***************************************************************************)
(* And so does every task.                                                 *)
(***************************************************************************)
LEMMA TaskFrame ==
    ASSUME TypeInv, NEW p \in Querier, QuerierStep(p)
    PROVE  /\ queue[p] # <<>>
           /\ Pop(p)
           /\ UNCHANGED <<scope, on, calls, released, stream>>
           /\ \E ok \in BOOLEAN : Settle(Caller(p), ok)
           /\ \A g \in Flow \ {Caller(p)} : Same(g)
           /\ \A c \in Connection \ {SlotOf(p)} : held'[c] = held[c] /\ engine'[c] = engine[c]
           /\ \A q \in Querier \ {p} : hasOpen'[q] = hasOpen[q] /\ conn'[q] = conn[q]
  <1>1. queue[p] # <<>> /\ Pop(p) /\ UNCHANGED <<released, stream>>
    BY DEF QuerierStep, RunStatement, RunBegin, CloseNothing, RunCommit, CommitFails, RunRollback, RunSavepoint,
       RunReleaseSavepoint, RunRollbackTo, RunHandBack, CommandFails, Closing, Running
  <1>2. \E ok \in BOOLEAN : Settle(Caller(p), ok)
    <2>1. Holds(p) \in BOOLEAN
      BY DEF Holds
    <2>3. CASE CloseNothing(p)
      <3>1. /\ Settle(Caller(p), Holds(p) \/ Head(queue[p]).kind # "commit")
            /\ (Holds(p) \/ Head(queue[p]).kind # "commit") \in BOOLEAN
        BY <2>1, <2>3 DEF CloseNothing
      <3> QED
        BY <3>1
    <2>4. CASE ~CloseNothing(p)
      <3>1. Settle(Caller(p), TRUE) \/ Settle(Caller(p), FALSE)
        BY <2>4 DEF QuerierStep, RunStatement, CommandFails, RunBegin, RunCommit, CommitFails, RunRollback,
           RunSavepoint, RunReleaseSavepoint, RunRollbackTo, RunHandBack
      <3> QED
        BY <3>1
    <2> QED
      BY <2>3, <2>4
  <1>3. UNCHANGED <<scope, on, calls>> /\ \A g \in Flow \ {Caller(p)} : Same(g)
    BY <1>2 DEF Settle, Same, TypeInv, TypeOK
  <1>4. /\ \A c \in Connection \ {SlotOf(p)} : held'[c] = held[c] /\ engine'[c] = engine[c]
        /\ \A q \in Querier \ {p} : hasOpen'[q] = hasOpen[q] /\ conn'[q] = conn[q]
    <2> USE DEF TypeInv, TypeOK, engineVars, Free
    <2>1. CASE RunStatement(p) \/ RunHandBack(p)
      BY <2>1 DEF RunStatement, RunHandBack
    <2>2. CASE RunBegin(p)
      BY <2>2 DEF RunBegin
    <2>3. CASE CloseNothing(p) \/ RunCommit(p)
      BY <2>3 DEF CloseNothing, RunCommit, Closing
    <2>4. CASE CommitFails(p) \/ RunRollback(p)
      BY <2>4 DEF CommitFails, RunRollback, Closing
    <2>5. CASE RunSavepoint(p)
      BY <2>5 DEF RunSavepoint
    <2>6. CASE RunReleaseSavepoint(p)
      BY <2>6 DEF RunReleaseSavepoint
    <2>7. CASE RunRollbackTo(p)
      BY <2>7 DEF RunRollbackTo
    <2>8. CASE CommandFails(p)
      BY <2>8 DEF CommandFails
    <2> QED
      BY <2>1, <2>2, <2>3, <2>4, <2>5, <2>6, <2>7, <2>8 DEF QuerierStep
  <1> QED
    BY <1>1, <1>2, <1>3, <1>4

\* The task a querier runs is what its caller awaits.
LEMMA CallerAwaits ==
    ASSUME ReleaseInv, NEW p \in Querier, queue[p] # <<>>
    PROVE  /\ Caller(p) \in Flow
           /\ pc[Caller(p)] = "queued"
           /\ on[Caller(p)] = p
           /\ Head(queue[p]).kind = job[Caller(p)].kind
           /\ Head(queue[p]).scope = job[Caller(p)].scope
  <1>1. queue[p] \in Seq(Task) /\ Tasks(p)
    BY DEF ReleaseInv, Turns, TypeInv, TypeOK
  <1>2. 1 \in 1..Len(queue[p]) /\ Head(queue[p]) = queue[p][1]
    BY <1>1
  <1>3. Caller(p) \in Flow
    BY TaskType DEF ReleaseInv, TypeInv
  <1> QED
    BY <1>1, <1>2, <1>3 DEF Caller, Tasks

\* The releasing flow's own task: a BEGIN finds the slot its own and nothing open, and what ends a transaction, or looks
\* for one at `release`, finds it open or nothing open at all.
LEMMA ReleaserTask ==
    ASSUME ReleaseInv, NEW p \in Querier, QuerierStep(p), NEW f \in Flow, f = Caller(p), Releases(f)
    PROVE  HandsBack(f)'
  <1> DEFINE c == SlotOf(p)
  <1>1. /\ f \in Flow
        /\ pc[f] = "queued"
        /\ on[f] = p
        /\ Head(queue[p]).kind = job[f].kind
        /\ Head(queue[p]).scope = job[f].scope
        /\ UNCHANGED <<scope, on, calls, released, stream>>
    BY TaskFrame, CallerAwaits DEF ReleaseInv
  <1>2. c \in Connection /\ TypeInv /\ TypeOK /\ HandsBack(f)
    BY <1>1, FlowAssumption DEF ReleaseInv, TypeInv, TypeOK, SlotOf
  <1>3. PICK ok \in BOOLEAN : Settle(f, ok)
    BY <1>2, TaskFrame
  <1>4. /\ pc'[f] \in {"checked", "callbacks", "abort", "run"}
        /\ pc'[f] = "checked" => job[f].kind = "check"
    BY <1>1, <1>2, <1>3 DEF Settle, NextPlace, TypeOK
  <1> SUFFICES ASSUME ~Shared(c)
               PROVE  /\ held'[c] # NoScope => scope[held'[c]].querier = p
                      /\ engine'[c].tx # NoScope => held'[c] # NoScope /\ hasOpen'[p] /\ ~released[p]
                      /\ pc'[f] = "checked" => engine'[c].tx = NoScope
    BY <1>1, <1>4 DEF HandsBack, SlotOf, Shared, Asks
  <1>5. /\ held[c] # NoScope => scope[held[c]].querier = p
        /\ engine[c].tx # NoScope => held[c] # NoScope /\ hasOpen[p] /\ ~released[p]
        /\ job[f].kind = "begin" => held[c] = job[f].scope /\ engine[c].tx = NoScope
    BY <1>1, <1>2 DEF HandsBack, Asks
  <1>6. engine[c].tx # NoScope => Holds(p) /\ hasOpen[p]
    BY <1>5 DEF Holds
  <1> USE DEF TypeOK
  <1>7. CASE RunStatement(p) \/ RunSavepoint(p) \/ RunReleaseSavepoint(p) \/ RunRollbackTo(p) \/ RunHandBack(p)
    <2>1. held' = held /\ hasOpen' = hasOpen /\ engine'[c].tx = engine[c].tx
      BY <1>2, <1>7, TaskLeaves
    <2>2. job[f].kind # "check"
      BY <1>1, <1>7 DEF RunStatement, RunSavepoint, RunReleaseSavepoint, RunRollbackTo, RunHandBack, Running
    <2> QED
      BY <1>4, <1>5, <2>1, <2>2
  <1>8. CASE RunBegin(p)
    <2>1. job[f].kind = "begin" /\ job[f].scope # NoScope
      BY <1>1, <1>2, <1>8, FlowAssumption DEF RunBegin, Running, Job, NeedsScope
    <2>2. \/ ~released[p] /\ held' = held /\ hasOpen'[p]
          \/ held'[c] = NoScope /\ engine' = engine
      BY <1>2, <1>8 DEF RunBegin, Free
    <2> QED
      BY <1>4, <1>5, <2>1, <2>2
  <1>9. CASE CloseNothing(p)
    <2>1. engine[c].tx = NoScope /\ engine' = engine
      BY <1>6, <1>9 DEF CloseNothing, engineVars
    <2>2. held'[c] \in {NoScope, held[c]}
      BY <1>2, <1>9 DEF CloseNothing, Free
    <2> QED
      BY <1>5, <2>1, <2>2
  <1>10. CASE RunCommit(p)
    <2>1. engine'[c].tx = NoScope /\ held'[c] = NoScope
      BY <1>2, <1>10 DEF RunCommit, Free, NoTransaction
    <2> QED
      BY <2>1
  <1>11. CASE CommitFails(p)
    <2>1. held' = held /\ hasOpen' = hasOpen /\ engine'[c].tx \in {NoScope, engine[c].tx}
      BY <1>2, <1>11 DEF CommitFails, NoTransaction
    <2>2. job[f].kind # "check"
      BY <1>1, <1>11 DEF CommitFails, Closing, Running
    <2> QED
      BY <1>4, <1>5, <2>1, <2>2
  <1>12. CASE RunRollback(p)
    <2>1. held'[c] = NoScope
      BY <1>2, <1>12 DEF RunRollback, Free
    <2>2. engine'[c].tx = NoScope
      <3>1. CASE Connected(p)
        BY <1>2, <1>12, <3>1 DEF RunRollback, NoTransaction
      <3>2. CASE ~Connected(p)
        BY <1>5, <1>12, <3>2 DEF RunRollback, Connected, ReleaseInv, GivenBack
      <3> QED
        BY <3>1, <3>2
    <2> QED
      BY <2>1, <2>2
  <1>13. CASE CommandFails(p)
    <2>1. held' = held /\ hasOpen' = hasOpen /\ engine'[c].tx \in {NoScope, engine[c].tx}
      BY <1>2, <1>13 DEF CommandFails, NoTransaction
    <2>2. job[f].kind # "check"
      BY <1>1, <1>13 DEF CommandFails, Commands, Running
    <2> QED
      BY <1>4, <1>5, <2>1, <2>2
  <1> QED
    BY <1>7, <1>8, <1>9, <1>10, <1>11, <1>12, <1>13 DEF QuerierStep

\* A task of another flow leaves the one that releases, and its connection, as they are.
LEMMA OthersTask ==
    ASSUME ReleaseInv, NEW p \in Querier, QuerierStep(p), NEW g \in Flow \ {Caller(p)}, Releases(g)
    PROVE  HandsBack(g)'
  <1> DEFINE f == Caller(p)
             q == on[g]
             c == SlotOf(q)
  <1>1. /\ f \in Flow
        /\ on[f] = p
        /\ Head(queue[p]).kind = job[f].kind
        /\ Same(g)
        /\ UNCHANGED <<scope, on, calls, released, stream>>
        /\ \A d \in Connection \ {SlotOf(p)} : held'[d] = held[d] /\ engine'[d] = engine[d]
        /\ \A r \in Querier \ {p} : hasOpen'[r] = hasOpen[r]
    BY TaskFrame, CallerAwaits DEF ReleaseInv
  <1>2. q \in Querier /\ c \in Connection /\ TypeInv
    BY FlowAssumption DEF ReleaseInv, TypeInv, TypeOK, SlotOf
  <1> SUFFICES ASSUME ~Shared(c) PROVE HandsBack(g)'
    BY <1>1 DEF HandsBack, SlotOf, Shared
  <1>3. Untouched(g)
    <2>1. CASE q # p
      <3>1. SlotOf(p) # c
        BY <1>2, <2>1, OneQuerier
      <3> QED
        BY <1>1, <1>2, <2>1, <3>1 DEF Untouched
    <2>2. CASE q = p
      <3>1. StandsBy(f) /\ job[f].kind \in {"statement", "none"}
        BY <1>1, <2>2 DEF ReleaseInv, Sole, Stands
      <3>2. RunStatement(p) \/ CommandFails(p)
        BY <1>1, <3>1 DEF QuerierStep, RunBegin, CloseNothing, RunCommit, CommitFails, RunRollback, RunSavepoint,
           RunReleaseSavepoint, RunRollbackTo, RunHandBack, Closing, Running
      <3>3. CASE RunStatement(p)
        BY <1>2, <3>3, TaskLeaves DEF Untouched
      <3>4. CASE CommandFails(p)
        <4>1. /\ UNCHANGED <<held, hasOpen>>
              /\ \/ engine' = engine
                 \/ /\ engine' = [engine EXCEPT ![SlotOf(p)] = NoTransaction]
                    /\ engine[SlotOf(p)].tx \in spoiled' \cap undone'
          BY <3>4 DEF CommandFails
        <4>2. engine \in [Connection -> Session]
          BY <1>2 DEF TypeInv, TypeOK
        <4> QED
          BY <1>2, <2>2, <4>1, <4>2 DEF Untouched, Gone, NoTransaction
      <3> QED
        BY <3>2, <3>3, <3>4
    <2> QED
      BY <2>1, <2>2
  <1>4. ScopesKept /\ released'[q] = released[q] /\ stream'[q] \in {stream[q], NoFlow}
    BY <1>1 DEF ScopesKept
  <1> QED
    BY <1>1, <1>2, <1>3, <1>4, ReleaserUntouched DEF ReleaseInv

LEMMA QuerierStepsKeepRelease ==
    ASSUME ReleaseInv, TypeInv', NEW p \in Querier, QuerierStep(p)
    PROVE  ReleaseInv'
  <1> DEFINE f == Caller(p)
  <1>1. /\ f \in Flow
        /\ pc[f] = "queued"
        /\ on[f] = p
        /\ Head(queue[p]).kind = job[f].kind
        /\ queue[p] # <<>>
        /\ Pop(p)
        /\ UNCHANGED <<scope, on, calls, released, stream>>
        /\ \A g \in Flow \ {f} : Same(g)
        /\ \A r \in Querier \ {p} : conn'[r] = conn[r]
    BY TaskFrame, CallerAwaits DEF ReleaseInv
  <1>t. TypeInv /\ TypeOK /\ Turns
    BY DEF ReleaseInv, TypeInv
  <1>2. PICK ok \in BOOLEAN : Settle(f, ok)
    BY <1>t, TaskFrame
  <1>3. /\ pc'[f] = NextPlace(job[f], ok)
        /\ pc'[f] \in {"checked", "callbacks", "abort", "run"}
        /\ pc'[f] # "callbacks" => job'[f].kind = "none"
    BY <1>1, <1>2, <1>t DEF Settle, NextPlace, Idle, TypeOK
  <1>4. \A g \in Flow : Releases(g)' = Releases(g) /\ StandsBy(g)' = StandsBy(g)
    BY <1>1 DEF Releases, StandsBy
  <1>5. \A g \in Flow : Sole(g)'
    BY <1>1, <1>3, SoleStays DEF Same
  <1>6. ASSUME NEW g \in Flow PROVE Stands(g)' /\ Awaits(g)'
    <2>1. Stands(g) /\ Awaits(g)
      BY DEF ReleaseInv
    <2>2. CASE g # f
      BY <1>1, <1>4, <2>1, <2>2 DEF Stands, Awaits, Asks, Same
    <2>3. CASE g = f
      <3>1. Stands(g)'
        BY <1>3, <1>4, <2>1, <2>3 DEF Stands, NextPlace
      <3>2. pc'[f] = "checked" => Releases(f)
        BY <1>1, <1>3, <2>1, <2>3 DEF NextPlace, Awaits, Asks
      <3> QED
        BY <1>3, <1>4, <2>3, <3>1, <3>2 DEF Awaits, Asks
    <2> QED
      BY <2>2, <2>3
  <1>7. ASSUME NEW g \in Flow PROVE HandsBack(g)'
    <2>1. CASE Releases(g) /\ g = f
      BY <2>1, ReleaserTask
    <2>2. CASE Releases(g) /\ g # f
      BY <2>2, OthersTask
    <2>3. CASE ~Releases(g)
      BY <1>4, <2>3 DEF HandsBack
    <2> QED
      BY <2>1, <2>2, <2>3
  <1>8. \A s \in Scope : Made(s)'
    BY <1>1, <1>4 DEF ReleaseInv, Made, Used, StandsBy
  <1>9. Turns'
    BY <1>1, <1>t, TurnsAfterPop
  <1>10. ASSUME NEW q \in Querier PROVE GivenBack(q)'
    <2>1. GivenBack(q)
      BY DEF ReleaseInv
    <2>2. CASE conn'[q] = conn[q]
      BY <1>1, <1>4, <2>1, <2>2 DEF GivenBack
    <2>3. CASE conn'[q] # conn[q]
      <3>1. q = p /\ RunHandBack(p)
        BY <1>1, <2>3 DEF QuerierStep, RunStatement, RunBegin, CloseNothing, RunCommit, CommitFails, RunRollback,
           RunSavepoint, RunReleaseSavepoint, RunRollbackTo, CommandFails, Closing
      <3>2. job[f].kind = "handback" /\ ~Shared(SlotOf(p))
        BY <1>1, <2>3, <3>1 DEF RunHandBack, Running
      <3>3. Releases(f) /\ released[p]
        BY <1>1, <3>2 DEF ReleaseInv, Awaits, Asks
      <3> QED
        BY <1>1, <1>4, <3>1, <3>2, <3>3 DEF GivenBack, SlotOf, Shared
    <2> QED
      BY <2>2, <2>3
  <1> QED
    BY <1>5, <1>6, <1>7, <1>8, <1>9, <1>10 DEF ReleaseInv

-----------------------------------------------------------------------------
(***************************************************************************)
(* The theorem.                                                            *)
(***************************************************************************)
LEMMA InitRelease ==
    ASSUME ReleasesItsOwn, Init
    PROVE  ReleaseInv
  <1>1. PICK plan \in Plan :
        /\ pc = [f \in Flow |-> IF f \in plan.branches THEN "idle" ELSE "run"]
        /\ on = plan.querier
        /\ calls = plan.calls
    BY DEF Init
  <1>2. TypeInv
    BY InitTypes
  <1>3. /\ job = [f \in Flow |-> Idle]
        /\ scope = [s \in Scope |-> Unused]
        /\ queue = [q \in Querier |-> <<>>]
        /\ conn = [q \in Querier |-> "mine"]
        /\ held = [c \in Connection |-> NoScope]
        /\ engine = [c \in Connection |-> NoTransaction]
    BY DEF Init
  <1>4. ASSUME NEW f \in Flow PROVE Sole(f)
    BY <1>1 DEF ReleasesItsOwn, Sole, Releases, StandsBy
  <1>5. ASSUME NEW f \in Flow PROVE Stands(f) /\ Awaits(f)
    BY <1>1, <1>3 DEF Stands, Awaits, Asks, Idle
  <1>6. ASSUME NEW f \in Flow PROVE HandsBack(f)
    <2>1. SlotOf(on[f]) \in Connection
      BY <1>2, FlowAssumption DEF TypeInv, TypeOK, SlotOf
    <2> QED
      BY <1>1, <1>3, <2>1 DEF HandsBack, Asks, Idle, NoTransaction
  <1>7. (\A s \in Scope : Made(s)) /\ Turns /\ \A q \in Querier : GivenBack(q)
    BY <1>3 DEF Made, Used, Unused, Turns, Tasks, GivenBack
  <1> QED
    BY <1>2, <1>4, <1>5, <1>6, <1>7 DEF ReleaseInv

LEMMA NextRelease ==
    ASSUME ReleaseInv, [Next]_vars
    PROVE  ReleaseInv'
  <1>1. TypeInv'
    BY NextTypes DEF ReleaseInv
  <1>2. CASE Next
    BY <1>1, <1>2, FlowStepsKeepRelease, QuerierStepsKeepRelease DEF Next
  <1>3. CASE UNCHANGED vars
    BY <1>3 DEF vars, slotVars, querierVars, flowVars, engineVars, ReleaseInv, TypeInv, TypeOK, CallbacksOfAScope, Sole, Stands,
       Awaits, HandsBack, Made, Turns, Tasks, GivenBack, Releases, StandsBy, Used, Asks, SlotOf, Shared
  <1> QED
    BY <1>2, <1>3

\* Where a ROLLBACK or the close of a stream failed, its querier knows, and a querier that knows gives
\* nothing back to be used again.
Known(q) ==
    /\ conn[q] # "mine" => ~Shared(SlotOf(q))
    /\ SlotOf(q) \in dirty => conn[q] # "kept" /\ (~Shared(SlotOf(q)) => unusable[q])

LEMMA SpilledIsKnown ==
    ASSUME TypeOK, \A q \in Querier : Known(q), NEW p \in Querier, Spill(p), unusable'[p],
           \A q \in Querier : unusable[q] => unusable'[q], conn' = conn
    PROVE  \A q \in Querier : Known(q)'
  <1> SUFFICES ASSUME NEW q \in Querier, SlotOf(q) \in dirty'
               PROVE  conn[q] # "kept" /\ (~Shared(SlotOf(q)) => unusable'[q])
    BY DEF Known, SlotOf, Shared
  <1>1. CASE SlotOf(q) \in dirty
    BY <1>1 DEF Known
  <1>2. CASE SlotOf(q) \notin dirty
    <2>1. SlotOf(q) = SlotOf(p) /\ conn[p] = "mine"
      BY <1>2 DEF Spill, Connected
    <2>2. ~Shared(SlotOf(q)) => q = p
      BY <2>1, OneQuerier
    <2> QED
      BY <2>1, <2>2 DEF Known
  <1> QED
    BY <1>1, <1>2

LEMMA KnownStays ==
    ASSUME TypeInv, \A q \in Querier : Known(q), [Next]_vars
    PROVE  \A q \in Querier : Known(q)'
  <1>t. TypeOK
    BY DEF TypeInv
  <1>same. ASSUME UNCHANGED <<conn, unusable, dirty>> PROVE \A q \in Querier : Known(q)'
    BY <1>same DEF Known, SlotOf, Shared
  <1>1. ASSUME NEW f \in Flow, UserStep(f) \/ FlowStep(f)
        PROVE  \A q \in Querier : Known(q)'
    <2>1. CASE StreamReturned(f)
      <3>1. CASE UNCHANGED <<conn, unusable, dirty>>
        BY <1>same, <3>1
      <3>2. CASE ~UNCHANGED <<conn, unusable, dirty>>
        <4>1. PICK p \in Querier : p = on[f]
          BY <1>t DEF TypeOK
        <4>2. Spill(p) /\ unusable' = [unusable EXCEPT ![p] = TRUE] /\ conn' = conn
          BY <2>1, <3>2, <4>1 DEF StreamReturned
        <4>3. unusable'[p] /\ \A q \in Querier : unusable[q] => unusable'[q]
          BY <1>t, <4>2 DEF TypeOK
        <4> QED
          BY <1>t, <4>2, <4>3, SpilledIsKnown
      <3> QED
        BY <3>1, <3>2
    <2>2. CASE ~StreamReturned(f)
      <3>1. UNCHANGED <<conn, unusable, dirty>>
        BY <1>1, <2>2 DEF UserStep, FlowStep, Statement, Transaction, Nested, BeginTransaction, CommitTransaction,
           RollbackTransaction, OnCommit, StreamNext, StreamEnd, Release, Return, Throw, Start, Claim, NestedTurn,
           StreamTurn, Serialize, Refuse, Released, RunCallbacks, querierVars, engineVars
      <3> QED
        BY <1>same, <3>1
    <2> QED
      BY <2>1, <2>2
  <1>2. ASSUME NEW p \in Querier, QuerierStep(p)
        PROVE  \A q \in Querier : Known(q)'
    <2>1. CASE RunRollback(p)
      <3>1. CASE UNCHANGED <<conn, unusable, dirty>>
        BY <1>same, <3>1
      <3>2. CASE ~UNCHANGED <<conn, unusable, dirty>>
        <4>1. Spill(p) /\ unusable' = [unusable EXCEPT ![p] = TRUE] /\ conn' = conn
          BY <2>1, <3>2 DEF RunRollback, Closing
        <4>2. unusable'[p] /\ \A q \in Querier : unusable[q] => unusable'[q]
          BY <1>t, <4>1 DEF TypeOK
        <4> QED
          BY <1>t, <4>1, <4>2, SpilledIsKnown
      <3> QED
        BY <3>1, <3>2
    <2>2. CASE RunHandBack(p)
      <3>1. UNCHANGED <<unusable, dirty>>
        BY <2>2 DEF RunHandBack, engineVars
      <3>2. \A q \in Querier : \/ conn'[q] = conn[q]
                               \/ ~Shared(SlotOf(q)) /\ (conn'[q] = "kept" => ~unusable[q])
        BY <1>t, <2>2 DEF RunHandBack, TypeOK
      <3> QED
        BY <3>1, <3>2 DEF Known, SlotOf, Shared
    <2>3. CASE ~RunRollback(p) /\ ~RunHandBack(p)
      <3>1. UNCHANGED <<conn, unusable, dirty>>
        BY <1>2, <2>3 DEF QuerierStep, RunStatement, CommandFails, RunBegin, CloseNothing, RunCommit, CommitFails,
           RunSavepoint, RunReleaseSavepoint, RunRollbackTo, Closing, engineVars
      <3> QED
        BY <1>same, <3>1
    <2> QED
      BY <2>1, <2>2, <2>3
  <1>3. CASE UNCHANGED vars
    BY <1>same, <1>3 DEF vars, querierVars, engineVars
  <1> QED
    BY <1>1, <1>2, <1>3 DEF Next

\* A connection that a released querier gives back to be used again is in no transaction, and no ROLLBACK or close of a
\* stream failed on it, whatever its flow called before: begun by hand and never ended, released inside a callback,
\* twice, with a stream open, or after a COMMIT that failed.
THEOREM CleanHandBackAlways ==
    ASSUME ReleasesItsOwn
    PROVE  Spec => []CleanHandBack
  <1> DEFINE Inv == ReleaseInv /\ \A q \in Querier : Known(q)
  <1>1. Init => Inv
    <2>1. Init => \A q \in Querier : Known(q)
      BY DEF Init, Known
    <2> QED
      BY <2>1, InitRelease
  <1>2. Inv /\ [Next]_vars => Inv'
    <2>1. ReleaseInv => TypeInv
      BY DEF ReleaseInv
    <2> QED
      BY <2>1, NextRelease, KnownStays
  <1>3. Inv => CleanHandBack
    <2> SUFFICES ASSUME Inv, NEW q \in Querier, conn[q] = "kept"
                 PROVE  engine[SlotOf(q)].tx = NoScope /\ SlotOf(q) \notin dirty
      BY DEF CleanHandBack
    <2>1. PICK f \in Flow : Releases(f) /\ on[f] = q /\ released[q] /\ ~Shared(SlotOf(q))
      BY DEF ReleaseInv, GivenBack
    <2>2. HandsBack(f) /\ Known(q)
      BY DEF ReleaseInv
    <2> QED
      BY <2>1, <2>2 DEF HandsBack, Known
  <1> HIDE DEF Inv
  <1> QED
    BY <1>1, <1>2, <1>3, PTL DEF Spec

=============================================================================
