----------------------------- MODULE RaceProofs ------------------------------
(***************************************************************************)
(* More theorems about Persistence, for any flows, rows, calls and bounds: *)
(* how calls that race over the same rows leave one another's alone.  What *)
(* an update claimed nobody changes before it writes it, what an upsert    *)
(* goes on past is as it was when its update missed it, what a version     *)
(* matches is what its writer read, what a call reports is what it wrote,  *)
(* and the children it replaces are the ones it lists.                     *)
(*                                                                         *)
(* The invariants follow a call from the statement that settles its rows   *)
(* to the last that writes them, on each way an engine isolates.           *)
(***************************************************************************)
EXTENDS PersistenceProofs

-----------------------------------------------------------------------------
(***************************************************************************)
(* What a call has left, and what the steps of others leave it.            *)
(***************************************************************************)
\* Steps that lead to one another alone.
ClosedSteps(A) ==
    /\ "commit" \in A /\ "rollback" \in A
    /\ "match" \in A \/ "found" \in A => "reread" \in A
    /\ "settle" \in A /\ ~plan.versioned => "columns" \in A /\ "drop" \in A /\ "save" \in A
    /\ "find" \in A => "settle" \in A /\ "found" \in A /\ "insert" \in A /\ "save" \in A
    /\ "doom" \in A => "hook" \in A /\ "children" \in A /\ "remove" \in A
    /\ "remove" \in A => "children" \in A

\* A step of the flow itself that says what it keeps.
LEMMA NowKept ==
    ASSUME WriteInv, NEW f \in Flow, NEW kept, fl' = [fl EXCEPT ![f] = kept]
    PROVE  fl'[f] = kept /\ DOMAIN fl[f] = Fields
  BY DEF WriteInv, Keeps

LEMMA ThrownList ==
    ASSUME WriteInv, NEW f \in Flow, NEW why
    PROVE  /\ Thrown(f, why).todo \in {<<>>, <<"rollback">>}
           /\ Thrown(f, why).snap = fl[f].snap /\ Thrown(f, why).inTx = fl[f].inTx
           /\ Thrown(f, why).queue = <<>> /\ Thrown(f, why).kept = fl[f].kept
  <1>1. DOMAIN fl[f] = Fields
    BY DEF WriteInv, Keeps
  <1> QED
    BY <1>1 DEF Thrown, Fields

LEMMA InListsOfOne ==
    ASSUME NEW A, NEW x \in A
    PROVE  <<x>> \in Seq(A) /\ <<>> \in Seq(A)
  OBVIOUS

LEMMA SettledList ==
    ASSUME NEW c, NEW A, "columns" \in A, "drop" \in A, "save" \in A
    PROVE  SettledWrite(c) \in Seq(A)
  <1> DEFINE own == IF c.columns THEN <<"columns">> ELSE <<>>
             relations == IF WritesRelations(c) THEN <<"drop", "save">> ELSE <<>>
  <1>1. own \in Seq(A) /\ relations \in Seq(A)
    <2>1. <<"columns">> \in Seq(A) /\ <<>> \in Seq(A) /\ <<"drop", "save">> \in Seq(A)
      OBVIOUS
    <2> QED
      BY <2>1
  <1> HIDE DEF own, relations
  <1>2. own \o relations \in Seq(A)
    BY <1>1, ConcatProperties
  <1> QED
    BY <1>2 DEF SettledWrite, own, relations

LEMMA CascadeList ==
    ASSUME NEW c, NEW A, "children" \in A, "remove" \in A
    PROVE  Cascade(c) \in Seq(A) /\ ("hook" \in A => Hooked(Cascade(c)) \in Seq(A))
  <1>1. Cascade(c) \in Seq(A)
    BY DEF Cascade
  <1>2. ASSUME "hook" \in A PROVE Hooked(Cascade(c)) \in Seq(A)
    <2>1. <<"hook">> \in Seq(A)
      BY <1>2
    <2>2. <<"hook">> \o Cascade(c) \in Seq(A)
      BY <1>1, <2>1, ConcatProperties
    <2> QED
      BY <2>1, <2>2, ConcatProperties DEF Hooked
  <1> QED
    BY <1>1, <1>2

\* The list a found key, or one not found, is gone on with.
LEMMA FindList ==
    ASSUME NEW n \in Nat, NEW update, NEW A, update \in A, "insert" \in A, "save" \in A, NEW none \in BOOLEAN,
           NEW saves \in BOOLEAN
    PROVE  [i \in 1..n |-> update] \o (IF none THEN <<>> ELSE <<"insert">> \o (IF saves THEN <<"save">> ELSE <<>>))
               \in Seq(A)
  <1>1. [i \in 1..n |-> update] \in Seq(A)
    <2>1. [i \in 1..n |-> update] \in [1..n -> A]
      OBVIOUS
    <2> QED
      BY <2>1, SeqDef
  <1>2. <<"insert">> \in Seq(A) /\ <<>> \in Seq(A) /\ (IF saves THEN <<"save">> ELSE <<>>) \in Seq(A)
    OBVIOUS
  <1>3. <<"insert">> \o (IF saves THEN <<"save">> ELSE <<>>) \in Seq(A)
    BY <1>2, ConcatProperties
  <1>4. (IF none THEN <<>> ELSE <<"insert">> \o (IF saves THEN <<"save">> ELSE <<>>)) \in Seq(A)
    BY <1>2, <1>3
  <1> QED
    BY <1>1, <1>4, ConcatProperties

\* A call's list stays one of such steps.
LEMMA StatementLists ==
    ASSUME WriteInv, NEW f \in Flow, Statement(f), NEW A, ClosedSteps(A), fl[f].todo \in Seq(A)
    PROVE  fl'[f].todo \in Seq(A)
  <1> DEFINE todo == fl[f].todo
  <1>1. todo # <<>>
    BY StatementStarts
  <1>2. Tail(todo) \in Seq(A) /\ Head(todo) \in A
    BY <1>1, HeadTailProperties
  <1>3. <<>> \in Seq(A) /\ <<"rollback">> \in Seq(A) /\ <<"commit">> \in Seq(A)
    BY InListsOfOne DEF ClosedSteps
  <1>4. DOMAIN fl = Flow /\ DOMAIN fl[f] = Fields
    BY DEF WriteInv, Keeps
  <1>5. \A kept : fl' = [fl EXCEPT ![f] = kept] => fl'[f] = kept
    BY <1>4
  <1>6. ASSUME NEW next \in Seq(A)
        PROVE  Then(f, next).todo \in Seq(A) /\ DOMAIN Then(f, next) = Fields
    <2>1. next \o Tail(todo) \in Seq(A)
      BY <1>2, ConcatProperties
    <2> QED
      BY <1>4, <2>1 DEF Then, Fields
  <1>7. Goes(f).todo \in Seq(A) /\ DOMAIN Goes(f) = Fields
    BY <1>3, <1>6 DEF Goes
  <1>8. ASSUME NEW why, Throw(f, why)
        PROVE  fl'[f].todo \in Seq(A)
    BY <1>3, <1>5, <1>8, ThrownList DEF Throw
  <1>9. ASSUME NEW kept, NEW new, DOMAIN kept = Fields, kept.todo \in Seq(A), Writes(f, kept, new)
        PROVE  fl'[f].todo \in Seq(A)
    BY <1>5, <1>9 DEF Writes, Sends, Fields
  <1>10. ASSUME NEW kept, NEW held, DOMAIN kept = Fields, kept.todo \in Seq(A), Reads(f, kept, held)
         PROVE  fl'[f].todo \in Seq(A)
    BY <1>5, <1>10 DEF Reads, Sends, Fields
  <1>11. \A kept, x : DOMAIN kept = Fields => /\ DOMAIN [kept EXCEPT !.queue = x] = Fields
                                              /\ [kept EXCEPT !.queue = x].todo = kept.todo
    BY DEF Fields
  <1>12. \A next, x, y : next \in Seq(A) =>
            LET kept == [Then(f, next) EXCEPT !.ids = x, !.queue = y]
            IN  DOMAIN kept = Fields /\ kept.todo \in Seq(A)
    BY <1>6 DEF Fields
  <1> HIDE DEF todo
  <1>13. CASE Load(f)
    <2>1. PICK kept, x : /\ kept.todo \in {Goes(f).todo, <<"commit">>, <<>>} /\ DOMAIN kept = Fields
                         /\ fl' = [fl EXCEPT ![f] = [kept EXCEPT !.snap = x]]
      BY <1>7, <1>13 DEF Load, Sends, Fields
    <2>2. [kept EXCEPT !.snap = x].todo = kept.todo
      BY <2>1 DEF Fields
    <2>3. fl'[f] = [kept EXCEPT !.snap = x]
      BY <1>5, <2>1
    <2> QED
      BY <1>3, <1>7, <2>1, <2>2, <2>3
  <1>14. ASSUME NEW k, WriteAtVersion(f, k), "reread" \in A
         PROVE  fl'[f].todo \in Seq(A)
    <2>1. CASE LockVersion(f, k)
      BY <1>7, <1>9, <1>11, <1>14, <2>1 DEF WriteAtVersion
    <2>2. CASE ~LockVersion(f, k)
      <3>1. <<"reread">> \in Seq(A)
        BY <1>14, InListsOfOne
      <3>2. PICK x : Writes(f, [Then(f, <<"reread">>) EXCEPT !.miss = x], <<>>)
        BY <1>14, <2>2 DEF WriteAtVersion
      <3>3. /\ DOMAIN [Then(f, <<"reread">>) EXCEPT !.miss = x] = Fields
            /\ [Then(f, <<"reread">>) EXCEPT !.miss = x].todo \in Seq(A)
        BY <1>6, <3>1 DEF Fields
      <3> QED
        BY <1>9, <3>2, <3>3
    <2> QED
      BY <2>1, <2>2
  <1>15. CASE Match(f)
    BY <1>2, <1>14, <1>15 DEF Match, Ready, At, ClosedSteps, todo
  <1>16. CASE Found(f)
    <2>1. "reread" \in A
      BY <1>2, <1>16 DEF Found, Ready, At, ClosedSteps, todo
    <2> QED
      BY <1>7, <1>8, <1>9, <1>11, <1>14, <1>16, <2>1 DEF Found
  <1>17. CASE ThrowStaleVersion(f)
    <2>1. \/ \E actual : Throw(f, actual)
          \/ \E x, y, z : Sends(f, [Goes(f) EXCEPT !.queue = x, !.kept = y, !.snap = z], <<>>, {})
      BY <1>17 DEF ThrowStaleVersion
    <2>2. ASSUME NEW x, NEW y, NEW z, fl' = [fl EXCEPT ![f] = [Goes(f) EXCEPT !.queue = x, !.kept = y, !.snap = z]]
          PROVE  fl'[f].todo \in Seq(A)
      BY <1>5, <1>7, <2>2 DEF Fields
    <2> QED
      BY <1>8, <2>1, <2>2 DEF Sends
  <1>18. CASE Where(f) \/ DropUnlisted(f) \/ Merge(f) \/ DeleteChildren(f) \/ Restore(f)
    BY <1>7, <1>9, <1>18 DEF Where, DropUnlisted, Merge, DeleteChildren, Restore
  <1>19. CASE SaveChildren(f) \/ InsertRows(f)
    BY <1>7, <1>8, <1>9, <1>19 DEF SaveChildren, InsertRows
  <1>20. CASE Settle(f)
    <2> DEFINE writes == IF SettleIds(f) = {} \/ plan.versioned THEN <<>> ELSE SettledWrite(Call(f))
    <2>1. writes \in Seq(A)
      BY <1>2, <1>3, <1>20, SettledList DEF Settle, Ready, At, ClosedSteps, todo
    <2> HIDE DEF writes
    <2>2. PICK x, y, z : Reads(f, [Then(f, writes) EXCEPT !.ids = x, !.queue = y], z)
      BY <1>20 DEF Settle, writes
    <2> QED
      BY <1>10, <1>12, <2>1, <2>2
  <1>21. CASE Columns(f)
    <2>1. PICK kept \in {fl[f], Goes(f)} : \E x, y : Writes(f, [kept EXCEPT !.queue = x], y)
      BY <1>21 DEF Columns
    <2>2. DOMAIN kept = Fields /\ kept.todo \in Seq(A)
      BY <1>4, <1>7
    <2> QED
      BY <1>9, <1>11, <2>1, <2>2
  <1>22. CASE ReadBack(f)
    <2>1. PICK x, y : fl' = [fl EXCEPT ![f] = [Goes(f) EXCEPT !.told = x, !.snap = y]]
      BY <1>22 DEF ReadBack, Sends
    <2> QED
      BY <1>5, <1>7, <2>1 DEF Fields
  <1>23. CASE ReadThenUpsert(f)
    <2> DEFINE found == RowsByConflict(f)
               update == IF WritesRelations(Call(f)) /\ ~plan.versioned THEN "settle" ELSE "found"
               n == Cardinality(found)
               none == found = Call(f).ids
               saves == WritesRelations(Call(f))
               next == [i \in 1..n |-> update]
                           \o (IF none THEN <<>> ELSE <<"insert">> \o (IF saves THEN <<"save">> ELSE <<>>))
    <2>1. n \in Nat
      BY CallTyped, FS_Subset, FS_CardinalityType DEF WriteInv, RowsByConflict
    <2>2. update \in A /\ "insert" \in A /\ "save" \in A
      BY <1>2, <1>23 DEF ReadThenUpsert, Ready, At, ClosedSteps, todo
    <2>3. none \in BOOLEAN /\ saves \in BOOLEAN
      BY DEF WritesRelations
    <2>4. PICK x, y, z : Reads(f, [Then(f, next) EXCEPT !.ids = x, !.queue = y], z)
      BY <1>23 DEF ReadThenUpsert
    <2> HIDE DEF found, update, n, none, saves
    <2>5. next \in Seq(A)
      BY <2>1, <2>2, <2>3, FindList
    <2> HIDE DEF next
    <2> QED
      BY <1>10, <1>12, <2>4, <2>5
  <1>24. CASE Doom(f)
    <2> DEFINE next == IF Doomed(f) = {} THEN <<>> ELSE Hooked(Cascade(Call(f)))
    <2>1. next \in Seq(A)
      BY <1>2, <1>3, <1>24, CascadeList DEF Doom, Ready, At, ClosedSteps, todo
    <2> HIDE DEF next
    <2>2. PICK x, y, z, w : Reads(f, [Then(f, next) EXCEPT !.ids = x, !.queue = y, !.told = z], w)
      BY <1>24 DEF Doom, next
    <2>3. LET kept == [Then(f, next) EXCEPT !.ids = x, !.queue = y, !.told = z]
          IN  DOMAIN kept = Fields /\ kept.todo \in Seq(A)
      BY <1>6, <2>1 DEF Fields
    <2> QED
      BY <1>10, <2>2, <2>3
  <1>25. CASE InternalDelete(f)
    <2> DEFINE next == IF Len(fl[f].queue) > 1 THEN Cascade(Call(f)) ELSE <<>>
    <2>1. next \in Seq(A)
      BY <1>2, <1>3, <1>25, CascadeList DEF InternalDelete, Ready, At, ClosedSteps, todo
    <2> HIDE DEF next
    <2>2. \/ Throw(f, "foreignKey")
          \/ \E x, y : Writes(f, [Then(f, next) EXCEPT !.queue = x], y)
      BY <1>25 DEF InternalDelete, next
    <2>3. \A x : LET kept == [Then(f, next) EXCEPT !.queue = x] IN DOMAIN kept = Fields /\ kept.todo \in Seq(A)
      BY <1>6, <1>11, <2>1
    <2> QED
      BY <1>8, <1>9, <2>2, <2>3
  <1> QED
    BY <1>13, <1>15, <1>16, <1>17, <1>18, <1>19, <1>20, <1>21, <1>22, <1>23, <1>24, <1>25 DEF Statement

LEMMA ListStays ==
    ASSUME WriteInv, NEW f \in Flow, Write(f), NEW A, ClosedSteps(A), fl[f].todo \in Seq(A)
    PROVE  fl'[f].todo \in Seq(A)
  <1>1. /\ <<>> \in Seq(A) /\ <<"rollback">> \in Seq(A)
        /\ \A kept : fl' = [fl EXCEPT ![f] = kept] => fl'[f] = kept
        /\ DOMAIN fl[f] = Fields
    BY InListsOfOne DEF ClosedSteps, WriteInv, Keeps
  <1>2. fl[f].todo # <<>> => Tail(fl[f].todo) \in Seq(A) /\ Goes(f).todo \in Seq(A) /\ DOMAIN Goes(f) = Fields
    <2>1. fl[f].todo # <<>> => Tail(fl[f].todo) \in Seq(A)
      BY HeadTailProperties
    <2>2. fl[f].todo # <<>> => <<>> \o Tail(fl[f].todo) \in Seq(A)
      BY <1>1, <2>1, ConcatProperties
    <2> QED
      BY <1>1, <2>1, <2>2 DEF Goes, Then, Fields
  <1>3. CASE Begin(f)
    BY <1>1, <1>2, <1>3 DEF Begin, Ready, At, Fields
  <1>4. CASE Commit(f) \/ Rollback(f)
    BY <1>1, <1>2, <1>4 DEF Commit, Rollback, Closed, At, Fields
  <1>5. CASE Hook(f)
    BY <1>1, <1>2, <1>5 DEF Hook, At
  <1>6. CASE \E why : fl' = [fl EXCEPT ![f] = Thrown(f, why)]
    <2>1. PICK why : fl' = [fl EXCEPT ![f] = Thrown(f, why)]
      BY <1>6
    <2>2. Thrown(f, why).todo \in {<<>>, <<"rollback">>}
      BY ThrownList
    <2> QED
      BY <1>1, <2>1, <2>2
  <1>7. CASE HookThrows(f) \/ Refused(f) \/ Deadlocked(f) \/ Racer(f)
    BY <1>6, <1>7 DEF HookThrows, Refused, Deadlocked, Racer, Throw
  <1> QED
    BY <1>3, <1>4, <1>5, <1>7, StatementLists DEF Write, Proceeds

\* A lock stays with its flow through the steps of others, and so do the row under it and its last commit.
LEMMA OthersLeave ==
    ASSUME WriteInv, NEW h \in Flow, NEW f \in Flow \ {h}, Write(h)
    PROVE  /\ plan' = plan /\ fl'[f] = fl[f]
           /\ \A k \in Key : /\ lock'[k] = f <=> lock[k] = f
                             /\ lock[k] = f => rows'[k] = rows[k] /\ base'[k] = base[k]
  <1>1. f # None /\ h # None
    BY WriterAssumption
  <1>2. ASSUME NEW k \in Key, lock[k] = f PROVE base'[k] = base[k]
    <2>1. CASE Passing(h)
      <3>1. PICK kept, new, locked : Passes(h, kept, new, locked)
        BY <2>1 DEF Passing
      <3>2. PassesInto(h, new, locked)
        BY <3>1, PassesIntoTables
      <3> QED
        BY <1>1, <1>2, <3>2 DEF PassesInto
    <2>2. CASE Commit(h)
      <3>1. base' = Current(h)
        BY <2>2 DEF Commit
      <3> QED
        BY <1>2, <3>1, AtRow
    <2>3. CASE base' = base
      BY <2>3
    <2> QED
      BY <2>1, <2>2, <2>3, StepKinds DEF Begin, Rollback
  <1> QED
    BY <1>2, LocksStay, StepKinds

\* What a flow reads where it holds the row, or has a snapshot.
LEMMA ViewStays ==
    ASSUME WriteInv, NEW h \in Flow, NEW f \in Flow \ {h}, Write(h), NEW k \in Key, lock[k] = f \/ fl[f].snap # None
    PROVE  View(f)'[k] = View(f)[k]
  <1>1. /\ View(f)[k] = IF fl[f].snap = None THEN (IF lock[k] = f THEN rows[k] ELSE base[k])
                        ELSE IF lock[k] = f /\ rows[k] # base[k] THEN rows[k] ELSE fl[f].snap[k]
        /\ View(f)'[k] = IF fl'[f].snap = None THEN (IF lock'[k] = f THEN rows'[k] ELSE base'[k])
                         ELSE IF lock'[k] = f /\ rows'[k] # base'[k] THEN rows'[k] ELSE fl'[f].snap[k]
    BY DEF View, Current
  <1> QED
    BY <1>1, OthersLeave

-----------------------------------------------------------------------------
(***************************************************************************)
(* An engine whose BEGIN takes the write lock lets one transaction write.  *)
(***************************************************************************)
AllHeld == plan.engine = "begin" => \A f \in Flow : fl[f].inTx => \A k \in Key : lock[k] = f

LEMMA AllHeldStays ==
    ASSUME WriteInv, AllHeld, NEW h \in Flow, Write(h)
    PROVE  AllHeld'
  <1> SUFFICES ASSUME plan.engine = "begin", NEW f \in Flow, fl'[f].inTx, NEW k \in Key
               PROVE  lock'[k] = f
    BY StepKinds DEF AllHeld
  <1>1. fl[f].inTx => lock[k] = f
    BY DEF AllHeld
  <1>2. CASE f # h
    BY <1>1, <1>2, OthersLeave
  <1>3. CASE f = h
    <2>1. DOMAIN fl = Flow /\ DOMAIN fl[f] = Fields
      BY DEF WriteInv, Keeps
    <2>2. CASE Passing(f)
      <3>1. PICK kept, new, locked : Passes(f, kept, new, locked)
        BY <2>2 DEF Passing
      <3>2. PassesInto(f, new, locked) /\ fl[f].inTx
        BY <2>1, <3>1, PassesIntoTables DEF Passes, Sends, WellKept
      <3> QED
        BY <1>1, <3>2 DEF PassesInto
    <2>3. CASE Begin(f)
      BY <2>3 DEF Begin
    <2>4. CASE Commit(f) \/ Rollback(f)
      BY <2>1, <2>4 DEF Commit, Rollback, Closed, Fields
    <2>5. CASE \E why : Thrown(f, why) = fl'[f] /\ lock' = lock
      BY <1>1, <2>5, ThrownList
    <2>6. CASE Hook(f)
      BY <1>1, <2>1, <2>6 DEF Hook, Goes, Then, Fields, store
    <2>7. CASE HookThrows(f) \/ Refused(f) \/ Throwing(f) \/ Deadlocked(f) \/ Racer(f)
      BY <2>1, <2>5, <2>7 DEF HookThrows, Refused, Throwing, Throw, Deadlocked, Racer, store
    <2> QED
      BY <1>3, <2>2, <2>3, <2>4, <2>6, <2>7, StatementPasses DEF Write, Proceeds
  <1> QED
    BY <1>2, <1>3

-----------------------------------------------------------------------------
(***************************************************************************)
(* What an update claimed: from the statement that settles the rows its    *)
(* filter names to the one that writes the last of them.  A row is claimed *)
(* by its lock, or by the snapshot it was read from, over whose later      *)
(* commits the engine lets nobody write.                                   *)
(***************************************************************************)
\* What an update sends besides the settling of its rows and the write of their columns, and what comes before.
Aside == {"load", "begin", "hook", "match", "reread", "where", "drop", "save", "readBack", "commit", "rollback"}
Opening == {"begin", "hook"} \cup (IF plan.versioned THEN {"load"} ELSE {})
ToSettle(todo) == \E a \in Seq(Opening), t \in Seq(Aside) : todo = a \o (<<"settle">> \o t)

\* Before that it has read nothing, and written nothing.
Unread(f) == ~plan.versioned => fl[f].snap = None /\ (plan.engine = "upgrade" => \A k \in Key : lock[k] # f)

ClaimedRow(f, k) ==
    IF plan.engine = "upgrade"
    THEN fl[f].snap # None /\ Matches(Call(f), fl[f].snap[k]) /\ (lock[k] = f => rows[k] = base[k])
    ELSE lock[k] = f /\ Matches(Call(f), rows[k])
Claimed(f) ==
    /\ \A i, j \in DOMAIN fl[f].queue : i # j => fl[f].queue[i] \cap fl[f].queue[j] = {}
    /\ \A i \in DOMAIN fl[f].queue : \A k \in fl[f].queue[i] : ClaimedRow(f, k)

ToWrite(todo) == todo # <<>> /\ Head(todo) = "columns" /\ Tail(todo) \in Seq(Aside)
Claims(f) ==
    \/ fl[f].todo \in Seq(Aside)
    \/ ToSettle(fl[f].todo) /\ Unread(f)
    \/ ToWrite(fl[f].todo) /\ Claimed(f)

ClaimInv == WriteInv /\ AllHeld /\ \A f \in Flow : Call(f).op = "update" => Claims(f)

LEMMA TailOfFront ==
    ASSUME NEW S, NEW a \in Seq(S), a # <<>>, NEW s \in Seq(S)
    PROVE  a \o s # <<>> /\ Head(a \o s) = Head(a) /\ Tail(a \o s) = Tail(a) \o s
  <1> DEFINE n == Len(a)
             m == Len(s)
             b == a \o s
             t == Tail(a)
             u == Tail(b)
             v == t \o s
  <1>1. /\ n \in Nat /\ n # 0 /\ m \in Nat
        /\ b \in Seq(S) /\ Len(b) = n + m
        /\ \A i \in 1..n + m : b[i] = IF i <= n THEN a[i] ELSE s[i - n]
    BY LenProperties, EmptySeq, ConcatProperties
  <1>2. b # <<>>
    <2>1. Len(<<>>) = 0
      OBVIOUS
    <2> HIDE DEF b, n, m
    <2> QED
      BY <1>1, <2>1
  <1>3. Head(b) = b[1] /\ Head(a) = a[1]
    OBVIOUS
  <1>4. /\ t \in Seq(S) /\ Len(t) = n - 1 /\ \A i \in 1..n - 1 : t[i] = a[i + 1]
        /\ u \in Seq(S) /\ Len(u) = n + m - 1 /\ \A i \in 1..n + m - 1 : u[i] = b[i + 1]
    BY <1>1, <1>2, HeadTailProperties
  <1>5. /\ v \in Seq(S) /\ Len(v) = (n - 1) + m
        /\ \A i \in 1..(n - 1) + m : v[i] = IF i <= n - 1 THEN t[i] ELSE s[i - (n - 1)]
    BY <1>4, ConcatProperties
  <1>6. Head(b) = Head(a)
    <2> HIDE DEF b, n, m
    <2> QED
      BY <1>1, <1>3
  <1> HIDE DEF n, m, b, t, u, v
  <1>7. \A i \in 1..Len(u) : u[i] = v[i]
    <2> TAKE i \in 1..Len(u)
    <2>1. i \in Nat /\ i + 1 \in 1..n + m /\ u[i] = b[i + 1]
      BY <1>1, <1>4
    <2>2. CASE i <= n - 1
      <3>1. v[i] = t[i] /\ t[i] = a[i + 1] /\ b[i + 1] = a[i + 1]
        BY <1>1, <1>4, <1>5, <2>1, <2>2
      <3> QED
        BY <2>1, <3>1
    <2>3. CASE ~(i <= n - 1)
      <3>1. v[i] = s[i - (n - 1)] /\ b[i + 1] = s[(i + 1) - n] /\ i - (n - 1) = (i + 1) - n
        BY <1>1, <1>4, <1>5, <2>1, <2>3
      <3> QED
        BY <2>1, <3>1
    <2> QED
      BY <2>2, <2>3
  <1>8. u = v
    <2>1. Len(u) = Len(v)
      BY <1>1, <1>4, <1>5
    <2>2. u \in Seq(S) /\ v \in Seq(S)
      BY <1>4, <1>5
    <2> QED
      BY <1>7, <2>1, <2>2, SeqEqual
  <1> QED
    BY <1>2, <1>6, <1>8 DEF b, t, u, v

\* Where an update is that has its rows still to settle.
LEMMA SettlesAhead ==
    ASSUME NEW todo, ToSettle(todo)
    PROVE  /\ todo # <<>>
           /\ \/ Head(todo) = "settle" /\ Tail(todo) \in Seq(Aside)
              \/ Head(todo) \in Opening /\ ToSettle(Tail(todo))
  <1> DEFINE S == Opening \cup Aside \cup {"settle"}
  <1>1. PICK a \in Seq(Opening), t \in Seq(Aside) : todo = a \o (<<"settle">> \o t)
    BY DEF ToSettle
  <1>2. a \in Seq(S) /\ t \in Seq(S) /\ <<"settle">> \in Seq(S)
    BY SeqMonotonic, InListsOfOne
  <1>3. Head(<<"settle">>) = "settle" /\ Tail(<<"settle">>) = <<>> /\ <<"settle">> # <<>>
    OBVIOUS
  <1>4. <<"settle">> \o t \in Seq(S) /\ <<>> \o t = t
    BY <1>2, ConcatProperties, ConcatEmptySeq
  <1> HIDE DEF S
  <1>5. /\ <<"settle">> \o t # <<>> /\ Head(<<"settle">> \o t) = "settle"
        /\ Tail(<<"settle">> \o t) = <<>> \o t
    BY <1>2, <1>3, TailOfFront
  <1>6. CASE a = <<>>
    <2>1. todo = <<"settle">> \o t
      BY <1>1, <1>4, <1>6, ConcatEmptySeq
    <2> QED
      BY <1>4, <1>5, <2>1
  <1>7. CASE a # <<>>
    <2>1. todo # <<>> /\ Head(todo) = Head(a) /\ Tail(todo) = Tail(a) \o (<<"settle">> \o t)
      BY <1>1, <1>2, <1>4, <1>7, TailOfFront
    <2>2. Head(a) \in Opening /\ Tail(a) \in Seq(Opening)
      BY <1>7, HeadTailProperties
    <2> QED
      BY <2>1, <2>2 DEF ToSettle
  <1> QED
    BY <1>6, <1>7

\* The lists an update starts with, put together.
UpdateList(s) == s \in Seq(Aside) \/ ToSettle(s)

LEMMA OpenedBy ==
    ASSUME NEW a \in Seq(Opening), NEW s, UpdateList(s)
    PROVE  UpdateList(a \o s)
  <1> DEFINE S == Opening \cup Aside \cup {"settle"}
  <1>1. Opening \subseteq Aside
    BY DEF Opening, Aside
  <1>2. CASE s \in Seq(Aside)
    <2>1. a \in Seq(Aside)
      BY <1>1, SeqMonotonic
    <2> QED
      BY <1>2, <2>1, ConcatProperties DEF UpdateList
  <1>3. CASE ToSettle(s)
    <2>1. PICK b \in Seq(Opening), t \in Seq(Aside) : s = b \o (<<"settle">> \o t)
      BY <1>3 DEF ToSettle
    <2>2. a \in Seq(S) /\ b \in Seq(S) /\ t \in Seq(S) /\ <<"settle">> \in Seq(S)
      BY SeqMonotonic, InListsOfOne
    <2> HIDE DEF S
    <2>3. <<"settle">> \o t \in Seq(S)
      BY <2>2, ConcatProperties
    <2>4. a \o s = (a \o b) \o (<<"settle">> \o t)
      <3>1. (a \o b) \o (<<"settle">> \o t) = a \o (b \o (<<"settle">> \o t))
        BY <2>2, <2>3, ConcatAssociative, SMTT(30)
      <3> QED
        BY <2>1, <3>1
    <2>5. a \o b \in Seq(Opening)
      BY ConcatProperties
    <2> QED
      BY <2>4, <2>5 DEF ToSettle, UpdateList
  <1> QED
    BY <1>2, <1>3 DEF UpdateList

LEMMA FollowedBy ==
    ASSUME NEW u \in Seq(Aside), NEW s, UpdateList(s)
    PROVE  UpdateList(s \o u)
  <1> DEFINE S == Opening \cup Aside \cup {"settle"}
  <1>1. CASE s \in Seq(Aside)
    BY <1>1, ConcatProperties DEF UpdateList
  <1>2. CASE ToSettle(s)
    <2>1. PICK b \in Seq(Opening), t \in Seq(Aside) : s = b \o (<<"settle">> \o t)
      BY <1>2 DEF ToSettle
    <2>2. u \in Seq(S) /\ b \in Seq(S) /\ t \in Seq(S) /\ <<"settle">> \in Seq(S)
      BY SeqMonotonic, InListsOfOne
    <2> HIDE DEF S
    <2>3. <<"settle">> \o t \in Seq(S)
      BY <2>2, ConcatProperties
    <2>4. s \o u = b \o ((<<"settle">> \o t) \o u)
      BY <2>1, <2>2, <2>3, ConcatAssociative
    <2>5. (<<"settle">> \o t) \o u = <<"settle">> \o (t \o u)
      BY <2>2, ConcatAssociative
    <2>6. t \o u \in Seq(Aside)
      BY ConcatProperties
    <2> QED
      BY <2>4, <2>5, <2>6 DEF ToSettle, UpdateList
  <1> QED
    BY <1>1, <1>2 DEF UpdateList

LEMMA SettledFirst ==
    ASSUME NEW t \in Seq(Aside)
    PROVE  UpdateList(<<"settle">> \o t)
  <1>1. <<>> \in Seq(Opening) /\ <<"settle">> \o t \in Seq(Aside \cup {"settle"})
    <2>1. t \in Seq(Aside \cup {"settle"}) /\ <<"settle">> \in Seq(Aside \cup {"settle"})
      BY SeqMonotonic
    <2> QED
      BY <2>1, ConcatProperties
  <1>2. <<>> \o (<<"settle">> \o t) = <<"settle">> \o t
    BY <1>1, ConcatEmptySeq
  <1> QED
    BY <1>1, <1>2 DEF UpdateList, ToSettle

LEMMA HookedList ==
    ASSUME NEW s, UpdateList(s)
    PROVE  UpdateList(Hooked(s))
  <1>1. <<"hook">> \in Seq(Opening) /\ <<"hook">> \in Seq(Aside)
    BY DEF Opening, Aside
  <1> QED
    BY <1>1, OpenedBy, FollowedBy DEF Hooked

LEMMA AtomicList ==
    ASSUME NEW c, NEW inside, NEW s, UpdateList(s)
    PROVE  UpdateList(Atomically(c, inside, s))
  <1>1. <<"begin">> \in Seq(Opening) /\ <<"commit">> \in Seq(Aside)
    BY DEF Opening, Aside
  <1> QED
    BY <1>1, OpenedBy, FollowedBy DEF Atomically

LEMMA UpdateStarts ==
    ASSUME NEW c, c.op = "update"
    PROVE  UpdateList(Program(c))
  <1>1. /\ <<"settle", "match", "readBack">> = <<"settle">> \o <<"match", "readBack">>
        /\ <<"settle", "readBack">> = <<"settle">> \o <<"readBack">>
    BY Pair, FrontOfTuple
  <1>2. /\ <<"match", "readBack">> \in Seq(Aside) /\ <<"readBack">> \in Seq(Aside) /\ <<>> \in Seq(Aside)
        /\ <<"match">> \in Seq(Aside) /\ <<"where">> \in Seq(Aside) /\ <<"commit">> \in Seq(Aside)
    BY DEF Aside
  <1>3. <<"settle">> = <<"settle">> \o <<>>
    BY InListsOfOne, ConcatEmptySeq
  <1>4. /\ UpdateList(<<"settle", "match", "readBack">>) /\ UpdateList(<<"settle", "readBack">>)
        /\ UpdateList(<<"settle">>) /\ UpdateList(<<"match">>) /\ UpdateList(<<"where">>)
    BY <1>1, <1>2, <1>3, SettledFirst DEF UpdateList
  <1>5. \A inside : UpdateList(UpdateRows(c, inside))
    BY <1>4, AtomicList DEF UpdateRows
  <1>6. UpdateList(CallBody(c))
    <2>1. CallBody(c) = UpdateWhere(c)
      BY DEF CallBody
    <2> QED
      BY <1>4, <1>5, <2>1, HookedList, AtomicList DEF UpdateWhere
  <1> DEFINE reading == IF plan.versioned /\ c.op \in {"update", "upsert"} THEN <<"load">> ELSE <<>>
  <1>7. reading \in Seq(Opening) /\ <<"begin">> \in Seq(Opening)
    <2>1. "begin" \in Opening /\ (plan.versioned => "load" \in Opening)
      BY DEF Opening
    <2> QED
      BY <2>1, InListsOfOne
  <1>8. Program(c) = IF c.outer THEN <<"begin">> \o reading \o CallBody(c) \o <<"commit">> ELSE reading \o CallBody(c)
    BY DEF Program
  <1> HIDE DEF reading
  <1>9. <<"begin">> \o reading \in Seq(Opening)
    BY <1>7, ConcatProperties
  <1>10. UpdateList((<<"begin">> \o reading) \o CallBody(c))
    BY <1>6, <1>9, OpenedBy
  <1>11. UpdateList(((<<"begin">> \o reading) \o CallBody(c)) \o <<"commit">>)
    BY <1>2, <1>10, FollowedBy
  <1>12. UpdateList(reading \o CallBody(c))
    BY <1>6, <1>7, OpenedBy
  <1> QED
    BY <1>8, <1>11, <1>12

\* A step that throws for no reason of the program leaves the tables.
Faults(f) ==
    /\ \E why : fl' = [fl EXCEPT ![f] = Thrown(f, why)]
    /\ plan' = plan /\ rows' = rows /\ base' = base /\ lock' = lock

\* Which step it is that a flow at some statement takes.
LEMMA StepAt ==
    ASSUME NEW f, Write(f), ~Faults(f)
    PROVE  LET step == Head(fl[f].todo)
           IN  /\ fl[f].todo # <<>>
               /\ step = "begin" => Begin(f)
               /\ step = "hook" => Hook(f)
               /\ step = "commit" => Commit(f)
               /\ step = "rollback" => Rollback(f)
               /\ step = "load" => Load(f)
               /\ step = "settle" => Settle(f)
               /\ step = "columns" => Columns(f)
               /\ step = "find" => ReadThenUpsert(f)
               /\ step = "found" => Found(f)
               /\ step = "reread" => ThrowStaleVersion(f)
               /\ step = "match" => Match(f)
               /\ step = "doom" => Doom(f)
               /\ step = "readBack" => ReadBack(f)
               /\ step = "insert" => InsertRows(f)
               /\ step = "save" => SaveChildren(f)
               /\ step = "drop" => DropUnlisted(f)
               /\ step = "children" => DeleteChildren(f)
               /\ step = "remove" => InternalDelete(f)
  <1>1. Begin(f) \/ Commit(f) \/ Rollback(f) \/ Hook(f) \/ Statement(f)
    BY DEF Write, Proceeds, Faults, HookThrows, Refused, Deadlocked, Racer, Throw, store
  <1>2. CASE Begin(f) \/ Commit(f) \/ Rollback(f) \/ Hook(f)
    BY <1>2 DEF Begin, Commit, Rollback, Hook, Ready, At
  <1>3. CASE Statement(f)
    BY <1>3 DEF Statement, Load, Match, ThrowStaleVersion, Where, Settle, Columns, DropUnlisted, SaveChildren, ReadBack,
                ReadThenUpsert, Found, InsertRows, Merge, Doom, DeleteChildren, InternalDelete, Restore, Ready, At
  <1> QED
    BY <1>1, <1>2, <1>3

LEMMA ThrownClaims ==
    ASSUME WriteInv, NEW f \in Flow, Faults(f)
    PROVE  Claims(f)'
  <1>1. PICK why : fl' = [fl EXCEPT ![f] = Thrown(f, why)]
    BY DEF Faults
  <1>2. <<"rollback">> \in Seq(Aside) /\ <<>> \in Seq(Aside)
    BY DEF Aside
  <1>3. fl'[f].todo \in Seq(Aside)
    <2>1. Thrown(f, why).todo \in {<<>>, <<"rollback">>}
      BY ThrownList
    <2>2. fl'[f] = Thrown(f, why)
      BY <1>1 DEF WriteInv
    <2> QED
      BY <1>2, <2>1, <2>2
  <1> QED
    BY <1>3 DEF Claims

LEMMA AsideCloses == ClosedSteps(Aside)
  BY DEF ClosedSteps, Aside

\* What an update claimed stays claimed through the steps of others.
LEMMA OthersLetClaim ==
    ASSUME WriteInv, NEW h \in Flow, NEW f \in Flow \ {h}, Write(h), Claims(f)
    PROVE  Claims(f)'
  <1>1. /\ plan' = plan /\ fl'[f] = fl[f]
        /\ \A k \in Key : /\ lock'[k] = f <=> lock[k] = f
                          /\ lock[k] = f => rows'[k] = rows[k] /\ base'[k] = base[k]
    BY OthersLeave
  <1>2. Call(f)' = Call(f) /\ Opening' = Opening
    BY <1>1 DEF Call, Opening
  <1>3. \A todo : ToSettle(todo)' <=> ToSettle(todo)
    BY <1>2 DEF ToSettle
  <1>4. Unread(f) => Unread(f)'
    BY <1>1 DEF Unread
  <1>5. ASSUME Claimed(f) PROVE Claimed(f)'
    <2>1. ASSUME NEW i \in DOMAIN fl[f].queue, NEW k \in fl[f].queue[i] PROVE ClaimedRow(f, k)'
      <3>1. fl[f].queue \in Seq(SUBSET Call(f).ids) /\ Call(f).ids \subseteq Key
        BY CallTyped DEF WriteInv, Keeps
      <3>2. k \in Key
        BY <3>1, ElementOfSeq
      <3>3. ClaimedRow(f, k)
        BY <1>5 DEF Claimed
      <3> QED
        BY <1>1, <1>2, <3>2, <3>3 DEF ClaimedRow, Matches, Asked
    <2> QED
      BY <1>1, <1>5, <2>1 DEF Claimed
  <1> QED
    BY <1>1, <1>3, <1>4, <1>5 DEF Claims

\* Where an update stands that will settle its rows, after a step other than that.
LEMMA OpeningClaims ==
    ASSUME WriteInv, NEW f \in Flow, ToSettle(fl[f].todo), Unread(f), Write(f), ~Settle(f)
    PROVE  Claims(f)'
  <1> DEFINE todo == fl[f].todo
  <1>1. DOMAIN fl = Flow /\ DOMAIN fl[f] = Fields /\ todo # <<>>
    BY SettlesAhead DEF WriteInv, Keeps
  <1>2. CASE Faults(f)
    BY <1>2, ThrownClaims
  <1>3. CASE ~Faults(f)
    <2>1. Begin(f) \/ Hook(f) \/ (Load(f) /\ plan.versioned)
      BY <1>3, SettlesAhead, StepAt DEF Opening
    <2>2. Head(todo) # "settle" /\ plan' = plan
      BY <2>1, StepKinds DEF Begin, Hook, Load, Ready, At
    <2>3. ToSettle(Tail(todo)) /\ Tail(todo) \in Seq(Step(Call(f)))
      <3>1. todo \in Seq(Step(Call(f)))
        BY DEF WriteInv, Keeps, Shape
      <3> QED
        BY <1>1, <2>2, <3>1, SettlesAhead, HeadTailProperties
    <2>4. Goes(f).todo = Tail(todo) /\ Goes(f).snap = fl[f].snap /\ DOMAIN Goes(f) = Fields
      <3>1. <<>> \o Tail(todo) = Tail(todo)
        BY <2>3, ConcatEmptySeq
      <3> QED
        BY <1>1, <3>1 DEF Goes, Then, Fields
    <2>5. \A t : ToSettle(t)' <=> ToSettle(t)
      BY <2>2 DEF ToSettle, Opening
    <2>6. CASE Begin(f)
      <3>1. fl'[f].todo = Tail(todo) /\ fl'[f].snap = fl[f].snap
        BY <1>1, <2>4, <2>6 DEF Begin, Fields
      <3>2. plan.engine = "upgrade" => lock' = lock
        BY <2>6 DEF Begin
      <3> QED
        BY <2>2, <2>3, <2>5, <3>1, <3>2 DEF Claims, Unread
    <2>7. CASE Hook(f)
      <3>1. fl'[f].todo = Tail(todo) /\ fl'[f].snap = fl[f].snap /\ lock' = lock
        BY <1>1, <2>4, <2>7 DEF Hook, store
      <3> QED
        BY <2>2, <2>3, <2>5, <3>1 DEF Claims, Unread
    <2>8. CASE Load(f) /\ plan.versioned
      <3>1. fl'[f].todo \in {Tail(todo), <<"commit">>, <<>>}
        BY <1>1, <2>4, <2>8 DEF Load, Sends, Fields
      <3>2. <<"commit">> \in Seq(Aside) /\ <<>> \in Seq(Aside)
        BY DEF Aside
      <3> QED
        BY <2>2, <2>3, <2>5, <2>8, <3>1, <3>2 DEF Claims, Unread
    <2> QED
      BY <2>1, <2>6, <2>7, <2>8
  <1> QED
    BY <1>2, <1>3

\* No row is in two of the lists a set is cut into.
LEMMA ListsApart ==
    ASSUME NEW ks, NEW n
    PROVE  LET q == InLists(ks, n)
           IN  /\ \A i \in DOMAIN q : q[i] \subseteq ks
               /\ \A i, j \in DOMAIN q : i # j => q[i] \cap q[j] = {}
  <1> DEFINE m == (Cardinality(ks) + n - 1) \div n
             rank(k) == Cardinality({j \in ks : j < k}) \div n
             q == InLists(ks, n)
  <1>1. DOMAIN q = 1..m /\ \A i \in 1..m : q[i] = {k \in ks : rank(k) = i - 1}
    BY DEF InLists
  <1> HIDE DEF m, q, rank
  <1>2. \A i, j \in 1..m : i # j => i - 1 # j - 1
    OBVIOUS
  <1>3. \A i, j \in DOMAIN q : i # j => q[i] \cap q[j] = {}
    BY <1>1, <1>2
  <1> QED
    BY <1>1, <1>3 DEF q

\* The rows an update settles it claims.
LEMMA SettleClaims ==
    ASSUME WriteInv, AllHeld, NEW f \in Flow, Call(f).op = "update", ToSettle(fl[f].todo), Unread(f), Settle(f)
    PROVE  Claims(f)'
  <1> DEFINE ids == SettleIds(f)
             c == Call(f)
             writes == IF ids = {} \/ plan.versioned THEN <<>> ELSE SettledWrite(c)
             rest == Tail(fl[f].todo)
             queue == Chunks(ids)
             kept == [Then(f, writes) EXCEPT !.ids = ids, !.queue = queue]
             after == [kept EXCEPT !.snap = Snapshot(f, ~Locking(f))]
             relations == IF WritesRelations(c) THEN <<"drop", "save">> ELSE <<>>
  <1>1. /\ "settle" \in Together /\ At(f, "settle") /\ Free(f) /\ Sends(f, after, <<>>, Held(f, ids))
    BY DEF Together, Settle, Ready, Reads
  <1>2. Sending(f, "settle") /\ Needs(f) = Held(f, ids) /\ fl[f].inTx
    BY <1>1, IsSending, NeedsAt DEF Sending
  <1>3. rest \in Seq(Aside) /\ DOMAIN fl[f] = Fields /\ DOMAIN fl = Flow
    BY <1>1, SettlesAhead DEF At, Opening, WriteInv, Keeps
  <1>4. fl'[f] = after /\ plan' = plan
    BY <1>1, <1>3 DEF Sends
  <1>5. /\ after.todo = writes \o rest /\ after.queue = queue
        /\ after.snap = Snapshot(f, ~Locking(f))
    BY <1>3 DEF Then, Fields
  <1> HIDE DEF after, kept
  <1>6. CASE writes = <<>> \/ ~c.columns
    <2>1. writes \in Seq(Aside)
      <3>1. <<"drop", "save">> \in Seq(Aside) /\ <<>> \in Seq(Aside)
        BY DEF Aside
      <3>2. relations \in Seq(Aside)
        BY <3>1
      <3> HIDE DEF relations
      <3>3. <<>> \o relations = relations
        BY <3>2, ConcatEmptySeq
      <3>4. ~c.columns => SettledWrite(c) = <<>> \o relations
        BY DEF SettledWrite, relations
      <3> QED
        BY <1>6, <3>1, <3>2, <3>3, <3>4
    <2> HIDE DEF writes
    <2>2. writes \o rest \in Seq(Aside)
      BY <1>3, <2>1, ConcatProperties
    <2> QED
      BY <1>4, <1>5, <2>2 DEF Claims
  <1>7. CASE writes # <<>> /\ c.columns
    <2>1. ~plan.versioned /\ writes = <<"columns">> \o relations
      BY <1>7 DEF SettledWrite
    <2>2. ToWrite(writes \o rest)
      <3> DEFINE S == Aside \cup {"columns"}
      <3>1. <<"drop", "save">> \in Seq(Aside) /\ <<>> \in Seq(Aside)
        BY DEF Aside
      <3>2. relations \in Seq(Aside) /\ <<"columns">> \in Seq(S)
        BY <3>1
      <3> HIDE DEF relations, writes, S, rest
      <3>3. relations \in Seq(S) /\ rest \in Seq(S)
        BY <1>3, <3>2, SeqMonotonic DEF S
      <3>4. writes \o rest = <<"columns">> \o (relations \o rest)
        BY <2>1, <3>2, <3>3, ConcatAssociative
      <3>5. relations \o rest \in Seq(Aside) /\ relations \o rest \in Seq(S)
        BY <1>3, <3>2, <3>3, ConcatProperties
      <3>6. <<"columns">> # <<>> /\ Head(<<"columns">>) = "columns" /\ Tail(<<"columns">>) = <<>>
        OBVIOUS
      <3>7. <<>> \o (relations \o rest) = relations \o rest
        BY <3>5, ConcatEmptySeq
      <3>8. /\ writes \o rest # <<>> /\ Head(writes \o rest) = "columns"
            /\ Tail(writes \o rest) = <<>> \o (relations \o rest)
        BY <3>2, <3>4, <3>5, <3>6, TailOfFront
      <3> QED
        BY <3>5, <3>7, <3>8 DEF ToWrite
    <2>3. fl[f].snap = None /\ (plan.engine = "upgrade" => \A k \in Key : lock[k] # f)
      BY <2>1 DEF Unread
    <2>4. /\ rows' = rows /\ base' = base
          /\ \A k \in Key : lock'[k] = IF k \in Held(f, ids) THEN f ELSE lock[k]
      <3>1. rows \in [Key -> Row \cup {None}] /\ base \in [Key -> Row \cup {None}]
        BY DEF WriteInv, Tables
      <3>2. DOMAIN <<>> = {}
        OBVIOUS
      <3>3. rows' = [k \in Key |-> rows[k]] /\ base' = base
        BY <1>1, <1>2, <3>2 DEF Sends, Put
      <3> QED
        BY <1>1, <1>2, <3>1, <3>3 DEF Sends
    <2>5. ASSUME NEW k \in ids PROVE ClaimedRow(f, k)'
      <3>1. k \in Key /\ Matches(c, ReadForWrite(f)[k])
        BY <1>2 DEF SettleIds, FirstOf, Filtered, Matches, Sending
      <3>2. ReadForWrite(f)[k] = IF lock[k] = f THEN rows[k] ELSE base[k]
        BY <2>3, <3>1, AtRow DEF ReadForWrite, View
      <3>3. c' = c
        BY <1>4 DEF Call
      <3>4. CASE plan.engine = "upgrade"
        <4>1. after.snap = base /\ lock'[k] # f
          BY <1>2, <1>5, <2>3, <2>4, <3>1, <3>4 DEF Snapshot, Held, Locking, RowLocks
        <4>2. base # None
          BY SnapshotAssumption DEF WriteInv, Tables
        <4> QED
          BY <1>4, <2>3, <3>1, <3>2, <3>3, <3>4, <4>1, <4>2 DEF ClaimedRow, Matches, Asked
      <3>5. CASE plan.engine = "begin"
        <4>1. lock[k] = f /\ lock'[k] = f
          BY <1>2, <2>4, <3>1, <3>5 DEF AllHeld
        <4> QED
          BY <1>4, <2>4, <3>1, <3>2, <3>3, <3>5, <4>1 DEF ClaimedRow, Matches, Asked
      <3>6. CASE RowLocks
        <4>1. lock'[k] = f /\ lock[k] \in {None, f}
          BY <1>1, <1>2, <2>4, <3>1, <3>6, FreeToHave DEF Held, Locking
        <4>2. lock[k] = None => rows[k] = base[k]
          BY <3>1 DEF WriteInv, Tables
        <4>3. f # None
          BY WriterAssumption
        <4> QED
          BY <1>4, <2>4, <3>1, <3>2, <3>3, <3>6, <4>1, <4>2, <4>3 DEF ClaimedRow, Matches, Asked, RowLocks
      <3>7. plan.engine \in Engine
        BY PlanAssumption DEF WriteInv
      <3> QED
        BY <3>4, <3>5, <3>6, <3>7 DEF Engine, RowLocks
    <2>6. Claimed(f)'
      <3>1. /\ \A i \in DOMAIN queue : queue[i] \subseteq ids
            /\ \A i, j \in DOMAIN queue : i # j => queue[i] \cap queue[j] = {}
        BY ListsApart DEF Chunks
      <3> HIDE DEF queue
      <3> QED
        BY <1>4, <1>5, <2>5, <3>1 DEF Claimed
    <2> QED
      BY <1>4, <1>5, <2>2, <2>6 DEF Claims
  <1> QED
    BY <1>6, <1>7

\* What a write of one batch leaves of the claims on the others.
LEMMA ColumnsClaims ==
    ASSUME WriteInv, NEW f \in Flow, ToWrite(fl[f].todo), Claimed(f), Columns(f)
    PROVE  Claims(f)'
  <1> DEFINE hit == Updatable(f, Batch(f))
             new == [k \in hit |-> Touched(f, Current(f)[k])]
             more == Len(fl[f].queue) > 1
             before == IF more THEN fl[f] ELSE Goes(f)
             kept == [before EXCEPT !.queue = Behind(f)]
             after == [kept EXCEPT !.snap = Snapshot(f, FALSE)]
             q == fl[f].queue
  <1>1. /\ "columns" \in Together /\ At(f, "columns") /\ Free(f) /\ Sends(f, after, new, Written(DOMAIN new))
    BY DEF Together, Columns, Ready, Writes
  <1>2. Sending(f, "columns") /\ Needs(f) = Written(hit) /\ fl[f].inTx
    BY <1>1, IsSending, NeedsAt DEF Sending
  <1>3. Tail(fl[f].todo) \in Seq(Aside) /\ DOMAIN fl[f] = Fields /\ DOMAIN fl = Flow
    BY DEF ToWrite, WriteInv, Keeps
  <1>4. fl'[f] = after /\ plan' = plan
    BY <1>1, <1>3 DEF Sends
  <1>5. Goes(f).todo = Tail(fl[f].todo) /\ DOMAIN Goes(f) = Fields
    <2>1. <<>> \o Tail(fl[f].todo) = Tail(fl[f].todo)
      BY <1>3, ConcatEmptySeq
    <2> QED
      BY <1>3, <2>1 DEF Goes, Then, Fields
  <1>6. /\ after.todo = IF more THEN fl[f].todo ELSE Tail(fl[f].todo)
        /\ after.queue = Behind(f) /\ after.snap = Snapshot(f, FALSE)
    BY <1>3, <1>5 DEF Fields
  <1>7. DOMAIN new = hit
    OBVIOUS
  <1> HIDE DEF after, kept, before, new
  <1>8. CASE ~more
    BY <1>3, <1>4, <1>6, <1>8 DEF Claims
  <1>9. CASE more
    <2>1. /\ q \in Seq(SUBSET Call(f).ids) /\ Call(f).ids \subseteq Key
      BY <1>2 DEF WriteInv, Keeps, Sending
    <2>2. q # <<>>
      <3>1. Len(<<>>) = 0
        OBVIOUS
      <3> HIDE DEF q
      <3> QED
        BY <1>9, <3>1 DEF q
    <2>3. /\ Behind(f) = Tail(q) /\ Batch(f) = q[1] /\ Len(q) \in Nat
          /\ DOMAIN q = 1..Len(q) /\ DOMAIN Tail(q) = 1..Len(q) - 1
          /\ \A i \in 1..Len(q) - 1 : Tail(q)[i] = q[i + 1] /\ i + 1 \in 2..Len(q)
          /\ 1 \in 1..Len(q)
      BY <2>1, <2>2, TailItems DEF Behind, Batch
    <2> HIDE DEF q
    <2>4. /\ \A k \in Key : rows'[k] = IF k \in hit THEN new[k] ELSE rows[k]
          /\ base' = base
          /\ \A k \in Key : lock'[k] = IF k \in Written(hit) THEN f ELSE lock[k]
      BY <1>1, <1>2, <1>7 DEF Sends, Put
    <2>5. \A k \in Key : k \in Written(hit) => lock[k] \in {None, f}
      BY <1>1, <1>2, FreeToHave
    <2>6. ASSUME NEW i \in 1..Len(q) - 1, NEW k \in Tail(q)[i] PROVE ClaimedRow(f, k)'
      <3>1. k \in q[i + 1] /\ i + 1 \in DOMAIN q /\ i + 1 # 1
        BY <2>3
      <3>2. k \in Key
        BY <2>1, <2>3, <3>1, ElementOfSeq
      <3>3. ClaimedRow(f, k) /\ k \notin Batch(f)
        BY <2>3, <3>1 DEF Claimed, q
      <3>4. rows'[k] = rows[k] /\ k \notin hit
        BY <2>4, <3>2, <3>3 DEF Updatable
      <3>5. Call(f)' = Call(f)
        BY <1>4 DEF Call
      <3>6. CASE plan.engine = "upgrade"
        <4>1. after.snap = fl[f].snap
          BY <1>6, <3>3, <3>6 DEF Snapshot, ClaimedRow
        <4>2. lock[k] \in {None, f}
          BY <2>5, <3>2, <3>6 DEF Written, RowLocks
        <4>3. lock[k] = None => rows[k] = base[k]
          BY <3>2 DEF WriteInv, Tables
        <4> QED
          BY <1>4, <2>4, <3>3, <3>4, <3>5, <3>6, <4>1, <4>2, <4>3 DEF ClaimedRow, Matches, Asked
      <3>7. CASE plan.engine # "upgrade"
        BY <1>4, <2>4, <3>2, <3>3, <3>4, <3>5, <3>7 DEF ClaimedRow, Matches, Asked
      <3> QED
        BY <3>6, <3>7
    <2>7. \A i, j \in 1..Len(q) - 1 : i # j => Tail(q)[i] \cap Tail(q)[j] = {}
      <3>1. \A i, j \in DOMAIN q : i # j => q[i] \cap q[j] = {}
        BY DEF Claimed, q
      <3>2. ASSUME NEW i \in 1..Len(q) - 1, NEW j \in 1..Len(q) - 1, i # j
            PROVE  q[i + 1] \cap q[j + 1] = {}
        <4>1. i + 1 \in DOMAIN q /\ j + 1 \in DOMAIN q /\ i + 1 # j + 1
          BY <2>3, <3>2
        <4> QED
          BY <3>1, <4>1
      <3> QED
        BY <2>3, <3>2
    <2>8. Claimed(f)'
      BY <1>4, <1>6, <2>3, <2>6, <2>7 DEF Claimed
    <2>9. fl'[f].todo = fl[f].todo
      BY <1>4, <1>6, <1>9
    <2> QED
      BY <2>8, <2>9 DEF Claims, ToWrite
  <1> QED
    BY <1>8, <1>9

LEMMA OwnStepClaims ==
    ASSUME WriteInv, AllHeld, NEW f \in Flow, Call(f).op = "update", Claims(f), Write(f)
    PROVE  Claims(f)'
  <1>1. CASE fl[f].todo \in Seq(Aside)
    BY <1>1, AsideCloses, ListStays DEF Claims
  <1>2. CASE ToSettle(fl[f].todo) /\ Unread(f)
    BY <1>2, SettleClaims, OpeningClaims
  <1>3. CASE ToWrite(fl[f].todo) /\ Claimed(f)
    <2>1. Faults(f) \/ Columns(f)
      BY <1>3, StepAt DEF ToWrite
    <2> QED
      BY <1>3, <2>1, ThrownClaims, ColumnsClaims
  <1> QED
    BY <1>1, <1>2, <1>3 DEF Claims

LEMMA ClaimsStart == Init => ClaimInv
  <1> SUFFICES ASSUME Init PROVE ClaimInv
    OBVIOUS
  <1>1. WriteInv
    BY WritesStart
  <1>2. \A f \in Flow : fl[f] = Idle(Call(f)) /\ ~fl[f].inTx /\ fl[f].snap = None
    BY DEF Init, Idle
  <1>3. AllHeld
    BY <1>2 DEF AllHeld
  <1>4. ASSUME NEW f \in Flow, Call(f).op = "update" PROVE Claims(f)
    <2>1. UpdateList(fl[f].todo)
      <3>1. Idle(Call(f)).todo = Program(Call(f))
        BY DEF Idle
      <3>2. UpdateList(Program(Call(f)))
        BY <1>4, UpdateStarts
      <3> QED
        BY <1>2, <3>1, <3>2
    <2>2. \A k \in Key : lock[k] # f
      BY WriterAssumption DEF Init
    <2> QED
      BY <1>2, <2>1, <2>2 DEF Claims, UpdateList, Unread
  <1> QED
    BY <1>1, <1>3, <1>4 DEF ClaimInv

LEMMA ClaimsStay == ClaimInv /\ [Next]_vars => ClaimInv'
  <1> SUFFICES ASSUME ClaimInv, [Next]_vars PROVE ClaimInv'
    OBVIOUS
  <1>1. WriteInv' /\ WriteInv /\ AllHeld
    BY NextKeeps DEF ClaimInv
  <1>2. CASE UNCHANGED vars
    <2>1. plan' = plan /\ rows' = rows /\ base' = base /\ lock' = lock /\ fl' = fl
      BY <1>2 DEF vars
    <2>2. AllHeld'
      BY <1>1, <2>1 DEF AllHeld
    <2>3. ASSUME NEW f \in Flow PROVE Call(f)' = Call(f) /\ (Claims(f) => Claims(f)')
      <3>1. Call(f)' = Call(f) /\ Opening' = Opening
        BY <2>1 DEF Call, Opening
      <3>2. \A todo : ToSettle(todo)' <=> ToSettle(todo)
        BY <3>1 DEF ToSettle
      <3>3. Unread(f) => Unread(f)'
        BY <2>1 DEF Unread
      <3>4. Claimed(f) => Claimed(f)'
        BY <2>1, <3>1 DEF Claimed, ClaimedRow, Matches, Asked
      <3> QED
        BY <2>1, <3>1, <3>2, <3>3, <3>4 DEF Claims
    <2> QED
      BY <1>1, <2>2, <2>3 DEF ClaimInv
  <1>3. CASE Next
    <2>1. PICK h \in Flow : Write(h)
      BY <1>3 DEF Next
    <2>2. AllHeld' /\ plan' = plan
      BY <1>1, <2>1, AllHeldStays, StepKinds
    <2>3. ASSUME NEW f \in Flow, Call(f)'.op = "update" PROVE Claims(f)'
      <3>1. Claims(f) /\ Call(f).op = "update"
        BY <2>2, <2>3 DEF ClaimInv, Call
      <3> QED
        BY <1>1, <2>1, <3>1, OwnStepClaims, OthersLetClaim
    <2> QED
      BY <1>1, <2>2, <2>3 DEF ClaimInv
  <1> QED
    BY <1>2, <1>3

\* A batch is written as it was claimed: nobody changed its rows since, on whichever of the engines.
LEMMA WritesClaimed ==
    ASSUME ClaimInv, [Next]_vars, NEW f \in Flow, NEW k \in Parent,
           At(f, "columns"), Call(f).op = "update", fl'[f] # fl[f], rows'[k] # rows[k]
    PROVE  Matches(Call(f), rows[k])
  <1>1. WriteInv /\ Claims(f) /\ k \in Key
    BY DEF ClaimInv, Key
  <1>2. PICK h \in Flow : Write(h)
    BY DEF Next, vars
  <1>3. Write(f)
    BY <1>1, <1>2, OthersLeave
  <1>4. Columns(f)
    BY <1>3, StepAt DEF At, Faults
  <1> DEFINE hit == Updatable(f, Batch(f))
             q == fl[f].queue
  <1>5. /\ "columns" \in Together /\ Free(f) /\ ~Overtaken(f)
        /\ \E new, locked, kept : DOMAIN new = hit /\ Sends(f, kept, new, locked)
    BY <1>4 DEF Together, Columns, Ready, Writes
  <1>6. k \in hit
    BY <1>1, <1>5 DEF Sends, Put
  <1>7. Sending(f, "columns") /\ Needs(f) = Written(hit)
    BY <1>1, <1>5, IsSending, NeedsAt DEF Sending
  <1>8. lock[k] \in {None, f}
    BY <1>1, <1>5, <1>6, <1>7, FreeToHave DEF Written
  <1>9. Current(f)[k] = rows[k] /\ (lock[k] = None => rows[k] = base[k])
    BY <1>1, <1>8, AtRow DEF WriteInv, Tables
  <1>10. rows[k] # None /\ ~rows[k].del /\ k \in Batch(f)
    BY <1>6, <1>9 DEF Updatable
  <1>11. ClaimedRow(f, k)
    <2>1. Claimed(f)
      <3>1. Head(fl[f].todo) \notin Aside \cup Opening /\ Head(fl[f].todo) # "settle"
        BY DEF At, Aside, Opening
      <3>2. fl[f].todo \notin Seq(Aside)
        BY <3>1, HeadTailProperties DEF At
      <3> QED
        BY <1>1, <3>1, <3>2, SettlesAhead DEF Claims
    <2>2. q \in Seq(SUBSET Call(f).ids) /\ q # <<>> /\ Batch(f) = Head(q)
      <3>1. q # <<>>
        BY <1>10 DEF Batch
      <3> QED
        BY <1>1, <3>1 DEF WriteInv, Keeps, Batch
    <2>3. Batch(f) = q[1] /\ 1 \in DOMAIN q
      BY <2>2, TailItems
    <2> QED
      BY <1>10, <2>1, <2>3 DEF Claimed
  <1>12. plan.engine = "upgrade" => fl[f].snap = base
    BY <1>5, <1>11 DEF Overtaken, ClaimedRow
  <1>13. Matches(Call(f), rows[k])
    BY <1>8, <1>9, <1>11, <1>12 DEF ClaimedRow
  <1> QED
    BY <1>13

\* Two flows that claim rows by what their filter finds never claim the same, whatever the engine: an update writes
\* no row that another flow has meanwhile changed into one its filter does not name (`settleIds`, `readForWrite`).
THEOREM WritesOnlyMatchingAlways == Spec => WritesOnlyMatching
  <1>1. ClaimInv /\ [Next]_vars =>
          [\A f \in Flow, k \in Parent :
              At(f, "columns") /\ Call(f).op = "update" /\ fl'[f] # fl[f] /\ rows'[k] # rows[k]
              => Matches(Call(f), rows[k])]_vars
    BY WritesClaimed
  <1> QED
    BY <1>1, ClaimsStart, ClaimsStay, PTL DEF Spec, WritesOnlyMatching

-----------------------------------------------------------------------------
(***************************************************************************)
(* The rows an upsert goes on past.                                        *)
(***************************************************************************)
\* The second read of a transaction its caller read in may be of an earlier snapshot than what the update saw.
Exempt(f) == plan.engine = "repeatable" /\ Call(f).outer

\* The steps at which no row is gone on past, nor comes to be.
Quiet == {"load", "begin", "hook", "settle", "columns", "where", "drop", "save", "insert", "merge", "readBack", "doom",
          "children", "remove", "restore", "commit", "rollback"}
\* What is left of an upsert that reads its rows first: up to that read, and after it.
FindTodo(c) ==
    IF c.outer
    THEN {<<"begin", "load", "hook", "find", "hook", "commit">>, <<"begin", "hook", "find", "hook", "commit">>,
          <<"load", "hook", "find", "hook", "commit">>, <<"hook", "find", "hook", "commit">>, <<"find", "hook", "commit">>}
    ELSE {<<"load", "hook", "begin", "find", "commit", "hook">>, <<"hook", "begin", "find", "commit", "hook">>,
          <<"begin", "find", "commit", "hook">>, <<"find", "commit", "hook">>}
Afterwards == {"found", "insert", "save", "hook", "commit", "rollback"}

\* The rows it found, one at a time, it holds, or sees in a snapshot that no other may write over.
KeptRow(f, k) ==
    IF plan.engine = "upgrade" THEN fl[f].snap # None
    ELSE lock[k] = f /\ (fl[f].snap = None \/ fl[f].snap[k] = base[k])
Finds(f) ==
    /\ fl[f].inTx
    /\ \A i \in DOMAIN fl[f].queue : /\ \A j, k \in fl[f].queue[i] : j = k
                                     /\ \A k \in fl[f].queue[i] : KeptRow(f, k)

\* The row its update just missed stays as that saw it until it is read again.
Verdict(f, k, row) == IF row = None THEN "gone" ELSE IF row.ver # Expected(f, k) THEN "stale" ELSE "excluded"
Missed(f) ==
    /\ Batch(f) # {}
    /\ \A k \in Batch(f) : /\ lock[k] = f /\ (fl[f].snap = None \/ fl[f].snap[k] = base[k])
                           /\ fl[f].miss = Verdict(f, k, rows[k])

Upserts(f) ==
    \/ fl[f].todo \in Seq(Quiet)
    \/ fl[f].todo \in FindTodo(Call(f)) /\ (fl[f].snap = None \/ plan.engine = "upgrade")
    \/ Finds(f) /\ fl[f].todo \in Seq(Afterwards)
    \/ Finds(f) /\ At(f, "reread") /\ Tail(fl[f].todo) \in Seq(Afterwards) /\ Missed(f)
KeepInv ==
    /\ WriteInv /\ AllHeld
    /\ \A f \in Flow : ~Exempt(f) => /\ Call(f).op = "upsert" => Upserts(f)
                                     /\ fl[f].kept \subseteq {"excluded"}

LEMMA QuietCloses == ClosedSteps(Quiet)
  BY DEF ClosedSteps, Quiet

\* No other statement goes on past a row.
LEMMA KeptStays ==
    ASSUME WriteInv, NEW f \in Flow, Write(f), ~ThrowStaleVersion(f)
    PROVE  fl'[f].kept = fl[f].kept
  <1> DEFINE same(kept) == DOMAIN kept = Fields /\ kept.kept = fl[f].kept
  <1>1. DOMAIN fl = Flow /\ same(fl[f])
    BY DEF WriteInv, Keeps
  <1>2. \A kept : fl' = [fl EXCEPT ![f] = kept] => fl'[f] = kept
    BY <1>1
  <1>3. \A next : same(Then(f, next))
    BY <1>1 DEF Then, Fields
  <1>4. same(Goes(f))
    BY <1>3 DEF Goes
  <1>5. /\ \A kept, x : same(kept) => /\ same([kept EXCEPT !.queue = x]) /\ same([kept EXCEPT !.snap = x])
                                      /\ same([kept EXCEPT !.told = x]) /\ same([kept EXCEPT !.miss = x])
                                      /\ same([kept EXCEPT !.inTx = x])
        /\ \A kept, x, y : same(kept) => /\ same([kept EXCEPT !.ids = x, !.queue = y])
                                         /\ same([kept EXCEPT !.told = x, !.snap = y])
                                         /\ same([kept EXCEPT !.seen = x, !.todo = y])
        /\ \A kept, x, y, z : same(kept) => same([kept EXCEPT !.ids = x, !.queue = y, !.told = z])
    BY DEF Fields
  <1>6. \A why : fl' = [fl EXCEPT ![f] = Thrown(f, why)] => fl'[f].kept = fl[f].kept
    BY <1>2, ThrownList
  <1>7. \A why : Throw(f, why) => fl'[f].kept = fl[f].kept
    BY <1>6 DEF Throw
  <1>8. same(Closed(f))
    BY <1>1 DEF Closed, Fields
  <1> DEFINE sends(kept) == fl' = [fl EXCEPT ![f] = kept] /\ same(kept)
  <1>9. (\E kept : sends(kept)) => fl'[f].kept = fl[f].kept
    BY <1>2
  <1>10. \A kept, new : same(kept) /\ Writes(f, kept, new) => \E x : sends(x)
    <2> SUFFICES ASSUME NEW kept, NEW new, same(kept), Writes(f, kept, new)
                 PROVE  \E x : sends(x)
      OBVIOUS
    <2> DEFINE after == [kept EXCEPT !.snap = Snapshot(f, FALSE)]
    <2>1. fl' = [fl EXCEPT ![f] = after]
      BY DEF Writes, Sends
    <2>2. same(after)
      BY <1>5
    <2> QED
      BY <2>1, <2>2
  <1>11. \A kept, held : same(kept) /\ Reads(f, kept, held) => \E x : sends(x)
    <2> SUFFICES ASSUME NEW kept, NEW held, same(kept), Reads(f, kept, held)
                 PROVE  \E x : sends(x)
      OBVIOUS
    <2> DEFINE after == [kept EXCEPT !.snap = Snapshot(f, ~Locking(f))]
    <2>1. fl' = [fl EXCEPT ![f] = after]
      BY DEF Reads, Sends
    <2>2. same(after)
      BY <1>5
    <2> QED
      BY <2>1, <2>2
  <1> HIDE DEF same
  <1>12. CASE Begin(f)
    BY <1>4, <1>5, <1>9, <1>12 DEF Begin
  <1>13. CASE Commit(f) \/ Rollback(f)
    BY <1>8, <1>9, <1>13 DEF Commit, Rollback
  <1>14. CASE Hook(f)
    BY <1>4, <1>9, <1>14 DEF Hook
  <1>15. CASE HookThrows(f) \/ Refused(f) \/ Deadlocked(f) \/ Racer(f)
    BY <1>6, <1>7, <1>15 DEF HookThrows, Refused, Deadlocked, Racer
  <1>16. CASE Load(f)
    <2>1. PICK x, y, z : fl' = [fl EXCEPT ![f] = [[Goes(f) EXCEPT !.seen = x, !.todo = y] EXCEPT !.snap = z]]
      BY <1>16 DEF Load, Sends
    <2>2. same([[Goes(f) EXCEPT !.seen = x, !.todo = y] EXCEPT !.snap = z])
      BY <1>4, <1>5
    <2> QED
      BY <1>9, <2>1, <2>2
  <1>17. ASSUME NEW k, WriteAtVersion(f, k) PROVE fl'[f].kept = fl[f].kept
    <2>1. \/ \E x, y : Writes(f, [Goes(f) EXCEPT !.queue = x], y)
          \/ \E x, y : Writes(f, [Then(f, <<"reread">>) EXCEPT !.miss = x], y)
      BY <1>17 DEF WriteAtVersion
    <2>2. CASE \E x, y : Writes(f, [Goes(f) EXCEPT !.queue = x], y)
      <3>1. PICK x, y : Writes(f, [Goes(f) EXCEPT !.queue = x], y)
        BY <2>2
      <3> QED
        BY <1>4, <1>5, <1>9, <1>10, <3>1
    <2>3. CASE \E x, y : Writes(f, [Then(f, <<"reread">>) EXCEPT !.miss = x], y)
      <3>1. PICK x, y : Writes(f, [Then(f, <<"reread">>) EXCEPT !.miss = x], y)
        BY <2>3
      <3>2. same([Then(f, <<"reread">>) EXCEPT !.miss = x])
        BY <1>3, <1>5
      <3> QED
        BY <1>9, <1>10, <3>1, <3>2
    <2> QED
      BY <2>1, <2>2, <2>3
  <1>18. CASE Match(f)
    BY <1>17, <1>18 DEF Match
  <1>19. CASE Found(f)
    <2>1. \/ \E k : WriteAtVersion(f, k)
          \/ Throw(f, "unversioned")
          \/ \E x, y : Writes(f, [Goes(f) EXCEPT !.queue = x], y)
      BY <1>19 DEF Found
    <2>2. CASE \E x, y : Writes(f, [Goes(f) EXCEPT !.queue = x], y)
      <3>1. PICK x, y : Writes(f, [Goes(f) EXCEPT !.queue = x], y)
        BY <2>2
      <3> QED
        BY <1>4, <1>5, <1>9, <1>10, <3>1
    <2> QED
      BY <1>7, <1>17, <2>1, <2>2
  <1>20. CASE Where(f) \/ DropUnlisted(f) \/ Merge(f) \/ DeleteChildren(f) \/ Restore(f)
    <2>1. PICK y : Writes(f, Goes(f), y)
      BY <1>20 DEF Where, DropUnlisted, Merge, DeleteChildren, Restore
    <2> QED
      BY <1>4, <1>9, <1>10, <2>1
  <1>21. CASE SaveChildren(f) \/ InsertRows(f)
    <2>1. (\E y : Writes(f, Goes(f), y)) \/ \E why : Throw(f, why)
      BY <1>21 DEF SaveChildren, InsertRows
    <2> QED
      BY <1>4, <1>7, <1>9, <1>10, <2>1
  <1>22. CASE Settle(f)
    <2>1. PICK next, x, y, z : Reads(f, [Then(f, next) EXCEPT !.ids = x, !.queue = y], z)
      BY <1>22 DEF Settle
    <2>2. same([Then(f, next) EXCEPT !.ids = x, !.queue = y])
      BY <1>3, <1>5
    <2> QED
      BY <1>9, <1>11, <2>1, <2>2
  <1>23. CASE Columns(f)
    <2>1. PICK kept \in {fl[f], Goes(f)} : \E x, y : Writes(f, [kept EXCEPT !.queue = x], y)
      BY <1>23 DEF Columns
    <2>2. PICK x, y : Writes(f, [kept EXCEPT !.queue = x], y)
      BY <2>1
    <2>3. same([kept EXCEPT !.queue = x])
      BY <1>1, <1>4, <1>5, <2>1
    <2> QED
      BY <1>9, <1>10, <2>2, <2>3
  <1>24. CASE ReadBack(f)
    <2>1. PICK x, y : fl' = [fl EXCEPT ![f] = [Goes(f) EXCEPT !.told = x, !.snap = y]]
      BY <1>24 DEF ReadBack, Sends
    <2> QED
      BY <1>4, <1>5, <1>9, <2>1
  <1>25. CASE ReadThenUpsert(f)
    <2>1. PICK next, x, y, z : Reads(f, [Then(f, next) EXCEPT !.ids = x, !.queue = y], z)
      BY <1>25 DEF ReadThenUpsert
    <2>2. same([Then(f, next) EXCEPT !.ids = x, !.queue = y])
      BY <1>3, <1>5
    <2> QED
      BY <1>9, <1>11, <2>1, <2>2
  <1>26. CASE Doom(f)
    <2>1. PICK next, x, y, z, w : Reads(f, [Then(f, next) EXCEPT !.ids = x, !.queue = y, !.told = z], w)
      BY <1>26 DEF Doom
    <2>2. same([Then(f, next) EXCEPT !.ids = x, !.queue = y, !.told = z])
      BY <1>3, <1>5
    <2> QED
      BY <1>9, <1>11, <2>1, <2>2
  <1>27. CASE InternalDelete(f)
    <2>1. \/ Throw(f, "foreignKey")
          \/ \E next, x, y : Writes(f, [Then(f, next) EXCEPT !.queue = x], y)
      BY <1>27 DEF InternalDelete
    <2>2. CASE \E next, x, y : Writes(f, [Then(f, next) EXCEPT !.queue = x], y)
      <3>1. PICK next, x, y : Writes(f, [Then(f, next) EXCEPT !.queue = x], y)
        BY <2>2
      <3>2. same([Then(f, next) EXCEPT !.queue = x])
        BY <1>3, <1>5
      <3> QED
        BY <1>9, <1>10, <3>1, <3>2
    <2> QED
      BY <1>7, <2>1, <2>2
  <1> QED
    BY <1>12, <1>13, <1>14, <1>15, <1>16, <1>18, <1>19, <1>20, <1>21, <1>22, <1>23, <1>24, <1>25, <1>26, <1>27
    DEF Write, Proceeds, Statement

\* The rows found are gone on with one at a time.
LEMMA OneByOne ==
    ASSUME NEW ks \in SUBSET Nat, IsFiniteSet(ks)
    PROVE  LET q == InLists(ks, 1)
           IN  \A i \in DOMAIN q : q[i] \subseteq ks /\ \A j, k \in q[i] : j = k
  <1> DEFINE below(k) == {j \in ks : j < k}
             rank(k) == Cardinality(below(k))
             m == (Cardinality(ks) + 1 - 1) \div 1
             q == InLists(ks, 1)
  <1>1. DOMAIN q = 1..m /\ \A i \in 1..m : q[i] = {k \in ks : rank(k) \div 1 = i - 1}
    BY DEF InLists
  <1>2. ASSUME NEW j \in ks, NEW k \in ks, j < k PROVE rank(j) \div 1 # rank(k) \div 1
    <2>1. below(j) \in SUBSET below(k) /\ j \in below(k) /\ j \notin below(j)
      <3>1. \A i \in ks : i \in Nat
        OBVIOUS
      <3>2. \A i \in ks : i < j => i < k
        BY <1>2, <3>1
      <3>3. ~(j < j)
        BY <3>1
      <3> QED
        BY <1>2, <3>2, <3>3
    <2>2. IsFiniteSet(below(k)) /\ below(k) \in SUBSET ks
      BY FS_Subset
    <2>3. IsFiniteSet(below(j)) /\ rank(j) # rank(k)
      BY <2>1, <2>2, FS_Subset
    <2>4. rank(j) \in Nat /\ rank(k) \in Nat
      BY <2>2, <2>3, FS_CardinalityType
    <2> HIDE DEF rank
    <2> QED
      BY <2>3, <2>4
  <1> HIDE DEF rank, m, q
  <1>3. ASSUME NEW i \in DOMAIN q, NEW j \in q[i], NEW k \in q[i] PROVE j = k
    <2>1. j \in ks /\ k \in ks /\ rank(j) \div 1 = rank(k) \div 1
      BY <1>1, <1>3
    <2>2. j < k \/ k < j \/ j = k
      <3>1. j \in Nat /\ k \in Nat
        BY <2>1
      <3> QED
        BY <3>1
    <2> QED
      BY <1>2, <2>1, <2>2
  <1> QED
    BY <1>1, <1>3 DEF q

\* Where an upsert is before its read, from the statement it is at.
LEMMA FindHeads ==
    ASSUME NEW c, NEW todo \in FindTodo(c)
    PROVE  /\ todo # <<>>
           /\ Head(todo) \in {"begin", "load", "hook", "find"}
           /\ Head(todo) # "find" => Tail(todo) \in FindTodo(c)
           /\ Head(todo) = "find" => Tail(todo) \in {<<"hook", "commit">>, <<"commit", "hook">>}
  <1>1. CASE c.outer
    <2>1. CASE todo = <<"begin", "load", "hook", "find", "hook", "commit">>
      BY <1>1, <2>1 DEF FindTodo
    <2>2. CASE todo = <<"begin", "hook", "find", "hook", "commit">>
      BY <1>1, <2>2 DEF FindTodo
    <2>3. CASE todo = <<"load", "hook", "find", "hook", "commit">>
      BY <1>1, <2>3 DEF FindTodo
    <2>4. CASE todo = <<"hook", "find", "hook", "commit">>
      BY <1>1, <2>4 DEF FindTodo
    <2>5. CASE todo = <<"find", "hook", "commit">>
      BY <2>5
    <2> QED
      BY <1>1, <2>1, <2>2, <2>3, <2>4, <2>5 DEF FindTodo
  <1>2. CASE ~c.outer
    <2>1. CASE todo = <<"load", "hook", "begin", "find", "commit", "hook">>
      BY <1>2, <2>1 DEF FindTodo
    <2>2. CASE todo = <<"hook", "begin", "find", "commit", "hook">>
      BY <1>2, <2>2 DEF FindTodo
    <2>3. CASE todo = <<"begin", "find", "commit", "hook">>
      BY <1>2, <2>3 DEF FindTodo
    <2>4. CASE todo = <<"find", "commit", "hook">>
      BY <2>4
    <2> QED
      BY <1>2, <2>1, <2>2, <2>3, <2>4 DEF FindTodo
  <1> QED
    BY <1>1, <1>2

\* One in front of four, and of five.
LEMMA InFrontOf ==
    ASSUME NEW S, NEW p \in S, NEW s \in Seq(S), NEW t \in Seq(S),
           Len(t) = Len(s) + 1, t[1] = p, \A i \in 1..Len(s) : t[i + 1] = s[i]
    PROVE  <<p>> \o s = t
  <1> DEFINE u == <<p>> \o s
  <1>1. /\ u \in Seq(S) /\ Len(s) \in Nat /\ Len(u) = Len(s) + 1
        /\ u[1] = p /\ \A i \in 1..Len(s) : u[i + 1] = s[i]
    BY InFront
  <1> HIDE DEF u
  <1>2. \A i \in 1..Len(t) : i = 1 \/ (i - 1 \in 1..Len(s) /\ (i - 1) + 1 = i)
    BY <1>1
  <1>3. \A i \in 1..Len(t) : t[i] = u[i]
    BY <1>1, <1>2
  <1> QED
    BY <1>1, <1>3, SeqEqual DEF u

LEMMA FrontOfFour ==
    ASSUME NEW p, NEW a, NEW b, NEW d, NEW e
    PROVE  <<p>> \o <<a, b, d, e>> = <<p, a, b, d, e>>
  <1> DEFINE S == {p, a, b, d, e}
             s == <<a, b, d, e>>
             t == <<p, a, b, d, e>>
  <1>1. p \in S /\ s \in Seq(S) /\ t \in Seq(S) /\ Len(t) = Len(s) + 1 /\ t[1] = p
    OBVIOUS
  <1>2. \A i \in 1..Len(s) : t[i + 1] = s[i]
    OBVIOUS
  <1> HIDE DEF S, s, t
  <1>3. <<p>> \o s = t
    BY <1>1, <1>2, InFrontOf
  <1> QED
    BY <1>3 DEF s, t

LEMMA FrontOfFive ==
    ASSUME NEW p, NEW a, NEW b, NEW d, NEW e, NEW g
    PROVE  <<p>> \o <<a, b, d, e, g>> = <<p, a, b, d, e, g>>
  <1> DEFINE S == {p, a, b, d, e, g}
             s == <<a, b, d, e, g>>
             t == <<p, a, b, d, e, g>>
  <1>1. p \in S /\ s \in Seq(S) /\ t \in Seq(S) /\ Len(t) = Len(s) + 1 /\ t[1] = p
    OBVIOUS
  <1>2. \A i \in 1..Len(s) : t[i + 1] = s[i]
    OBVIOUS
  <1> HIDE DEF S, s, t
  <1>3. <<p>> \o s = t
    BY <1>1, <1>2, InFrontOf
  <1> QED
    BY <1>3 DEF s, t

LEMMA UpsertStarts ==
    ASSUME NEW c, c.op = "upsert", c.outer \in BOOLEAN
    PROVE  IF UpsertsByReading(c) THEN Program(c) \in FindTodo(c) ELSE Program(c) \in Seq(Quiet)
  <1> DEFINE reading == IF plan.versioned THEN <<"load">> ELSE <<>>
  <1>1. CallBody(c) = UpsertMany(c)
    BY DEF CallBody
  <1>2. Program(c) = IF c.outer THEN <<"begin">> \o reading \o UpsertMany(c) \o <<"commit">>
                     ELSE reading \o UpsertMany(c)
    BY <1>1 DEF Program
  <1>3. CASE UpsertsByReading(c)
    <2>1. UpsertMany(c) = IF c.outer THEN <<"hook", "find", "hook">> ELSE <<"hook", "begin", "find", "commit", "hook">>
      BY <1>3, HookedOne DEF UpsertMany, Atomically
    <2> DEFINE S == {"begin", "load", "hook", "find", "commit"}
    <2>2. /\ <<"begin">> \in Seq(S) /\ <<"commit">> \in Seq(S) /\ <<"load">> \in Seq(S) /\ <<>> \in Seq(S)
          /\ <<"hook", "find", "hook">> \in Seq(S) /\ <<"hook", "find", "hook", "commit">> \in Seq(S)
          /\ <<"hook", "begin", "find", "commit", "hook">> \in Seq(S)
      OBVIOUS
    <2> HIDE DEF S, reading
    <2>3. reading \in Seq(S)
      BY <2>2 DEF reading
    <2>4. CASE c.outer
      <3> DEFINE body == <<"hook", "find", "hook">>
      <3>1. Program(c) = ((<<"begin">> \o reading) \o body) \o <<"commit">>
        BY <1>2, <2>1, <2>4
      <3>2. body \in Seq(S) /\ body \o <<"commit">> = <<"hook", "find", "hook", "commit">>
        BY <2>2, Quadruple
      <3> HIDE DEF body
      <3>3. <<"begin">> \o reading \in Seq(S) /\ body \o <<"commit">> \in Seq(S)
        BY <2>2, <2>3, <3>2, ConcatProperties
      <3>4. ((<<"begin">> \o reading) \o body) \o <<"commit">> = (<<"begin">> \o reading) \o (body \o <<"commit">>)
        <4> DEFINE x == <<"begin">> \o reading
                   end == <<"commit">>
        <4>1. x \in Seq(S) /\ body \in Seq(S) /\ end \in Seq(S)
          BY <2>2, <3>2, <3>3
        <4> HIDE DEF x, end
        <4>2. (x \o body) \o end = x \o (body \o end)
          BY <4>1, ConcatAssociative
        <4> QED
          BY <4>2 DEF x, end
      <3>5. (<<"begin">> \o reading) \o (body \o <<"commit">>) = <<"begin">> \o (reading \o (body \o <<"commit">>))
        BY <2>2, <2>3, <3>3, ConcatAssociative
      <3>6. Program(c) = <<"begin">> \o (reading \o <<"hook", "find", "hook", "commit">>)
        BY <3>1, <3>2, <3>4, <3>5
      <3>7. CASE plan.versioned
        <4>1. reading \o <<"hook", "find", "hook", "commit">> = <<"load", "hook", "find", "hook", "commit">>
          BY <3>7, FrontOfFour DEF reading
        <4>2. <<"begin">> \o <<"load", "hook", "find", "hook", "commit">>
                  = <<"begin", "load", "hook", "find", "hook", "commit">>
          BY FrontOfFive
        <4>3. Program(c) = <<"begin", "load", "hook", "find", "hook", "commit">>
          BY <3>6, <4>1, <4>2
        <4> QED
          BY <1>3, <2>4, <4>3 DEF FindTodo
      <3>8. CASE ~plan.versioned
        <4>1. reading = <<>>
          BY <3>8 DEF reading
        <4>2. <<>> \o <<"hook", "find", "hook", "commit">> = <<"hook", "find", "hook", "commit">>
          BY <2>2, ConcatEmptySeq
        <4>3. Program(c) = <<"begin", "hook", "find", "hook", "commit">>
          BY <3>6, <4>1, <4>2, FrontOfFour
        <4> QED
          BY <1>3, <2>4, <4>3 DEF FindTodo
      <3> QED
        BY <3>7, <3>8
    <2>5. CASE ~c.outer
      <3> DEFINE body == <<"hook", "begin", "find", "commit", "hook">>
      <3>1. Program(c) = reading \o body
        BY <1>2, <2>1, <2>5
      <3>2. CASE plan.versioned
        <4>1. Program(c) = <<"load", "hook", "begin", "find", "commit", "hook">>
          BY <3>1, <3>2, FrontOfFive DEF reading
        <4> QED
          BY <1>3, <2>5, <4>1 DEF FindTodo
      <3>3. CASE ~plan.versioned
        <4>1. reading = <<>>
          BY <3>3 DEF reading
        <4>2. <<>> \o body = body
          BY <2>2, ConcatEmptySeq
        <4> QED
          BY <1>3, <2>5, <3>1, <4>1, <4>2 DEF FindTodo
      <3> QED
        BY <3>2, <3>3
    <2> QED
      BY <2>4, <2>5
  <1>4. CASE ~UpsertsByReading(c)
    <2>1. UpsertMany(c) = <<"hook", "merge", "hook">>
      BY <1>4, HookedOne DEF UpsertMany
    <2>2. /\ <<"begin">> \in Seq(Quiet) /\ <<"commit">> \in Seq(Quiet) /\ <<"load">> \in Seq(Quiet)
          /\ <<>> \in Seq(Quiet) /\ <<"hook", "merge", "hook">> \in Seq(Quiet)
      BY DEF Quiet
    <2> HIDE DEF reading
    <2>3. reading \in Seq(Quiet)
      BY <2>2 DEF reading
    <2>4. <<"begin">> \o reading \in Seq(Quiet)
      BY <2>2, <2>3, ConcatProperties
    <2>5. (<<"begin">> \o reading) \o UpsertMany(c) \in Seq(Quiet) /\ reading \o UpsertMany(c) \in Seq(Quiet)
      BY <2>1, <2>2, <2>3, <2>4, ConcatProperties
    <2>6. ((<<"begin">> \o reading) \o UpsertMany(c)) \o <<"commit">> \in Seq(Quiet)
      BY <2>2, <2>5, ConcatProperties
    <2> QED
      BY <1>2, <1>4, <2>5, <2>6
  <1> QED
    BY <1>3, <1>4

\* What an upsert found stays so through the steps of others.
LEMMA OthersLetUpsert ==
    ASSUME WriteInv, NEW h \in Flow, NEW f \in Flow \ {h}, Write(h), Upserts(f)
    PROVE  Upserts(f)'
  <1>1. /\ plan' = plan /\ fl'[f] = fl[f]
        /\ \A k \in Key : /\ lock'[k] = f <=> lock[k] = f
                          /\ lock[k] = f => rows'[k] = rows[k] /\ base'[k] = base[k]
    BY OthersLeave
  <1>2. fl[f].queue \in Seq(SUBSET Call(f).ids) /\ Call(f).ids \subseteq Key
    BY CallTyped DEF WriteInv, Keeps
  <1>3. Call(f)' = Call(f) /\ Batch(f)' = Batch(f) /\ Batch(f) \subseteq Key
    BY <1>1, <1>2, QueuePops DEF Call, Batch
  <1>4. Finds(f) => Finds(f)'
    <2> SUFFICES ASSUME Finds(f), NEW i \in DOMAIN fl[f].queue, NEW k \in fl[f].queue[i]
                 PROVE  KeptRow(f, k)'
      BY <1>1 DEF Finds
    <2>1. k \in Key
      BY <1>2, ElementOfSeq
    <2>2. KeptRow(f, k)
      BY DEF Finds
    <2> QED
      BY <1>1, <2>1, <2>2 DEF KeptRow
  <1>5. Missed(f) => Missed(f)'
    BY <1>1, <1>3 DEF Missed, Verdict, Expected
  <1>6. At(f, "reread") => At(f, "reread")'
    BY <1>1 DEF At
  <1>7. FindTodo(Call(f))' = FindTodo(Call(f))
    BY <1>3 DEF FindTodo
  <1> QED
    BY <1>1, <1>4, <1>5, <1>6, <1>7 DEF Upserts

LEMMA ThrownUpserts ==
    ASSUME WriteInv, NEW f \in Flow, NEW why, fl' = [fl EXCEPT ![f] = Thrown(f, why)]
    PROVE  Upserts(f)'
  <1>1. <<"rollback">> \in Seq(Quiet) /\ <<>> \in Seq(Quiet)
    BY DEF Quiet
  <1>2. fl'[f].todo \in Seq(Quiet)
    <2>1. Thrown(f, why).todo \in {<<>>, <<"rollback">>}
      BY ThrownList
    <2>2. fl'[f] = Thrown(f, why)
      BY DEF WriteInv
    <2> QED
      BY <1>1, <2>1, <2>2
  <1> QED
    BY <1>2 DEF Upserts

\* The snapshot a transaction has, or the one it takes now, of rows it holds.
Sees(f, kept) == kept.snap = fl[f].snap \/ (fl[f].snap = None /\ kept.snap = base)

LEMMA SnapshotSees ==
    ASSUME NEW f, NEW plain
    PROVE  Snapshot(f, plain) = fl[f].snap \/ (fl[f].snap = None /\ Snapshot(f, plain) = base)
  BY DEF Snapshot

\* A statement between the read of an upsert and its last update keeps what it found and has not come to.
LEMMA FindsGoOn ==
    ASSUME WriteInv, NEW f \in Flow, Finds(f), NEW kept, NEW new, NEW locked, Sends(f, kept, new, locked),
           Sees(f, kept), kept.inTx = TRUE, kept.queue = fl[f].queue \/ kept.queue = Behind(f)
    PROVE  Finds(f)' /\ fl'[f] = kept /\ plan' = plan
  <1> DEFINE q == fl[f].queue
  <1>1. q \in Seq(SUBSET Call(f).ids) /\ Call(f).ids \subseteq Key /\ fl'[f] = kept /\ plan' = plan
    BY CallTyped DEF WriteInv, Keeps, Sends
  <1>2. base' = base /\ \A k \in Key : lock[k] = f => lock'[k] = f
    BY DEF Sends, Finds
  <1>3. base # None
    BY SnapshotAssumption DEF WriteInv, Tables
  <1>4. ASSUME NEW k \in Key, KeptRow(f, k) PROVE KeptRow(f, k)'
    BY <1>1, <1>2, <1>3, <1>4 DEF KeptRow, Sees
  <1>5. ASSUME NEW i \in DOMAIN kept.queue
        PROVE  \E j \in DOMAIN q : kept.queue[i] = q[j]
    <2>1. CASE kept.queue = q
      BY <1>5, <2>1
    <2>2. CASE kept.queue = Behind(f) /\ q # <<>>
      <3>1. Behind(f) = Tail(q)
        BY <2>2 DEF Behind
      <3>2. /\ DOMAIN q = 1..Len(q) /\ DOMAIN Tail(q) = 1..Len(q) - 1
            /\ \A j \in 1..Len(q) - 1 : Tail(q)[j] = q[j + 1] /\ j + 1 \in 2..Len(q)
            /\ Len(q) \in Nat
        BY <1>1, <2>2, TailItems
      <3>3. i \in 1..Len(q) - 1 /\ kept.queue[i] = q[i + 1] /\ i + 1 \in 2..Len(q)
        BY <1>5, <2>2, <3>1, <3>2
      <3>4. i + 1 \in DOMAIN q
        BY <3>2, <3>3
      <3> QED
        BY <3>3, <3>4
    <2>3. CASE kept.queue = Behind(f) /\ q = <<>>
      BY <1>5, <2>3 DEF Behind
    <2> QED
      BY <2>1, <2>2, <2>3
  <1>6. ASSUME NEW i \in DOMAIN kept.queue
        PROVE  /\ \A j, k \in kept.queue[i] : j = k
               /\ \A k \in kept.queue[i] : KeptRow(f, k)'
    <2>1. PICK j \in DOMAIN q : kept.queue[i] = q[j]
      BY <1>5, <1>6
    <2>2. q[j] \subseteq Key
      BY <1>1, ElementOfSeq
    <2>3. (\A m, k \in q[j] : m = k) /\ \A k \in q[j] : KeptRow(f, k)
      BY DEF Finds
    <2> QED
      BY <1>4, <2>1, <2>2, <2>3
  <1> QED
    BY <1>1, <1>6 DEF Finds

\* The rows an upsert reads it finds, on each way an engine isolates.
LEMMA FindUpserts ==
    ASSUME WriteInv, AllHeld, NEW f \in Flow, ~Exempt(f), ReadThenUpsert(f),
           fl[f].todo \in FindTodo(Call(f)), fl[f].snap = None \/ plan.engine = "upgrade"
    PROVE  Upserts(f)'
  <1> DEFINE found == RowsByConflict(f)
             update == IF WritesRelations(Call(f)) /\ ~plan.versioned THEN "settle" ELSE "found"
             saves == WritesRelations(Call(f))
             none == found = Call(f).ids
             n == Cardinality(found)
             next == [i \in 1..n |-> update]
                         \o (IF none THEN <<>> ELSE <<"insert">> \o (IF saves THEN <<"save">> ELSE <<>>))
             queue == InLists(found, 1)
             rest == Tail(fl[f].todo)
             kept == [Then(f, next) EXCEPT !.ids = found, !.queue = queue]
             after == [kept EXCEPT !.snap = Snapshot(f, ~Locking(f))]
  <1>1. /\ "find" \in Together /\ At(f, "find") /\ Free(f) /\ Sends(f, after, <<>>, Held(f, found))
    BY DEF Together, ReadThenUpsert, Ready, Reads
  <1>2. Sending(f, "find") /\ Needs(f) = Held(f, found) /\ fl[f].inTx
    BY <1>1, IsSending, NeedsAt DEF Sending
  <1>3. DOMAIN fl[f] = Fields /\ fl'[f] = after /\ plan' = plan
    <2>1. DOMAIN fl = Flow /\ DOMAIN fl[f] = Fields
      BY DEF WriteInv, Keeps
    <2> QED
      BY <1>1, <2>1 DEF Sends
  <1>4. /\ after.todo = next \o rest /\ after.queue = queue /\ after.inTx = fl[f].inTx
        /\ after.snap = Snapshot(f, ~Locking(f))
    BY <1>3 DEF Then, Fields
  <1> HIDE DEF after, kept
  <1>5. rest \in {<<"hook", "commit">>, <<"commit", "hook">>}
    BY <1>1, FindHeads DEF At
  <1>6. n \in Nat /\ IsFiniteSet(found) /\ found \in SUBSET Nat /\ found \subseteq Key
    BY CallTyped, FS_Subset, FS_CardinalityType, KeyAssumption DEF WriteInv, RowsByConflict
  <1>7. none \in BOOLEAN /\ saves \in BOOLEAN
    BY DEF WritesRelations
  <1>8. CASE update = "settle"
    <2>1. update \in Quiet /\ "insert" \in Quiet /\ "save" \in Quiet /\ rest \in Seq(Quiet)
      <3>1. <<"hook", "commit">> \in Seq(Quiet) /\ <<"commit", "hook">> \in Seq(Quiet)
        BY DEF Quiet
      <3> QED
        BY <1>5, <1>8, <3>1 DEF Quiet
    <2> HIDE DEF update, none, saves, n, rest
    <2>2. next \in Seq(Quiet)
      BY <1>6, <1>7, <2>1, FindList
    <2> HIDE DEF next
    <2>3. next \o rest \in Seq(Quiet)
      BY <2>1, <2>2, ConcatProperties
    <2> QED
      BY <1>3, <1>4, <2>3 DEF Upserts
  <1>9. CASE update = "found"
    <2>1. update \in Afterwards /\ "insert" \in Afterwards /\ "save" \in Afterwards /\ rest \in Seq(Afterwards)
      <3>1. <<"hook", "commit">> \in Seq(Afterwards) /\ <<"commit", "hook">> \in Seq(Afterwards)
        BY DEF Afterwards
      <3> QED
        BY <1>5, <1>9, <3>1 DEF Afterwards
    <2> HIDE DEF update, none, saves, n, rest
    <2>2. next \in Seq(Afterwards)
      BY <1>6, <1>7, <2>1, FindList
    <2> HIDE DEF next
    <2>3. next \o rest \in Seq(Afterwards)
      BY <2>1, <2>2, ConcatProperties
    <2>4. \A i \in DOMAIN queue : queue[i] \subseteq found /\ \A j, k \in queue[i] : j = k
      BY <1>6, OneByOne
    <2> HIDE DEF queue
    <2>5. ASSUME NEW k \in found PROVE KeptRow(f, k)'
      <3>1. k \in Key
        BY <1>6
      <3>2. lock'[k] = IF k \in Held(f, found) THEN f ELSE lock[k]
        BY <1>1, <1>2, <3>1 DEF Sends
      <3>3. CASE plan.engine = "upgrade"
        <4>1. Snapshot(f, ~Locking(f)) # None
          BY <1>2, <3>3, SnapshotAssumption DEF Snapshot, Locking, RowLocks, WriteInv, Tables
        <4> QED
          BY <1>3, <1>4, <3>3, <4>1 DEF KeptRow
      <3>4. CASE plan.engine # "upgrade"
        <4>1. Snapshot(f, ~Locking(f)) = None
          BY <1>2, <3>4 DEF Snapshot, Locking, RowLocks
        <4>2. lock'[k] = f
          <5>1. plan.engine = "begin" => lock[k] = f
            BY <1>2, <3>1 DEF AllHeld
          <5>2. plan.engine \in Engine
            BY PlanAssumption DEF WriteInv
          <5>3. RowLocks => k \in Held(f, found)
            BY <1>2 DEF Held, Locking
          <5> QED
            BY <3>2, <3>4, <5>1, <5>2, <5>3 DEF Engine, RowLocks
        <4> QED
          BY <1>3, <1>4, <3>4, <4>1, <4>2 DEF KeptRow
      <3> QED
        BY <3>3, <3>4
    <2>6. Finds(f)'
      BY <1>2, <1>3, <1>4, <2>4, <2>5 DEF Finds
    <2> QED
      BY <1>3, <1>4, <2>3, <2>6 DEF Upserts
  <1> QED
    BY <1>8, <1>9

\* The update of a row found either writes it or leaves it as it saw it, and holds it from then on.
LEMMA FoundUpserts ==
    ASSUME WriteInv, AllHeld, NEW f \in Flow, Call(f).op = "upsert", Found(f), Finds(f),
           fl[f].todo \in Seq(Afterwards)
    PROVE  Upserts(f)'
  <1> DEFINE rest == Tail(fl[f].todo)
  <1>1. "found" \in Together /\ At(f, "found") /\ Free(f)
    BY DEF Together, Found, Ready
  <1>2. Sending(f, "found") /\ Needs(f) = Written(FoundRows(f)) /\ fl[f].inTx
    BY <1>1, IsSending, NeedsAt DEF Sending
  <1>3. rest \in Seq(Afterwards) /\ DOMAIN fl[f] = Fields /\ DOMAIN fl = Flow /\ <<>> \o rest = rest
    <2>1. rest \in Seq(Afterwards)
      BY <1>1, HeadTailProperties DEF At
    <2>2. DOMAIN fl[f] = Fields /\ DOMAIN fl = Flow
      BY DEF WriteInv, Keeps
    <2> HIDE DEF rest
    <2>3. <<>> \o rest = rest
      BY <2>1, ConcatEmptySeq
    <2> QED
      BY <2>1, <2>2, <2>3
  <1>4. CASE \E new : Writes(f, [Goes(f) EXCEPT !.queue = Behind(f)], new)
    <2>1. PICK new : Writes(f, [Goes(f) EXCEPT !.queue = Behind(f)], new)
      BY <1>4
    <2> DEFINE kept == [Goes(f) EXCEPT !.queue = Behind(f)]
               after == [kept EXCEPT !.snap = Snapshot(f, FALSE)]
    <2>2. Sends(f, after, new, Written(DOMAIN new))
      BY <2>1 DEF Writes
    <2>3. after.todo = rest /\ after.queue = Behind(f) /\ after.inTx = TRUE /\ Sees(f, after)
      <3>1. after.todo = rest /\ after.queue = Behind(f) /\ after.inTx = fl[f].inTx /\ after.snap = Snapshot(f, FALSE)
        BY <1>3 DEF Goes, Then, Fields
      <3>2. fl[f].inTx = TRUE
        BY <1>2 DEF WriteInv, Keeps
      <3> HIDE DEF after
      <3> QED
        BY <3>1, <3>2, SnapshotSees DEF Sees
    <2> HIDE DEF after, kept
    <2>4. Finds(f)' /\ fl'[f] = after
      BY <2>2, <2>3, FindsGoOn
    <2> QED
      BY <1>3, <2>3, <2>4 DEF Upserts
  <1>5. CASE \E k \in Batch(f) : WriteAtVersion(f, k) /\ ~LockVersion(f, k)
    <2>1. PICK k \in Batch(f) : WriteAtVersion(f, k) /\ ~LockVersion(f, k)
      BY <1>5
    <2> DEFINE row == Current(f)[k]
               gone == row = None \/ (row.del /\ Call(f).op = "update")
               verdict == IF gone THEN "gone" ELSE IF row.ver # Expected(f, k) THEN "stale" ELSE "excluded"
               kept == [Then(f, <<"reread">>) EXCEPT !.miss = verdict]
               after == [kept EXCEPT !.snap = Snapshot(f, FALSE)]
    <2>2. ~Overtaken(f) /\ Sends(f, after, <<>>, Written(DOMAIN <<>>))
      BY <2>1 DEF Writes, WriteAtVersion
    <2>3. verdict = Verdict(f, k, row)
      BY DEF Verdict
    <2>4. /\ after.todo = <<"reread">> \o rest /\ after.queue = fl[f].queue /\ after.inTx = TRUE /\ Sees(f, after)
          /\ after.miss = verdict /\ after.seen = fl[f].seen
      <3>1. /\ after.todo = <<"reread">> \o rest /\ after.queue = fl[f].queue /\ after.inTx = fl[f].inTx
            /\ after.snap = Snapshot(f, FALSE) /\ after.miss = verdict /\ after.seen = fl[f].seen
        BY <1>3 DEF Then, Fields
      <3>2. fl[f].inTx = TRUE
        BY <1>2 DEF WriteInv, Keeps
      <3> HIDE DEF after, verdict
      <3> QED
        BY <3>1, <3>2, SnapshotSees DEF Sees
    <2> HIDE DEF after, kept, verdict
    <2>5. Finds(f)' /\ fl'[f] = after /\ plan' = plan
      BY <2>2, <2>4, FindsGoOn
    <2>6. At(f, "reread")' /\ Tail(fl'[f].todo) = rest
      <3>1. <<"reread">> \in Seq(Afterwards \cup {"reread"}) /\ rest \in Seq(Afterwards \cup {"reread"})
        BY <1>3, SeqMonotonic
      <3>2. <<"reread">> # <<>> /\ Head(<<"reread">>) = "reread" /\ Tail(<<"reread">>) = <<>>
        OBVIOUS
      <3> HIDE DEF rest
      <3>3. /\ <<"reread">> \o rest # <<>> /\ Head(<<"reread">> \o rest) = "reread"
            /\ Tail(<<"reread">> \o rest) = <<>> \o rest
        BY <3>1, <3>2, TailOfFront
      <3> QED
        BY <1>3, <2>4, <2>5, <3>3 DEF At
    <2>7. Batch(f)' = Batch(f) /\ Batch(f) = {k} /\ KeptRow(f, k) /\ k \in Key
      <3>1. fl[f].queue # <<>> /\ fl[f].queue \in Seq(SUBSET Call(f).ids)
        BY <2>1 DEF Batch, WriteInv, Keeps
      <3>2. Batch(f) = fl[f].queue[1] /\ 1 \in DOMAIN fl[f].queue
        BY <3>1, TailItems DEF Batch
      <3> QED
        BY <1>2, <2>1, <2>4, <2>5, <3>2 DEF Batch, Finds, Sending
    <2>8. /\ rows'[k] = rows[k] /\ base' = base
          /\ lock'[k] = IF k \in Written({}) THEN f ELSE lock[k]
      <3>1. DOMAIN <<>> = {}
        OBVIOUS
      <3> QED
        BY <1>2, <2>2, <2>7, <3>1 DEF Sends, Put
    <2>9. /\ lock'[k] = f /\ (after.snap = None \/ after.snap[k] = base[k])
          /\ row = rows[k]
      <3>1. row = IF lock[k] = f THEN rows[k] ELSE base[k]
        BY <2>7, AtRow
      <3>2. CASE plan.engine = "upgrade"
        <4>1. k \in Written({}) /\ k \in Needs(f)
          BY <1>2, <2>7, <3>2 DEF Written, RowLocks
        <4>2. lock[k] \in {None, f}
          BY <1>1, <2>7, <4>1, FreeToHave
        <4>3. lock[k] = None => rows[k] = base[k]
          BY <2>7 DEF WriteInv, Tables
        <4>4. fl[f].snap = base
          BY <2>2, <2>7, <3>2 DEF KeptRow, Overtaken
        <4> QED
          BY <2>4, <2>8, <3>1, <4>1, <4>2, <4>3, <4>4 DEF Sees
      <3>3. CASE plan.engine # "upgrade"
        BY <2>4, <2>7, <2>8, <3>1, <3>3 DEF KeptRow, Sees
      <3> QED
        BY <3>2, <3>3
    <2>10. fl'[f].miss = Verdict(f, k, rows[k])' /\ Call(f)' = Call(f)
      BY <2>3, <2>4, <2>5, <2>8, <2>9 DEF Verdict, Expected, Call
    <2>11. Missed(f)'
      BY <2>5, <2>7, <2>8, <2>9, <2>10 DEF Missed
    <2> QED
      BY <1>3, <2>5, <2>6, <2>11 DEF Upserts
  <1>6. CASE \E why : Throw(f, why)
    BY <1>6, ThrownUpserts DEF Throw
  <1> QED
    BY <1>4, <1>5, <1>6 DEF Found, WriteAtVersion

\* The row is read again as the update saw it, so the reason it is gone on past is the reason it was left.
LEMMA RereadUpserts ==
    ASSUME WriteInv, NEW f \in Flow, Call(f).op = "upsert", ThrowStaleVersion(f), Finds(f), Missed(f),
           Tail(fl[f].todo) \in Seq(Afterwards), fl[f].kept \subseteq {"excluded"}
    PROVE  Upserts(f)' /\ fl'[f].kept \subseteq {"excluded"}
  <1> DEFINE rest == Tail(fl[f].todo)
             k == IF fl[f].queue = <<>> THEN CHOOSE k \in Call(f).ids : TRUE ELSE CHOOSE k \in Batch(f) : TRUE
             row == View(f)[k]
             gone == row = None \/ (row.del /\ Call(f).op = "update")
             actual == IF gone THEN "gone" ELSE IF row.ver # Expected(f, k) THEN "stale" ELSE "excluded"
             kept == [Goes(f) EXCEPT !.queue = Behind(f), !.kept = @ \cup {fl[f].miss}, !.snap = Snapshot(f, TRUE)]
  <1>1. k \in Batch(f)
    BY DEF Missed, Batch
  <1>2. k \in Key
    <2>1. fl[f].queue \in Seq(SUBSET Call(f).ids) /\ Call(f).ids \subseteq Key
      BY CallTyped DEF WriteInv, Keeps
    <2> QED
      BY <1>1, <2>1, QueuePops DEF Batch
  <1>3. DOMAIN fl[f] = Fields /\ DOMAIN fl = Flow /\ <<>> \o rest = rest
    BY ConcatEmptySeq DEF WriteInv, Keeps
  <1>4. \/ KeepsFound(f, actual) /\ Sends(f, kept, <<>>, {})
        \/ Throw(f, actual)
    BY DEF ThrowStaleVersion
  <1>5. row = rows[k] /\ actual = fl[f].miss
    <2> HIDE DEF k
    <2>1. lock[k] = f /\ (fl[f].snap = None \/ fl[f].snap[k] = base[k]) /\ fl[f].miss = Verdict(f, k, rows[k])
      BY <1>1 DEF Missed
    <2>2. row = rows[k]
      BY <1>2, <2>1 DEF View, Current
    <2> QED
      BY <2>1, <2>2 DEF Verdict
  <1> HIDE DEF k, row, gone, actual
  <1>6. CASE Throw(f, actual)
    <2>1. fl'[f].kept = fl[f].kept
      BY <1>3, <1>6, ThrownList DEF Throw
    <2> QED
      BY <1>6, <2>1, ThrownUpserts DEF Throw
  <1>7. CASE KeepsFound(f, actual) /\ Sends(f, kept, <<>>, {})
    <2>1. kept.todo = rest /\ kept.queue = Behind(f) /\ kept.inTx = TRUE /\ Sees(f, kept)
      <3>1. /\ kept.todo = rest /\ kept.queue = Behind(f) /\ kept.inTx = fl[f].inTx /\ kept.snap = Snapshot(f, TRUE)
        BY <1>3 DEF Goes, Then, Fields
      <3>2. fl[f].inTx = TRUE
        BY DEF Finds, WriteInv, Keeps
      <3> HIDE DEF kept
      <3> QED
        BY <3>1, <3>2, SnapshotSees DEF Sees
    <2>2. kept.kept = fl[f].kept \cup {fl[f].miss} /\ fl[f].miss = "excluded"
      BY <1>3, <1>5, <1>7 DEF Goes, Then, Fields, KeepsFound
    <2> HIDE DEF kept
    <2>3. Finds(f)' /\ fl'[f] = kept
      BY <1>7, <2>1, FindsGoOn
    <2> QED
      BY <2>1, <2>2, <2>3 DEF Upserts
  <1> QED
    BY <1>4, <1>6, <1>7

\* Up to its read an upsert takes no snapshot but that of an engine that lets nobody write over it.
LEMMA BeforeFind ==
    ASSUME WriteInv, NEW f \in Flow, ~Exempt(f), Call(f).op = "upsert", fl[f].todo \in FindTodo(Call(f)),
           fl[f].snap = None \/ plan.engine = "upgrade", Begin(f) \/ Hook(f) \/ Load(f)
    PROVE  Upserts(f)'
  <1> DEFINE rest == Tail(fl[f].todo)
  <1>1. DOMAIN fl[f] = Fields /\ DOMAIN fl = Flow /\ fl[f].todo \in Seq(Step(Call(f))) /\ fl[f].todo # <<>>
    BY FindHeads DEF WriteInv, Keeps, Shape
  <1>2. <<>> \o rest = rest
    BY <1>1, TailItems
  <1>3. Goes(f).todo = rest /\ Goes(f).snap = fl[f].snap /\ DOMAIN Goes(f) = Fields
    BY <1>1, <1>2 DEF Goes, Then, Fields
  <1>4. rest \in FindTodo(Call(f)) /\ plan' = plan /\ Call(f)' = Call(f)
    <2>1. Head(fl[f].todo) # "find" /\ plan' = plan
      BY DEF Begin, Hook, Load, Ready, At, Sends
    <2> QED
      BY <2>1, FindHeads DEF Call
  <1>5. FindTodo(Call(f))' = FindTodo(Call(f))
    BY <1>4 DEF FindTodo
  <1>6. CASE Begin(f) \/ Hook(f)
    <2>1. fl'[f].todo = rest /\ fl'[f].snap = fl[f].snap
      BY <1>1, <1>3, <1>6 DEF Begin, Hook, Fields
    <2> QED
      BY <1>4, <1>5, <2>1 DEF Upserts
  <1>7. CASE Load(f)
    <2>1. fl'[f].todo = rest /\ fl'[f].snap = Snapshot(f, TRUE)
      <3> DEFINE found == [k \in Call(f).ids |-> IF Live(View(f)[k]) THEN View(f)[k] ELSE None]
                 none == Call(f).op = "update" /\ \A k \in Call(f).ids : found[k] = None
                 kept == [Goes(f) EXCEPT !.seen = found,
                                         !.todo = IF ~none THEN @ ELSE IF Call(f).outer THEN <<"commit">> ELSE <<>>]
                 after == [kept EXCEPT !.snap = Snapshot(f, TRUE)]
      <3>1. fl' = [fl EXCEPT ![f] = after]
        BY <1>7 DEF Load, Sends
      <3>2. ~none
        OBVIOUS
      <3> HIDE DEF found, none
      <3>3. after.todo = rest /\ after.snap = Snapshot(f, TRUE)
        BY <1>3, <3>2 DEF Fields
      <3> QED
        BY <1>1, <3>1, <3>3
    <2>2. fl[f].inTx <=> Call(f).outer
      <3>1. Shape(fl[f].todo, fl[f].inTx, Call(f)) /\ fl[f].inTx \in BOOLEAN /\ Head(fl[f].todo) = "load"
        BY <1>7 DEF WriteInv, Keeps, Load, At
      <3> QED
        BY <1>1, <3>1, HeadOfShape
    <2>3. Snapshot(f, TRUE) = None \/ plan.engine = "upgrade"
      BY <2>2 DEF Snapshot, Exempt
    <2> QED
      BY <1>4, <1>5, <2>1, <2>3 DEF Upserts
  <1> QED
    BY <1>6, <1>7

\* Past its read, a statement that writes nothing found leaves an upsert where it was.
LEMMA AfterFind ==
    ASSUME WriteInv, NEW f \in Flow, Finds(f), fl[f].todo \in Seq(Afterwards), Write(f), ~Found(f),
           \A why : fl' # [fl EXCEPT ![f] = Thrown(f, why)]
    PROVE  Upserts(f)'
  <1> DEFINE rest == Tail(fl[f].todo)
  <1>1. DOMAIN fl[f] = Fields /\ DOMAIN fl = Flow /\ fl[f].inTx = TRUE
    BY DEF WriteInv, Keeps, Finds
  <1>2. ~Faults(f)
    BY DEF Faults
  <1>3. fl[f].todo # <<>>
    BY <1>2, StepAt
  <1>4. Head(fl[f].todo) \in Afterwards /\ rest \in Seq(Afterwards) /\ <<>> \o rest = rest
    BY <1>3, HeadTailProperties, ConcatEmptySeq
  <1>5. InsertRows(f) \/ SaveChildren(f) \/ Hook(f) \/ Commit(f) \/ Rollback(f)
    BY <1>2, <1>4, StepAt DEF Afterwards
  <1>6. Goes(f).todo = rest /\ Goes(f).snap = fl[f].snap /\ Goes(f).inTx = TRUE /\ Goes(f).queue = fl[f].queue
    BY <1>1, <1>4 DEF Goes, Then, Fields
  <1>7. CASE InsertRows(f) \/ SaveChildren(f)
    <2>1. PICK new : Writes(f, Goes(f), new)
      BY <1>7 DEF InsertRows, SaveChildren, Throw
    <2> DEFINE after == [Goes(f) EXCEPT !.snap = Snapshot(f, FALSE)]
    <2>2. Sends(f, after, new, Written(DOMAIN new))
      BY <2>1 DEF Writes
    <2>3. after.todo = rest /\ after.queue = fl[f].queue /\ after.inTx = TRUE /\ Sees(f, after)
      <3>1. after.todo = rest /\ after.queue = fl[f].queue /\ after.inTx = TRUE /\ after.snap = Snapshot(f, FALSE)
        BY <1>1, <1>4 DEF Goes, Then, Fields
      <3> HIDE DEF after
      <3> QED
        BY <3>1, SnapshotSees DEF Sees
    <2> HIDE DEF after
    <2>4. Finds(f)' /\ fl'[f] = after
      BY <2>2, <2>3, FindsGoOn
    <2> QED
      BY <1>4, <2>3, <2>4 DEF Upserts
  <1>8. CASE Hook(f)
    <2>1. /\ fl'[f] = Goes(f) /\ plan' = plan /\ base' = base /\ lock' = lock
      BY <1>1, <1>8 DEF Hook, store
    <2>2. Finds(f)'
      BY <1>6, <2>1 DEF Finds, KeptRow
    <2> QED
      BY <1>4, <1>6, <2>1, <2>2 DEF Upserts
  <1>9. CASE Commit(f) \/ Rollback(f)
    <2>1. fl'[f] = Closed(f) /\ Head(fl[f].todo) \in {"commit", "rollback"}
      BY <1>1, <1>9 DEF Commit, Rollback, At
    <2>2. Closed(f).todo \in {<<>>, <<"hook">>}
      BY <1>3, <2>1, ClosedWell
    <2>3. <<>> \in Seq(Quiet) /\ <<"hook">> \in Seq(Quiet)
      BY DEF Quiet
    <2> QED
      BY <2>1, <2>2, <2>3 DEF Upserts
  <1> QED
    BY <1>5, <1>7, <1>8, <1>9

LEMMA OwnStepUpserts ==
    ASSUME WriteInv, AllHeld, NEW f \in Flow, ~Exempt(f), Call(f).op = "upsert", Upserts(f), Write(f),
           fl[f].kept \subseteq {"excluded"}
    PROVE  Upserts(f)' /\ fl'[f].kept \subseteq {"excluded"}
  <1>1. CASE \E why : fl' = [fl EXCEPT ![f] = Thrown(f, why)]
    <2>1. PICK why : fl' = [fl EXCEPT ![f] = Thrown(f, why)]
      BY <1>1
    <2>2. fl'[f].kept = fl[f].kept
      BY <2>1, ThrownList DEF WriteInv
    <2> QED
      BY <2>1, <2>2, ThrownUpserts
  <1>2. CASE ~\E why : fl' = [fl EXCEPT ![f] = Thrown(f, why)]
    <2>1. ~Faults(f) /\ fl[f].todo # <<>>
      BY <1>2, StepAt DEF Faults
    <2>2. CASE fl[f].todo \in Seq(Quiet)
      <3>1. Upserts(f)'
        BY <2>2, QuietCloses, ListStays DEF Upserts
      <3>2. Head(fl[f].todo) \in Quiet
        BY <2>1, <2>2, HeadTailProperties
      <3>3. ~ThrowStaleVersion(f)
        BY <3>2 DEF ThrowStaleVersion, At, Quiet
      <3> QED
        BY <3>1, <3>3, KeptStays
    <2>3. CASE fl[f].todo \in FindTodo(Call(f)) /\ (fl[f].snap = None \/ plan.engine = "upgrade")
      <3>1. Head(fl[f].todo) \in {"begin", "load", "hook", "find"}
        BY <2>3, FindHeads
      <3>2. ~ThrowStaleVersion(f)
        BY <3>1 DEF ThrowStaleVersion, At
      <3>3. Begin(f) \/ Hook(f) \/ Load(f) \/ ReadThenUpsert(f)
        BY <2>1, <3>1, StepAt
      <3> QED
        BY <2>3, <3>2, <3>3, BeforeFind, FindUpserts, KeptStays
    <2>4. CASE Finds(f) /\ fl[f].todo \in Seq(Afterwards)
      <3>1. Head(fl[f].todo) \in Afterwards
        BY <2>1, <2>4, HeadTailProperties
      <3>2. ~ThrowStaleVersion(f)
        BY <3>1 DEF ThrowStaleVersion, At, Afterwards
      <3>3. Upserts(f)'
        BY <1>2, <2>4, AfterFind, FoundUpserts
      <3> QED
        BY <3>2, <3>3, KeptStays
    <2>5. CASE Finds(f) /\ At(f, "reread") /\ Tail(fl[f].todo) \in Seq(Afterwards) /\ Missed(f)
      <3>1. ThrowStaleVersion(f)
        BY <2>1, <2>5, StepAt DEF At
      <3> QED
        BY <2>5, <3>1, RereadUpserts
    <2> QED
      BY <2>2, <2>3, <2>4, <2>5 DEF Upserts
  <1> QED
    BY <1>1, <1>2

LEMMA UpsertsStart == Init => KeepInv
  <1> SUFFICES ASSUME Init PROVE KeepInv
    OBVIOUS
  <1>1. WriteInv
    BY WritesStart
  <1>2. \A f \in Flow : fl[f] = Idle(Call(f))
    BY DEF Init
  <1>3. \A c : Idle(c).todo = Program(c) /\ Idle(c).snap = None /\ Idle(c).kept = {} /\ ~Idle(c).inTx
    BY DEF Idle
  <1>4. AllHeld
    BY <1>2, <1>3 DEF AllHeld
  <1>5. ASSUME NEW f \in Flow, Call(f).op = "upsert" PROVE Upserts(f)
    <2>1. Call(f).outer \in BOOLEAN
      BY <1>1, CallTyped DEF WriteInv
    <2>2. Program(Call(f)) \in Seq(Quiet) \/ Program(Call(f)) \in FindTodo(Call(f))
      BY <1>5, <2>1, UpsertStarts
    <2> QED
      BY <1>2, <1>3, <2>2 DEF Upserts
  <1> QED
    BY <1>1, <1>2, <1>3, <1>4, <1>5 DEF KeepInv

LEMMA UpsertsStay == KeepInv /\ [Next]_vars => KeepInv'
  <1> SUFFICES ASSUME KeepInv, [Next]_vars PROVE KeepInv'
    OBVIOUS
  <1>1. WriteInv' /\ WriteInv /\ AllHeld
    BY NextKeeps DEF KeepInv
  <1>2. CASE UNCHANGED vars
    <2>1. plan' = plan /\ rows' = rows /\ base' = base /\ lock' = lock /\ fl' = fl
      BY <1>2 DEF vars
    <2>2. AllHeld'
      BY <1>1, <2>1 DEF AllHeld
    <2>3. ASSUME NEW f \in Flow
          PROVE  /\ Call(f)' = Call(f) /\ (Exempt(f)' <=> Exempt(f)) /\ fl'[f] = fl[f]
                 /\ Upserts(f) => Upserts(f)'
      <3>1. Call(f)' = Call(f) /\ (Exempt(f)' <=> Exempt(f)) /\ FindTodo(Call(f))' = FindTodo(Call(f))
        BY <2>1 DEF Call, Exempt, FindTodo
      <3>2. (Finds(f) => Finds(f)') /\ (At(f, "reread") => At(f, "reread")')
        BY <2>1 DEF Finds, KeptRow, At
      <3>3. Missed(f) => Missed(f)'
        BY <2>1, <3>1 DEF Missed, Batch, Verdict, Expected
      <3> QED
        BY <2>1, <3>1, <3>2, <3>3 DEF Upserts
    <2> QED
      BY <1>1, <2>2, <2>3 DEF KeepInv
  <1>3. CASE Next
    <2>1. PICK h \in Flow : Write(h)
      BY <1>3 DEF Next
    <2>2. AllHeld' /\ plan' = plan /\ \A g \in Flow \ {h} : fl'[g] = fl[g]
      BY <1>1, <2>1, AllHeldStays, StepKinds
    <2>3. ASSUME NEW f \in Flow, ~Exempt(f)'
          PROVE  /\ Call(f)'.op = "upsert" => Upserts(f)'
                 /\ fl'[f].kept \subseteq {"excluded"}
      <3>1. /\ ~Exempt(f) /\ Call(f)' = Call(f) /\ fl[f].kept \subseteq {"excluded"}
            /\ Call(f).op = "upsert" => Upserts(f)
        BY <2>2, <2>3 DEF KeepInv, Call, Exempt
      <3>2. CASE f # h
        BY <1>1, <2>1, <2>2, <3>1, <3>2, OthersLetUpsert
      <3>3. CASE f = h /\ Call(f).op = "upsert"
        BY <1>1, <2>1, <3>1, <3>3, OwnStepUpserts
      <3>4. CASE f = h /\ Call(f).op # "upsert"
        <4>1. CASE ~ThrowStaleVersion(f)
          BY <1>1, <2>1, <3>1, <3>4, <4>1, KeptStays
        <4>2. CASE ThrowStaleVersion(f)
          <5>1. PICK why : Throw(f, why)
            BY <3>4, <4>2 DEF ThrowStaleVersion, KeepsFound
          <5>2. fl'[f].kept = fl[f].kept
            BY <1>1, <5>1, ThrownList DEF Throw, WriteInv
          <5> QED
            BY <3>1, <3>4, <5>2
        <4> QED
          BY <4>1, <4>2
      <3> QED
        BY <3>2, <3>3, <3>4
    <2> QED
      BY <1>1, <2>2, <2>3 DEF KeepInv
  <1> QED
    BY <1>2, <1>3

\* An upsert that goes on past a row it found has had the row excluded by its own `$where`, at the version it
\* carries: the row it reads again to say so is the row its update missed, on every engine and against every other
\* call, but for the second read of a caller's own transaction on InnoDB (`upsertMany`, `throwStaleVersion`).
THEOREM KeptWasExcludedAlways == Spec => []KeptWasExcluded
  <1>1. Init => KeepInv
    BY UpsertsStart
  <1>2. KeepInv /\ [Next]_vars => KeepInv'
    BY UpsertsStay
  <1>3. KeepInv => KeptWasExcluded
    BY DEF KeepInv, KeptWasExcluded, Exempt
  <1> QED
    BY <1>1, <1>2, <1>3, PTL DEF Spec

-----------------------------------------------------------------------------
(***************************************************************************)
(* The version a row is written at.                                        *)
(***************************************************************************)
\* Calls that delete a row for good, and rows that no other call inserts behind that: a row inserted anew takes its
\* version from the start, so a writer who read the row deleted could take it for the one it read.
HardDelete(g, k) == Call(g).op = "delete" /\ Call(g).hard /\ k \in Call(g).ids
NoneReborn ==
    \A p \in Plan, f, g, h \in Flow :
        /\ p.versioned /\ f # h
        /\ p.call[f].op \in {"update", "upsert"}
        /\ p.call[g].op = "delete" /\ p.call[g].hard
        /\ p.call[h].op \in {"insert", "upsert"}
        => p.call[f].ids \cap p.call[g].ids \cap p.call[h].ids = {}

\* A row that was `s` is gone, was moved on, or has the very content.
NotOlder(r, s) == r = None \/ r.ver > s.ver \/ (r.ver = s.ver /\ r.val = s.val)

\* The steps a call of a versioned entity goes through.
Tended(c) ==
    {"load", "begin", "hook", "reread", "settle", "drop", "save", "readBack", "children", "restore", "commit", "rollback"}
    \cup (IF c.op = "update" THEN {"match"} ELSE {})
    \cup (IF c.op = "upsert" THEN {"find", "found"} ELSE {})
    \cup (IF c.op \in {"insert", "upsert"} THEN {"insert"} ELSE {})
    \cup (IF c.op = "delete" THEN {"doom", "remove"} ELSE {})

\* What is not committed came after what is.
OnTop ==
    \A k \in Parent : base[k] # None => /\ NotOlder(rows[k], base[k])
                                        /\ rows[k] = None => HardDelete(lock[k], k)

\* Up to the caller's own read its transaction has no snapshot and changed nothing.
Unchanged(f) == fl[f].snap = None /\ \A k \in Key : lock[k] = f => rows[k] = base[k]
ToLoad(todo) == \E i \in DOMAIN todo : todo[i] = "load"

PastFind == {"found", "reread", "insert", "save", "hook", "commit", "rollback"}
OverSteps == {"commit", "rollback"}
\* An update has read its row before it writes it; an upsert finds its rows before it writes any.
Reading(f) ==
    /\ ToLoad(fl[f].todo) => Unchanged(f)
    /\ Call(f).op = "update" => \/ fl[f].todo \in Seq(OverSteps)
                                \/ ToLoad(fl[f].todo)
                                \/ \A k \in Call(f).ids : fl[f].seen[k] # None
    /\ Call(f).op = "upsert" => fl[f].todo \in FindTodo(Call(f)) \/ fl[f].todo \in Seq(PastFind)

\* The rows a call read it may still write, as it read them or moved on; those that went another call deletes.
Watched(f) ==
    {k \in Call(f).ids : /\ fl[f].seen[k] # None
                         /\ Call(f).op = "upsert" /\ fl[f].todo \in Seq(PastFind) => k \in fl[f].ids}
Watches(f) ==
    \A k \in Watched(f) : /\ NotOlder(base[k], fl[f].seen[k]) /\ NotOlder(rows[k], fl[f].seen[k])
                          /\ base[k] = None \/ rows[k] = None => \E g \in Flow : HardDelete(g, k)

VersionInv ==
    /\ WriteInv
    /\ plan.versioned =>
          /\ OnTop
          /\ \A f \in Flow : /\ fl[f].todo \in Seq(Tended(Call(f))) /\ Reading(f)
                             /\ \A i \in DOMAIN fl[f].queue : fl[f].queue[i] \subseteq fl[f].ids
                             /\ Call(f).op \in {"update", "upsert"} => Watches(f)

LEMMA TendedCloses ==
    ASSUME plan.versioned, NEW c
    PROVE  ClosedSteps(Tended(c)) /\ ClosedSteps(PastFind) /\ ClosedSteps(OverSteps)
  BY DEF ClosedSteps, Tended, PastFind, OverSteps

\* A list in a transaction, and between hooks.
LEMMA WrappedList ==
    ASSUME NEW A, "begin" \in A, "commit" \in A, "hook" \in A, NEW s \in Seq(A)
    PROVE  Hooked(s) \in Seq(A) /\ \A c, inside : Atomically(c, inside, s) \in Seq(A)
  <1>1. <<"begin">> \in Seq(A) /\ <<"commit">> \in Seq(A) /\ <<"hook">> \in Seq(A)
    OBVIOUS
  <1>2. Hooked(s) \in Seq(A)
    <2>1. <<"hook">> \o s \in Seq(A)
      BY <1>1, ConcatProperties
    <2> QED
      BY <1>1, <2>1, ConcatProperties DEF Hooked
  <1>3. (<<"begin">> \o s) \o <<"commit">> \in Seq(A)
    <2>1. <<"begin">> \o s \in Seq(A)
      BY <1>1, ConcatProperties
    <2> QED
      BY <1>1, <2>1, ConcatProperties
  <1> QED
    BY <1>2, <1>3 DEF Atomically

LEMMA TendedBody ==
    ASSUME plan.versioned, NEW c
    PROVE  CallBody(c) \in Seq(Tended(c))
  <1> DEFINE A == Tended(c)
  <1>1. /\ "begin" \in A /\ "commit" \in A /\ "hook" \in A /\ "save" \in A /\ "restore" \in A
        /\ c.op = "update" => "match" \in A /\ "settle" \in A /\ "readBack" \in A
        /\ c.op = "upsert" => "find" \in A
        /\ c.op \in {"insert", "upsert"} => "insert" \in A
        /\ c.op = "delete" => "doom" \in A
    BY DEF Tended
  <1> HIDE DEF A
  <1>2. \A s \in Seq(A) : Hooked(s) \in Seq(A) /\ \A inside : Atomically(c, inside, s) \in Seq(A)
    BY <1>1, WrappedList
  <1>3. CallBody(c) \in Seq(A)
    <2>1. CASE c.op = "update"
      <3>1. <<"match">> \in Seq(A) /\ <<"settle", "match", "readBack">> \in Seq(A)
        BY <1>1, <2>1
      <3>2. UpdateRows(c, TRUE) = <<"match">> /\ UpdateRows(c, FALSE) = <<"match">>
        BY DEF UpdateRows
      <3>3. CallBody(c) = UpdateWhere(c)
        BY <2>1 DEF CallBody
      <3>4. Hooked(<<"match">>) \in Seq(A) /\ Hooked(<<"settle", "match", "readBack">>) \in Seq(A)
        BY <1>2, <3>1
      <3>5. /\ Atomically(c, FALSE, Hooked(<<"match">>)) \in Seq(A)
            /\ Atomically(c, FALSE, Hooked(<<"settle", "match", "readBack">>)) \in Seq(A)
        BY <1>2, <3>4
      <3>6. CallBody(c) \in {Hooked(<<"match">>), Atomically(c, FALSE, Hooked(<<"match">>)),
                             Atomically(c, FALSE, Hooked(<<"settle", "match", "readBack">>))}
        <4>1. CASE c.returning
          BY <3>3, <4>1 DEF UpdateWhere
        <4>2. CASE ~c.returning
          BY <3>2, <3>3, <4>2 DEF UpdateWhere
        <4> QED
          BY <4>1, <4>2
      <3> QED
        BY <3>4, <3>5, <3>6
    <2>2. CASE c.op = "upsert"
      <3>1. <<"find">> \in Seq(A) /\ UpsertsByReading(c)
        BY <1>1, <2>2 DEF UpsertsByReading
      <3>2. CallBody(c) = Hooked(Atomically(c, FALSE, <<"find">>))
        BY <2>2, <3>1 DEF CallBody, UpsertMany
      <3> QED
        BY <1>2, <3>1, <3>2
    <2>3. CASE c.op = "insert"
      <3>1. <<"insert", "save">> \in Seq(A) /\ <<"insert">> \in Seq(A)
        BY <1>1, <2>3
      <3>2. CallBody(c) = InsertMany(c)
        BY <2>3 DEF CallBody
      <3> QED
        BY <1>2, <3>1, <3>2 DEF InsertMany
    <2>4. CASE c.op = "delete"
      <3>1. <<"doom">> \in Seq(A)
        BY <1>1, <2>4
      <3>2. CallBody(c) = Atomically(c, FALSE, <<"doom">>)
        BY <2>4 DEF CallBody, DeleteRows
      <3> QED
        BY <1>2, <3>1, <3>2
    <2>5. CASE c.op \in {"restore", "saveChild"}
      <3>1. <<"restore">> \in Seq(A) /\ <<"save">> \in Seq(A)
        BY <1>1
      <3>2. CallBody(c) \in {Hooked(<<"restore">>), Hooked(<<"save">>)}
        BY <2>5 DEF CallBody
      <3> QED
        BY <1>2, <3>1, <3>2
    <2>6. CASE c.op \notin {"update", "upsert", "insert", "delete", "restore", "saveChild"}
      <3>1. CallBody(c) = <<>>
        BY <2>6 DEF CallBody
      <3> QED
        BY <3>1
    <2> QED
      BY <2>1, <2>2, <2>3, <2>4, <2>5, <2>6
  <1> QED
    BY <1>3 DEF A

LEMMA TendedStarts ==
    ASSUME plan.versioned, NEW c
    PROVE  Program(c) \in Seq(Tended(c))
  <1> DEFINE A == Tended(c)
             reading == IF plan.versioned /\ c.op \in {"update", "upsert"} THEN <<"load">> ELSE <<>>
  <1>1. "begin" \in A /\ "commit" \in A /\ "load" \in A
    BY DEF Tended
  <1>2. CallBody(c) \in Seq(A)
    BY TendedBody
  <1> HIDE DEF A
  <1>3. reading \in Seq(A) /\ <<"begin">> \in Seq(A) /\ <<"commit">> \in Seq(A)
    BY <1>1
  <1>4. Program(c) = IF c.outer THEN <<"begin">> \o reading \o CallBody(c) \o <<"commit">> ELSE reading \o CallBody(c)
    BY DEF Program
  <1> HIDE DEF reading
  <1>5. reading \o CallBody(c) \in Seq(A) /\ <<"begin">> \o reading \in Seq(A)
    BY <1>2, <1>3, ConcatProperties
  <1>6. (<<"begin">> \o reading) \o CallBody(c) \in Seq(A)
    BY <1>2, <1>5, ConcatProperties
  <1>7. ((<<"begin">> \o reading) \o CallBody(c)) \o <<"commit">> \in Seq(A)
    BY <1>3, <1>6, ConcatProperties
  <1> QED
    BY <1>4, <1>5, <1>7 DEF A

\* What a call read, the rows it named and those before it change where a statement of their own says so.
LEMMA StepLeaves ==
    ASSUME WriteInv, NEW f \in Flow, Write(f)
    PROVE  /\ ~Load(f) => fl'[f].seen = fl[f].seen
           /\ ~ReadBack(f) /\ ~Doom(f) => fl'[f].told = fl[f].told
           /\ \/ fl'[f].ids = fl[f].ids /\ fl'[f].queue \in {fl[f].queue, Behind(f), <<>>}
              \/ /\ Settle(f) \/ ReadThenUpsert(f) \/ Doom(f)
                 /\ \A i \in DOMAIN fl'[f].queue : fl'[f].queue[i] \subseteq fl'[f].ids
  <1> DEFINE goal == /\ ~Load(f) => fl'[f].seen = fl[f].seen
                     /\ ~ReadBack(f) /\ ~Doom(f) => fl'[f].told = fl[f].told
                     /\ \/ fl'[f].ids = fl[f].ids /\ fl'[f].queue \in {fl[f].queue, Behind(f), <<>>}
                        \/ /\ Settle(f) \/ ReadThenUpsert(f) \/ Doom(f)
                           /\ \A i \in DOMAIN fl'[f].queue : fl'[f].queue[i] \subseteq fl'[f].ids
             named(kept) == DOMAIN kept = Fields /\ kept.ids = fl[f].ids /\ kept.queue \in {fl[f].queue, Behind(f), <<>>}
             loaded(kept) == named(kept) /\ kept.told = fl[f].told
             reported(kept) == named(kept) /\ kept.seen = fl[f].seen
             same(kept) == reported(kept) /\ kept.told = fl[f].told
             doomed(kept) == /\ DOMAIN kept = Fields /\ kept.seen = fl[f].seen
                             /\ \A i \in DOMAIN kept.queue : kept.queue[i] \subseteq kept.ids
             listed(kept) == doomed(kept) /\ kept.told = fl[f].told
  <1> SUFFICES goal
    OBVIOUS
  <1>1. DOMAIN fl = Flow /\ DOMAIN fl[f] = Fields /\ same(fl[f])
    BY DEF WriteInv, Keeps
  <1>2. \A kept : fl' = [fl EXCEPT ![f] = kept] => fl'[f] = kept
    BY <1>1
  <1>3. \A next : same(Then(f, next))
    BY <1>1 DEF Then, Fields
  <1>4. same(Goes(f))
    BY <1>3 DEF Goes
  <1>5. /\ \A kept, x : same(kept) => /\ same([kept EXCEPT !.snap = x])
                                      /\ same([kept EXCEPT !.miss = x]) /\ same([kept EXCEPT !.inTx = x])
        /\ \A kept : same(kept) => same([kept EXCEPT !.queue = Behind(f)])
        /\ \A kept, x, y : same(kept) => /\ reported([kept EXCEPT !.told = x, !.snap = y])
                                         /\ same([kept EXCEPT !.queue = Behind(f), !.kept = x, !.snap = y])
        /\ \A kept, x, y, z : same(kept) => loaded([[kept EXCEPT !.seen = x, !.todo = y] EXCEPT !.snap = z])
    BY DEF Fields
  <1>6. \A kept, ids, n, told, x : same(kept) =>
           /\ listed([[kept EXCEPT !.ids = ids, !.queue = InLists(ids, n)] EXCEPT !.snap = x])
           /\ doomed([[kept EXCEPT !.ids = ids, !.queue = InLists(ids, n), !.told = told] EXCEPT !.snap = x])
    <2> SUFFICES ASSUME NEW kept, NEW ids, NEW n, NEW told, NEW x, same(kept)
                 PROVE  /\ listed([[kept EXCEPT !.ids = ids, !.queue = InLists(ids, n)] EXCEPT !.snap = x])
                        /\ doomed([[kept EXCEPT !.ids = ids, !.queue = InLists(ids, n), !.told = told] EXCEPT !.snap = x])
      OBVIOUS
    <2> DEFINE q == InLists(ids, n)
    <2>1. \A i \in DOMAIN q : q[i] \subseteq ids
      BY ListsApart
    <2> HIDE DEF q
    <2>2. /\ listed([[kept EXCEPT !.ids = ids, !.queue = q] EXCEPT !.snap = x])
          /\ doomed([[kept EXCEPT !.ids = ids, !.queue = q, !.told = told] EXCEPT !.snap = x])
      BY <2>1 DEF Fields
    <2> QED
      BY <2>2 DEF q
  <1>7. \A why : same(Thrown(f, why))
    BY <1>1 DEF Thrown, Fields
  <1>8. same(Closed(f))
    BY <1>1 DEF Closed, Fields
  <1> DEFINE sends(kept) == fl' = [fl EXCEPT ![f] = kept] /\ same(kept)
  <1>9. (\E kept : sends(kept)) => goal
    BY <1>2
  <1>10. \A kept, new : same(kept) /\ Writes(f, kept, new) => \E x : sends(x)
    <2> SUFFICES ASSUME NEW kept, NEW new, same(kept), Writes(f, kept, new)
                 PROVE  \E x : sends(x)
      OBVIOUS
    <2> DEFINE after == [kept EXCEPT !.snap = Snapshot(f, FALSE)]
    <2>1. fl' = [fl EXCEPT ![f] = after]
      BY DEF Writes, Sends
    <2>2. same(after)
      BY <1>5
    <2> QED
      BY <2>1, <2>2
  <1>11. \A why : fl' = [fl EXCEPT ![f] = Thrown(f, why)] => goal
    BY <1>7, <1>9
  <1>12. \A why : Throw(f, why) => goal
    BY <1>11 DEF Throw
  <1>13. \A kept : fl' = [fl EXCEPT ![f] = kept] /\ listed(kept) /\ (Settle(f) \/ ReadThenUpsert(f)) => goal
    BY <1>2
  <1>14. \A kept : fl' = [fl EXCEPT ![f] = kept] /\ loaded(kept) /\ Load(f) => goal
    BY <1>2
  <1>32. \A kept : fl' = [fl EXCEPT ![f] = kept] /\ reported(kept) /\ ReadBack(f) => goal
    BY <1>2
  <1>33. \A kept : fl' = [fl EXCEPT ![f] = kept] /\ doomed(kept) /\ Doom(f) => goal
    BY <1>2
  <1> HIDE DEF same, named, loaded, reported, doomed, listed, goal
  <1>15. CASE Begin(f)
    BY <1>4, <1>5, <1>9, <1>15 DEF Begin
  <1>16. CASE Commit(f) \/ Rollback(f)
    BY <1>8, <1>9, <1>16 DEF Commit, Rollback
  <1>17. CASE Hook(f)
    BY <1>4, <1>9, <1>17 DEF Hook
  <1>18. CASE HookThrows(f) \/ Refused(f) \/ Deadlocked(f) \/ Racer(f)
    BY <1>11, <1>12, <1>18 DEF HookThrows, Refused, Deadlocked, Racer
  <1>19. CASE Load(f)
    <2>1. PICK x, y, z : fl' = [fl EXCEPT ![f] = [[Goes(f) EXCEPT !.seen = x, !.todo = y] EXCEPT !.snap = z]]
      BY <1>19 DEF Load, Sends
    <2>2. loaded([[Goes(f) EXCEPT !.seen = x, !.todo = y] EXCEPT !.snap = z])
      BY <1>4, <1>5
    <2> QED
      BY <1>14, <1>19, <2>1, <2>2
  <1>20. ASSUME NEW k, WriteAtVersion(f, k) PROVE goal
    <2>1. \/ \E y : Writes(f, [Goes(f) EXCEPT !.queue = Behind(f)], y)
          \/ \E x, y : Writes(f, [Then(f, <<"reread">>) EXCEPT !.miss = x], y)
      BY <1>20 DEF WriteAtVersion
    <2>2. CASE \E y : Writes(f, [Goes(f) EXCEPT !.queue = Behind(f)], y)
      BY <1>4, <1>5, <1>9, <1>10, <2>2
    <2>3. CASE \E x, y : Writes(f, [Then(f, <<"reread">>) EXCEPT !.miss = x], y)
      <3>1. PICK x, y : Writes(f, [Then(f, <<"reread">>) EXCEPT !.miss = x], y)
        BY <2>3
      <3>2. same([Then(f, <<"reread">>) EXCEPT !.miss = x])
        BY <1>3, <1>5
      <3> QED
        BY <1>9, <1>10, <3>1, <3>2
    <2> QED
      BY <2>1, <2>2, <2>3
  <1>21. CASE Match(f)
    BY <1>20, <1>21 DEF Match
  <1>22. CASE Found(f)
    <2>1. \/ \E k : WriteAtVersion(f, k)
          \/ Throw(f, "unversioned")
          \/ \E y : Writes(f, [Goes(f) EXCEPT !.queue = Behind(f)], y)
      BY <1>22 DEF Found
    <2>2. CASE \E y : Writes(f, [Goes(f) EXCEPT !.queue = Behind(f)], y)
      BY <1>4, <1>5, <1>9, <1>10, <2>2
    <2> QED
      BY <1>12, <1>20, <2>1, <2>2
  <1>23. CASE Where(f) \/ DropUnlisted(f) \/ Merge(f) \/ DeleteChildren(f) \/ Restore(f)
    <2>1. PICK y : Writes(f, Goes(f), y)
      BY <1>23 DEF Where, DropUnlisted, Merge, DeleteChildren, Restore
    <2> QED
      BY <1>4, <1>9, <1>10, <2>1
  <1>24. CASE SaveChildren(f) \/ InsertRows(f)
    <2>1. (\E y : Writes(f, Goes(f), y)) \/ \E why : Throw(f, why)
      BY <1>24 DEF SaveChildren, InsertRows
    <2> QED
      BY <1>4, <1>9, <1>10, <1>12, <2>1
  <1>25. CASE Columns(f)
    <2>1. PICK kept \in {fl[f], Goes(f)} : \E y : Writes(f, [kept EXCEPT !.queue = Behind(f)], y)
      BY <1>25 DEF Columns
    <2>2. PICK y : Writes(f, [kept EXCEPT !.queue = Behind(f)], y)
      BY <2>1
    <2>3. same([kept EXCEPT !.queue = Behind(f)])
      BY <1>1, <1>4, <1>5, <2>1
    <2> QED
      BY <1>9, <1>10, <2>2, <2>3
  <1>26. CASE ReadBack(f)
    <2>1. PICK x, y : fl' = [fl EXCEPT ![f] = [Goes(f) EXCEPT !.told = x, !.snap = y]]
      BY <1>26 DEF ReadBack, Sends
    <2> QED
      BY <1>4, <1>5, <1>26, <1>32, <2>1
  <1>27. CASE ThrowStaleVersion(f)
    <2>1. \/ \E actual : Throw(f, actual)
          \/ \E x, y : fl' = [fl EXCEPT ![f] = [Goes(f) EXCEPT !.queue = Behind(f), !.kept = x, !.snap = y]]
      BY <1>27 DEF ThrowStaleVersion, Sends
    <2>2. ASSUME NEW x, NEW y, fl' = [fl EXCEPT ![f] = [Goes(f) EXCEPT !.queue = Behind(f), !.kept = x, !.snap = y]]
          PROVE  goal
      <3>1. same([Goes(f) EXCEPT !.queue = Behind(f), !.kept = x, !.snap = y])
        BY <1>4, <1>5
      <3> QED
        BY <1>9, <2>2, <3>1
    <2> QED
      BY <1>12, <2>1, <2>2
  <1>28. CASE Settle(f)
    <2>1. PICK next, ids, x :
             fl' = [fl EXCEPT ![f] = [[Then(f, next) EXCEPT !.ids = ids, !.queue = InLists(ids, Capacity)] EXCEPT !.snap = x]]
      BY <1>28 DEF Settle, Reads, Sends, Chunks
    <2>2. listed([[Then(f, next) EXCEPT !.ids = ids, !.queue = InLists(ids, Capacity)] EXCEPT !.snap = x])
      BY <1>3, <1>6
    <2> QED
      BY <1>13, <1>28, <2>1, <2>2
  <1>29. CASE ReadThenUpsert(f)
    <2>1. PICK next, ids, x :
             fl' = [fl EXCEPT ![f] = [[Then(f, next) EXCEPT !.ids = ids, !.queue = InLists(ids, 1)] EXCEPT !.snap = x]]
      BY <1>29 DEF ReadThenUpsert, Reads, Sends
    <2> QED
      BY <1>3, <1>6, <1>13, <1>29, <2>1
  <1>30. CASE Doom(f)
    <2>1. PICK next, ids, told, x :
             fl' = [fl EXCEPT ![f] = [[Then(f, next) EXCEPT !.ids = ids, !.queue = InLists(ids, Capacity), !.told = told]
                                         EXCEPT !.snap = x]]
      BY <1>30 DEF Doom, Reads, Sends, Chunks
    <2>2. doomed([[Then(f, next) EXCEPT !.ids = ids, !.queue = InLists(ids, Capacity), !.told = told] EXCEPT !.snap = x])
      BY <1>3, <1>6
    <2> QED
      BY <1>30, <1>33, <2>1, <2>2
  <1>31. CASE InternalDelete(f)
    <2>1. \/ Throw(f, "foreignKey")
          \/ \E next, y : Writes(f, [Then(f, next) EXCEPT !.queue = Behind(f)], y)
      BY <1>31 DEF InternalDelete
    <2>2. CASE \E next, y : Writes(f, [Then(f, next) EXCEPT !.queue = Behind(f)], y)
      <3>1. PICK next, y : Writes(f, [Then(f, next) EXCEPT !.queue = Behind(f)], y)
        BY <2>2
      <3>2. same([Then(f, next) EXCEPT !.queue = Behind(f)])
        BY <1>3, <1>5
      <3> QED
        BY <1>9, <1>10, <3>1, <3>2
    <2> QED
      BY <1>12, <2>1, <2>2
  <1> QED
    BY <1>15, <1>16, <1>17, <1>18, <1>19, <1>21, <1>22, <1>23, <1>24, <1>25, <1>26, <1>27, <1>28, <1>29, <1>30, <1>31
    DEF Write, Proceeds, Statement

\* What a statement of a versioned entity leaves of a row: gone for good, moved on or as it was, or inserted.
LeftRow(h, k, row) ==
    \/ row = None /\ HardDelete(h, k)
    \/ row # None /\ Current(h)[k] # None /\ NotOlder(row, Current(h)[k])
    \/ row # None /\ Current(h)[k] = None /\ At(h, "insert") /\ k \in Missing(h)

LEMMA MarkedRow ==
    ASSUME NEW f \in Flow, NEW row \in Row
    PROVE  /\ Bumped(f, row) # None /\ NotOlder(Bumped(f, row), row)
           /\ \A b \in BOOLEAN : [row EXCEPT !.del = b] # None /\ NotOlder([row EXCEPT !.del = b], row)
  <1>1. Bumped(f, row) \in Row /\ Bumped(f, row).ver = row.ver + 1 /\ row.ver \in Nat
    <2> DEFINE touched == [row EXCEPT !.val = f]
    <2>1. touched \in Row /\ touched.ver = row.ver /\ row.ver \in Nat
      BY DEF Row
    <2> HIDE DEF touched
    <2>2. [touched EXCEPT !.ver = touched.ver + 1] \in Row /\ [touched EXCEPT !.ver = touched.ver + 1].ver = touched.ver + 1
      BY <2>1 DEF Row
    <2> QED
      BY <2>1, <2>2 DEF Bumped, Touched, touched
  <1>2. \A b \in BOOLEAN : [row EXCEPT !.del = b] \in Row
    BY DEF Row
  <1>3. \A b : [row EXCEPT !.del = b].ver = row.ver /\ [row EXCEPT !.del = b].val = row.val
    BY DEF Row
  <1>4. None \notin Row
    BY KeyAssumption
  <1> QED
    BY <1>1, <1>2, <1>3, <1>4 DEF NotOlder

LEMMA WritesLeave ==
    ASSUME NEW h, NEW kept, NEW new, Writes(h, kept, new), \A k \in Parent : k \in DOMAIN new => LeftRow(h, k, new[k])
    PROVE  \A k \in Parent : rows'[k] # rows[k] \/ base'[k] # base[k] => LeftRow(h, k, rows'[k])
  <1>1. \A k \in Key : /\ rows'[k] = IF k \in DOMAIN new THEN new[k] ELSE rows[k]
                       /\ base'[k] = base[k] \/ (k \in DOMAIN new /\ base'[k] = new[k])
    BY Zenon DEF Writes, Sends, Put
  <1> QED
    BY <1>1 DEF Key

LEMMA RowsChange ==
    ASSUME WriteInv, plan.versioned, NEW h \in Flow, fl[h].todo \in Seq(Tended(Call(h))), Statement(h)
    PROVE  \A k \in Parent : rows'[k] # rows[k] \/ base'[k] # base[k] => LeftRow(h, k, rows'[k])
  <1> DEFINE goal == \A k \in Parent : rows'[k] # rows[k] \/ base'[k] # base[k] => LeftRow(h, k, rows'[k])
  <1> SUFFICES goal
    OBVIOUS
  <1>1. fl[h].todo # <<>> /\ Head(fl[h].todo) \in Tended(Call(h))
    BY StatementStarts, HeadTailProperties
  <1>2. \A why : Throw(h, why) => goal
    BY DEF Throw, store
  <1>3. \A kept, locked : Sends(h, kept, <<>>, locked) => goal
    <2> SUFFICES ASSUME NEW kept, NEW locked, Sends(h, kept, <<>>, locked) PROVE goal
      OBVIOUS
    <2>1. \A k \in Key : rows'[k] = rows[k] /\ base'[k] = base[k]
      <3>1. DOMAIN <<>> = {}
        OBVIOUS
      <3> QED
        BY <3>1 DEF Sends, Put
    <2> QED
      BY <2>1 DEF Key
  <1>4. \A kept, held : Reads(h, kept, held) => goal
    BY <1>3 DEF Reads
  <1>5. \A kept, new : Writes(h, kept, new) /\ (\A k \in Parent : k \in DOMAIN new => LeftRow(h, k, new[k])) => goal
    BY WritesLeave
  <1>6. \A kept, new : Writes(h, kept, new) /\ DOMAIN new \cap Parent = {} => goal
    BY <1>5
  <1>7. /\ Current(h) \in [Key -> Row \cup {None}]
        /\ Call(h).ids \subseteq Parent /\ (Call(h).list = None \/ Call(h).list \subseteq Child)
        /\ Child \cap Parent = {} /\ Parent \subseteq Key
    BY AtRow, CallTyped, KeyAssumption DEF WriteInv, Key
  <1>8. Batch(h) \subseteq Call(h).ids
    <2>1. fl[h].queue \in Seq(SUBSET Call(h).ids)
      BY DEF WriteInv, Keeps
    <2> QED
      BY <2>1, QueuePops DEF Batch
  <1> HIDE DEF goal
  <1>9. CASE Load(h) \/ ReadBack(h)
    BY <1>3, <1>9 DEF Load, ReadBack
  <1>10. CASE Settle(h) \/ ReadThenUpsert(h) \/ Doom(h)
    BY <1>4, <1>10 DEF Settle, ReadThenUpsert, Doom
  <1>11. CASE ThrowStaleVersion(h)
    BY <1>2, <1>3, <1>11 DEF ThrowStaleVersion
  <1>12. CASE Where(h) \/ Columns(h) \/ Merge(h)
    BY <1>1, <1>12 DEF Where, Columns, Merge, Ready, At, Tended
  <1>13. ASSUME NEW k \in Call(h).ids, WriteAtVersion(h, k) PROVE goal
    <2>1. CASE LockVersion(h, k)
      <3> DEFINE new == [j \in {k} |-> Bumped(h, Current(h)[j])]
      <3>1. PICK kept : Writes(h, kept, new)
        BY <1>13, <2>1 DEF WriteAtVersion
      <3>2. Current(h)[k] # None /\ Current(h)[k] \in Row
        BY <1>7, <2>1 DEF LockVersion
      <3>3. LeftRow(h, k, Bumped(h, Current(h)[k]))
        BY <3>2, MarkedRow DEF LeftRow
      <3>4. DOMAIN new = {k} /\ new[k] = Bumped(h, Current(h)[k])
        OBVIOUS
      <3> HIDE DEF new
      <3> QED
        BY <1>5, <3>1, <3>3, <3>4
    <2>2. CASE ~LockVersion(h, k)
      <3>1. DOMAIN <<>> \cap Parent = {}
        OBVIOUS
      <3>2. PICK kept : Writes(h, kept, <<>>)
        BY <1>13, <2>2 DEF WriteAtVersion
      <3> QED
        BY <1>6, <3>1, <3>2
    <2> QED
      BY <2>1, <2>2
  <1>14. CASE Match(h)
    BY <1>13, <1>14 DEF Match
  <1>15. CASE Found(h)
    <2>1. (\E k \in Call(h).ids : WriteAtVersion(h, k)) \/ Throw(h, "unversioned")
      BY <1>8, <1>15 DEF Found
    <2> QED
      BY <1>2, <1>13, <2>1
  <1>16. CASE DropUnlisted(h)
    <2>1. PICK new : Writes(h, Goes(h), new) /\ DOMAIN new = Unlisted(h)
      BY <1>16 DEF DropUnlisted
    <2> QED
      BY <1>6, <1>7, <2>1 DEF Unlisted, ChildrenOf
  <1>17. CASE SaveChildren(h)
    <2>1. \/ \E why : Throw(h, why)
          \/ \E new : Writes(h, Goes(h), new) /\ DOMAIN new = Call(h).list
      BY <1>17 DEF SaveChildren
    <2>2. Call(h).list # None
      <3>1. fl[h].todo \in Seq(Step(Call(h)))
        BY DEF WriteInv, Keeps, Shape
      <3>2. Head(fl[h].todo) \in Step(Call(h)) /\ Head(fl[h].todo) = "save"
        BY <1>1, <1>17, <3>1, HeadTailProperties DEF SaveChildren, Ready, At
      <3> QED
        BY <3>2 DEF Step, Plain, Together
    <2> QED
      BY <1>2, <1>6, <1>7, <2>1, <2>2
  <1>18. CASE DeleteChildren(h)
    <2>1. PICK new : Writes(h, Goes(h), new) /\ DOMAIN new = ChildrenOf(Current(h), Batch(h))
      BY <1>18 DEF DeleteChildren
    <2> QED
      BY <1>6, <1>7, <2>1 DEF ChildrenOf
  <1>19. CASE InsertRows(h)
    <2> DEFINE new == [k \in Missing(h) |-> Fresh(h, k)]
    <2>1. (\E why : Throw(h, why)) \/ (Writes(h, Goes(h), new) /\ \A k \in Missing(h) : Current(h)[k] = None)
      BY <1>19 DEF InsertRows
    <2>2. At(h, "insert")
      BY <1>19 DEF InsertRows, Ready
    <2>3. \A k \in Missing(h) : Fresh(h, k) # None
      <3>1. Missing(h) \subseteq Call(h).ids
        BY DEF Missing
      <3>2. fl[h].seen \in [Call(h).ids -> Row \cup {None}] /\ h \in Flow /\ None \notin Row
        BY KeyAssumption DEF WriteInv, Keeps
      <3>3. \A k \in Missing(h) : Fresh(h, k) \in Row
        BY <3>1, <3>2 DEF Fresh, Row
      <3> QED
        BY <3>2, <3>3
    <2>4. DOMAIN new = Missing(h) /\ \A k \in Missing(h) : new[k] = Fresh(h, k)
      OBVIOUS
    <2> HIDE DEF new
    <2>5. Writes(h, Goes(h), new) => \/ \E k \in Missing(h) : Current(h)[k] # None
                                     \/ \A k \in Parent : k \in DOMAIN new => LeftRow(h, k, new[k])
      BY <2>2, <2>3, <2>4 DEF LeftRow
    <2> QED
      BY <1>2, <1>5, <2>1, <2>5
  <1>20. CASE InternalDelete(h)
    <2> DEFINE batch == {k \in Batch(h) : Current(h)[k] # None /\ (Call(h).hard \/ ~Current(h)[k].del)}
               new == [k \in batch |-> Gone(h, k)]
    <2>1. (\E why : Throw(h, why)) \/ (\E kept : Writes(h, kept, new))
      BY <1>20 DEF InternalDelete
    <2>2. Call(h).op = "delete"
      BY <1>1, <1>20 DEF InternalDelete, Ready, At, Tended
    <2>3. ASSUME NEW k \in batch PROVE LeftRow(h, k, Gone(h, k))
      <3>1. k \in Call(h).ids /\ Current(h)[k] # None /\ Current(h)[k] \in Row
        BY <1>7, <1>8
      <3>2. CASE Call(h).hard
        BY <2>2, <3>1, <3>2 DEF LeftRow, HardDelete, Gone
      <3>3. CASE ~Call(h).hard
        BY <3>1, <3>3, MarkedRow DEF LeftRow, Gone
      <3> QED
        BY <3>2, <3>3
    <2>4. DOMAIN new = batch /\ \A k \in batch : new[k] = Gone(h, k)
      OBVIOUS
    <2> HIDE DEF new, batch
    <2> QED
      BY <1>2, <1>5, <2>1, <2>3, <2>4
  <1>21. CASE Restore(h)
    <2> DEFINE new == [k \in Restorable(h) |-> [Current(h)[k] EXCEPT !.del = FALSE]]
    <2>1. Writes(h, Goes(h), new)
      BY <1>21 DEF Restore
    <2>2. \A k \in Restorable(h) : Current(h)[k] # None /\ Current(h)[k] \in Row
      BY <1>7 DEF Restorable
    <2>3. \A k \in Restorable(h) : LeftRow(h, k, [Current(h)[k] EXCEPT !.del = FALSE])
      BY <2>2, MarkedRow DEF LeftRow
    <2>4. DOMAIN new = Restorable(h) /\ \A k \in Restorable(h) : new[k] = [Current(h)[k] EXCEPT !.del = FALSE]
      OBVIOUS
    <2> HIDE DEF new
    <2> QED
      BY <1>5, <2>1, <2>3, <2>4
  <1> QED
    BY <1>9, <1>10, <1>11, <1>12, <1>14, <1>15, <1>16, <1>17, <1>18, <1>19, <1>20, <1>21 DEF Statement

\* What any step does to a row of a versioned entity.
LEMMA TableStep ==
    ASSUME WriteInv, plan.versioned, NEW h \in Flow, fl[h].todo \in Seq(Tended(Call(h))), Write(h), NEW k \in Parent
    PROVE  \/ /\ rows'[k] = rows[k] /\ base'[k] = base[k]
              /\ lock'[k] = lock[k] \/ (lock[k] = None /\ lock'[k] = h)
           \/ rows'[k] = rows[k] /\ base'[k] = rows[k]
           \/ rows'[k] = base[k] /\ base'[k] = base[k]
           \/ /\ LeftRow(h, k, rows'[k]) /\ Current(h)[k] = rows[k]
              /\ base'[k] = rows'[k] \/ (base'[k] = base[k] /\ lock'[k] = h)
  <1> DEFINE same == /\ rows'[k] = rows[k] /\ base'[k] = base[k]
                     /\ lock'[k] = lock[k] \/ (lock[k] = None /\ lock'[k] = h)
             left == /\ LeftRow(h, k, rows'[k]) /\ Current(h)[k] = rows[k]
                     /\ base'[k] = rows'[k] \/ (base'[k] = base[k] /\ lock'[k] = h)
  <1>1. k \in Key /\ Current(h)[k] = IF lock[k] = h THEN rows[k] ELSE base[k]
    BY AtRow DEF Key
  <1>2. lock[k] = None => rows[k] = base[k]
    BY <1>1 DEF WriteInv, Tables
  <1>3. CASE Statement(h)
    <2>1. rows'[k] # rows[k] \/ base'[k] # base[k] => LeftRow(h, k, rows'[k])
      BY <1>3, RowsChange
    <2>2. CASE Passing(h)
      <3>1. PICK kept, new, locked : Passes(h, kept, new, locked)
        BY <2>2 DEF Passing
      <3>2. PassesInto(h, new, locked)
        BY <3>1, PassesIntoTables
      <3>3. /\ rows'[k] = IF k \in DOMAIN new THEN new[k] ELSE rows[k]
            /\ base'[k] = IF ~fl[h].inTx /\ k \in DOMAIN new THEN new[k] ELSE base[k]
            /\ lock'[k] = IF fl[h].inTx /\ k \in locked THEN h ELSE lock[k]
            /\ k \in Needs(h) => lock[k] \in {None, h}
            /\ k \in DOMAIN new => k \in Needs(h)
            /\ locked \subseteq Needs(h)
            /\ fl[h].inTx => DOMAIN new \subseteq locked
        BY <1>1, <3>2 DEF PassesInto
      <3>4. CASE rows'[k] = rows[k] /\ base'[k] = base[k]
        BY <3>3, <3>4
      <3>5. CASE rows'[k] # rows[k] \/ base'[k] # base[k]
        <4>1. k \in DOMAIN new /\ lock[k] \in {None, h}
          BY <3>3, <3>5
        <4>2. Current(h)[k] = rows[k]
          BY <1>1, <1>2, <4>1
        <4>3. base'[k] = rows'[k] \/ (base'[k] = base[k] /\ lock'[k] = h)
          BY <3>3, <4>1
        <4> QED
          BY <2>1, <3>5, <4>2, <4>3
      <3> QED
        BY <3>4, <3>5
    <2>3. CASE Throwing(h)
      BY <2>3 DEF Throwing, Throw, store
    <2> QED
      BY <1>3, <2>2, <2>3, StatementPasses
  <1>4. CASE Begin(h)
    <2>1. rows' = rows /\ base' = base /\ lock' = IF plan.engine = "begin" THEN [j \in Key |-> h] ELSE lock
      BY <1>4 DEF Begin
    <2>2. plan.engine = "begin" => lock[k] \in {None, h}
      <3>1. plan.engine = "begin" => Needs(h) = Key
        BY <1>4 DEF Begin, Ready, At, Needs, Ended
      <3>2. Free(h)
        BY <1>4 DEF Begin, Ready
      <3> QED
        BY <1>1, <3>1, <3>2, FreeToHave
    <2> QED
      BY <1>1, <2>1, <2>2
  <1>5. CASE Commit(h)
    BY <1>1, <1>5 DEF Commit
  <1>6. CASE Rollback(h)
    BY <1>1, <1>6 DEF Rollback
  <1>7. CASE Hook(h) \/ HookThrows(h) \/ Refused(h)
    BY <1>7 DEF Hook, HookThrows, Refused, store
  <1>8. CASE Deadlocked(h) \/ Racer(h)
    BY <1>8 DEF Deadlocked, Racer, Throw, store
  <1> QED
    BY <1>3, <1>4, <1>5, <1>6, <1>7, <1>8 DEF Write, Proceeds

LEMMA NotOlderGoesOn ==
    ASSUME NEW r \in Row \cup {None}, NEW s \in Row, NEW t \in Row, NotOlder(r, s), NotOlder(s, t)
    PROVE  NotOlder(r, t)
  <1>1. s.ver \in Nat /\ t.ver \in Nat /\ (r # None => r.ver \in Nat) /\ s # None
    BY KeyAssumption DEF Row
  <1> QED
    BY <1>1 DEF NotOlder

\* What was inserted is no call's that deletes.
LEMMA InsertsOwn ==
    ASSUME NEW h \in Flow, fl[h].todo \in Seq(Tended(Call(h))), At(h, "insert")
    PROVE  Call(h).op \in {"insert", "upsert"} /\ Missing(h) \subseteq Call(h).ids
  <1>1. "insert" \in Tended(Call(h))
    BY HeadTailProperties DEF At
  <1> QED
    BY <1>1 DEF Tended, Missing

LEMMA OnTopStays ==
    ASSUME WriteInv, WriteInv', plan.versioned, OnTop, NEW h \in Flow, fl[h].todo \in Seq(Tended(Call(h))), Write(h)
    PROVE  OnTop'
  <1>1. plan' = plan
    BY StepKinds
  <1>2. \A g, k : HardDelete(g, k)' <=> HardDelete(g, k)
    BY <1>1 DEF HardDelete, Call
  <1> SUFFICES ASSUME NEW k \in Parent, base'[k] # None
               PROVE  NotOlder(rows'[k], base'[k]) /\ (rows'[k] = None => HardDelete(lock'[k], k))
    BY <1>1 DEF OnTop, HardDelete, Call
  <1>3. /\ rows[k] \in Row \cup {None} /\ base[k] \in Row \cup {None}
        /\ rows'[k] \in Row \cup {None} /\ base'[k] \in Row \cup {None}
        /\ lock[k] = None => rows[k] = base[k]
        /\ None \notin Row
    BY KeyAssumption DEF WriteInv, Tables, Key
  <1>4. base[k] # None => NotOlder(rows[k], base[k]) /\ (rows[k] = None => HardDelete(lock[k], k))
    BY DEF OnTop
  <1>5. CASE rows'[k] = base'[k]
    BY <1>3, <1>5 DEF NotOlder
  <1>6. CASE rows'[k] # base'[k]
    <2>1. CASE /\ rows'[k] = rows[k] /\ base'[k] = base[k]
               /\ lock'[k] = lock[k] \/ (lock[k] = None /\ lock'[k] = h)
      BY <1>3, <1>4, <1>6, <2>1
    <2>2. CASE LeftRow(h, k, rows'[k]) /\ Current(h)[k] = rows[k] /\ base'[k] = base[k] /\ lock'[k] = h
      <3>1. CASE rows'[k] = None /\ HardDelete(h, k)
        BY <2>2, <3>1 DEF NotOlder
      <3>2. CASE rows'[k] # None /\ rows[k] # None /\ NotOlder(rows'[k], rows[k])
        BY <1>3, <1>4, <2>2, <3>2, NotOlderGoesOn
      <3>3. CASE rows'[k] # None /\ rows[k] = None /\ At(h, "insert")
        <4>1. HardDelete(lock[k], k)
          BY <1>3, <1>4, <2>2, <3>3
        <4>2. lock[k] = h
          BY <2>2, <3>3, AtRow DEF Key
        <4> QED
          BY <3>3, <4>1, <4>2, InsertsOwn DEF HardDelete
      <3> QED
        BY <2>2, <3>1, <3>2, <3>3 DEF LeftRow
    <2> QED
      BY <1>6, <2>1, <2>2, TableStep
  <1> QED
    BY <1>5, <1>6

\* A row a call read stays gone, moved on or as it was, whoever takes a step: only another call would insert it anew.
LEMMA StaysWatched ==
    ASSUME VersionInv, NoneReborn, plan.versioned, NEW h \in Flow, Write(h), NEW f \in Flow,
           Call(f).op \in {"update", "upsert"}, NEW k \in Watched(f), f = h /\ At(f, "insert") => k \notin Missing(f)
    PROVE  /\ NotOlder(base'[k], fl[f].seen[k]) /\ NotOlder(rows'[k], fl[f].seen[k])
           /\ base'[k] = None \/ rows'[k] = None => \E g \in Flow : HardDelete(g, k)
  <1> DEFINE s == fl[f].seen[k]
             good(row) == NotOlder(row, s) /\ (row = None => \E g \in Flow : HardDelete(g, k))
  <1>1. WriteInv /\ fl[h].todo \in Seq(Tended(Call(h)))
    BY DEF VersionInv
  <1>2. k \in Call(f).ids /\ k \in Parent /\ k \in Key /\ s # None
    BY <1>1, CallTyped DEF Watched, WriteInv
  <1>3. s \in Row /\ rows[k] \in Row \cup {None} /\ rows'[k] \in Row \cup {None}
    <2>1. WriteInv'
      BY <1>1, NextKeeps DEF Next
    <2>2. rows[k] \in Row \cup {None} /\ rows'[k] \in Row \cup {None}
      BY <1>1, <1>2, <2>1 DEF WriteInv, Tables
    <2>3. fl[f].seen \in [Call(f).ids -> Row \cup {None}]
      BY <1>1 DEF WriteInv, Keeps
    <2> QED
      BY <1>2, <2>2, <2>3
  <1>4. good(rows[k]) /\ good(base[k])
    BY DEF VersionInv, Watches
  <1>5. LeftRow(h, k, rows'[k]) /\ Current(h)[k] = rows[k] => good(rows'[k])
    <2> SUFFICES ASSUME LeftRow(h, k, rows'[k]), Current(h)[k] = rows[k] PROVE good(rows'[k])
      OBVIOUS
    <2>1. CASE rows'[k] = None /\ HardDelete(h, k)
      BY <2>1 DEF NotOlder
    <2>2. CASE rows'[k] # None /\ rows[k] # None /\ NotOlder(rows'[k], rows[k])
      BY <1>3, <1>4, <2>2, NotOlderGoesOn
    <2>3. CASE rows[k] = None /\ At(h, "insert") /\ k \in Missing(h)
      <3>1. PICK g \in Flow : HardDelete(g, k)
        BY <1>4, <2>3
      <3>2. f # h
        BY <2>3
      <3>3. Call(h).op \in {"insert", "upsert"} /\ k \in Call(h).ids
        BY <1>1, <2>3, InsertsOwn
      <3>4. Call(f).ids \cap Call(g).ids \cap Call(h).ids = {}
        <4>1. plan \in Plan
          BY <1>1 DEF WriteInv
        <4> QED
          BY <3>1, <3>2, <3>3, <4>1 DEF NoneReborn, HardDelete, Call
      <3> QED
        BY <1>2, <3>1, <3>3, <3>4 DEF HardDelete
    <2> QED
      BY <2>1, <2>2, <2>3 DEF LeftRow
  <1>6. good(rows'[k]) /\ good(base'[k])
    <2> HIDE DEF good
    <2>1. \/ /\ rows'[k] = rows[k] /\ base'[k] = base[k]
             /\ lock'[k] = lock[k] \/ (lock[k] = None /\ lock'[k] = h)
          \/ rows'[k] = rows[k] /\ base'[k] = rows[k]
          \/ rows'[k] = base[k] /\ base'[k] = base[k]
          \/ /\ LeftRow(h, k, rows'[k]) /\ Current(h)[k] = rows[k]
             /\ base'[k] = rows'[k] \/ (base'[k] = base[k] /\ lock'[k] = h)
      BY <1>1, <1>2, TableStep
    <2> QED
      BY <1>4, <1>5, <2>1
  <1> QED
    BY <1>6

LEMMA OthersLetVersion ==
    ASSUME VersionInv, NoneReborn, plan.versioned, NEW h \in Flow, Write(h), NEW f \in Flow \ {h}
    PROVE  /\ Reading(f)' /\ (Call(f)'.op \in {"update", "upsert"} => Watches(f)')
           /\ (fl[f].todo \in Seq(Tended(Call(f))))'
           /\ (\A i \in DOMAIN fl[f].queue : fl[f].queue[i] \subseteq fl[f].ids)'
  <1>1. /\ plan' = plan /\ fl'[f] = fl[f]
        /\ \A k \in Key : /\ lock'[k] = f <=> lock[k] = f
                          /\ lock[k] = f => rows'[k] = rows[k] /\ base'[k] = base[k]
    BY OthersLeave DEF VersionInv
  <1>2. Call(f)' = Call(f) /\ \A g, k : HardDelete(g, k)' <=> HardDelete(g, k)
    BY <1>1 DEF Call, HardDelete
  <1>3. Reading(f)
    BY DEF VersionInv
  <1>4. Unchanged(f) => Unchanged(f)'
    BY <1>1 DEF Unchanged
  <1>5. Reading(f)'
    BY <1>1, <1>2, <1>3, <1>4 DEF Reading
  <1>6. Watched(f)' = Watched(f)
    BY <1>1, <1>2 DEF Watched
  <1>7. ASSUME Call(f).op \in {"update", "upsert"} PROVE Watches(f)'
    <2>1. ASSUME NEW k \in Watched(f)
          PROVE  /\ NotOlder(base'[k], fl[f].seen[k]) /\ NotOlder(rows'[k], fl[f].seen[k])
                 /\ base'[k] = None \/ rows'[k] = None => \E g \in Flow : HardDelete(g, k)
      BY <1>7, StaysWatched
    <2> QED
      BY <1>1, <1>2, <1>6, <2>1 DEF Watches, NotOlder
  <1> QED
    BY <1>1, <1>2, <1>5, <1>7 DEF VersionInv

\* The caller's own read is what a call starts with, behind the begin of a transaction it opens.
LEMMA LoadFirst ==
    ASSUME NEW todo, NEW inTx \in BOOLEAN, NEW c, Shape(todo, inTx, c), ToLoad(todo)
    PROVE  /\ todo # <<>> /\ Head(todo) \in {"load", "begin"}
           /\ Head(todo) = "load" => ~ToLoad(Tail(todo))
           /\ Head(todo) = "begin" => ToLoad(Tail(todo))
  <1>1. todo \in Seq(Step(c)) /\ todo # <<>>
    BY DEF Shape, ToLoad
  <1>2. /\ Len(todo) \in Nat /\ DOMAIN todo = 1..Len(todo) /\ DOMAIN Tail(todo) = 1..Len(todo) - 1
        /\ \A i \in 1..Len(todo) - 1 : Tail(todo)[i] = todo[i + 1] /\ i + 1 \in 2..Len(todo)
        /\ Head(todo) = todo[1]
    BY <1>1, TailItems
  <1>3. \A i \in DOMAIN todo : todo[i] = "load" => (i = 2 /\ todo[1] = "begin") \/ i = 1
    BY DEF Shape
  <1>4. PICK i \in DOMAIN todo : todo[i] = "load"
    BY DEF ToLoad
  <1>5. Head(todo) \in {"load", "begin"}
    BY <1>2, <1>3, <1>4
  <1>6. ASSUME Head(todo) = "load", NEW j \in DOMAIN Tail(todo), Tail(todo)[j] = "load" PROVE FALSE
    <2>1. j + 1 \in DOMAIN todo /\ todo[j + 1] = "load" /\ j \in Nat /\ j # 0
      BY <1>2, <1>6
    <2>2. j + 1 = 2 /\ todo[1] = "begin"
      BY <1>3, <2>1
    <2> QED
      BY <1>2, <1>6, <2>2
  <1>7. ASSUME Head(todo) = "begin" PROVE ToLoad(Tail(todo))
    <2>1. i = 2
      BY <1>2, <1>3, <1>4, <1>7
    <2>2. 1 \in DOMAIN Tail(todo) /\ Tail(todo)[1] = "load"
      BY <1>2, <1>4, <2>1
    <2> QED
      BY <2>2 DEF ToLoad
  <1> QED
    BY <1>1, <1>5, <1>6, <1>7 DEF ToLoad

\* A list without that read.
LEMMA NothingToLoad ==
    ASSUME NEW A, "load" \notin A, NEW todo \in Seq(A)
    PROVE  ~ToLoad(todo)
  BY ElementOfSeq, LenProperties DEF ToLoad

\* The rows a caller reads before it writes them.
LEMMA LoadLeaves ==
    ASSUME WriteInv, plan.versioned, NEW f \in Flow, Load(f)
    PROVE  /\ rows' = rows /\ base' = base /\ lock' = lock
           /\ \A k \in Call(f).ids : fl'[f].seen[k] = IF Live(View(f)[k]) THEN View(f)[k] ELSE None
           /\ \/ fl'[f].todo = Tail(fl[f].todo)
              \/ Call(f).op = "update" /\ fl'[f].todo \in Seq(OverSteps)
           /\ Call(f).op = "update" => \/ fl'[f].todo \in Seq(OverSteps)
                                       \/ \A k \in Call(f).ids : fl'[f].seen[k] # None
  <1> DEFINE found == [k \in Call(f).ids |-> IF Live(View(f)[k]) THEN View(f)[k] ELSE None]
             none == Call(f).op = "update" /\ \A k \in Call(f).ids : found[k] = None
             kept == [Goes(f) EXCEPT !.seen = found,
                                     !.todo = IF ~none THEN @ ELSE IF Call(f).outer THEN <<"commit">> ELSE <<>>]
             after == [kept EXCEPT !.snap = Snapshot(f, TRUE)]
  <1>1. Sends(f, after, <<>>, {}) /\ At(f, "load")
    BY DEF Load
  <1>2. DOMAIN fl = Flow /\ DOMAIN fl[f] = Fields /\ fl[f].todo \in Seq(Step(Call(f))) /\ fl[f].todo # <<>>
    BY <1>1 DEF WriteInv, Keeps, Shape, At
  <1>3. fl'[f] = after
    BY <1>1, <1>2 DEF Sends
  <1>4. Goes(f).todo = Tail(fl[f].todo) /\ DOMAIN Goes(f) = Fields
    <2>1. <<>> \o Tail(fl[f].todo) = Tail(fl[f].todo)
      BY <1>2, TailItems
    <2> QED
      BY <1>2, <2>1 DEF Goes, Then, Fields
  <1>5. /\ \A k \in Call(f).ids : found[k] = IF Live(View(f)[k]) THEN View(f)[k] ELSE None
        /\ none \in BOOLEAN
    OBVIOUS
  <1>6. rows' = rows /\ base' = base /\ lock' = lock
    <2>1. rows \in [Key -> Row \cup {None}] /\ base \in [Key -> Row \cup {None}] /\ lock \in [Key -> Flow \cup {None}]
      BY DEF WriteInv, Tables
    <2>2. \A table : table \in [Key -> Row \cup {None}] => Put(table, <<>>) = table
      BY DEF Put
    <2>3. [k \in Key |-> IF k \in {} THEN f ELSE lock[k]] = lock
      BY <2>1
    <2> QED
      BY <1>1, <2>1, <2>2, <2>3 DEF Sends
  <1>7. none => Call(f).op = "update" /\ \A k \in Call(f).ids : found[k] = None
    OBVIOUS
  <1>8. Call(f).op = "update" /\ ~none => \A k \in Call(f).ids : found[k] # None
    <2> SUFFICES ASSUME Call(f).op = "update", ~none, NEW k \in Call(f).ids PROVE found[k] # None
      OBVIOUS
    <2>1. PICK j \in Call(f).ids : found[j] # None
      OBVIOUS
    <2>2. Cardinality(Call(f).ids) = 1 /\ IsFiniteSet(Call(f).ids)
      BY LockableAssumption, CallTyped DEF WriteInv, Call
    <2>3. PICK x : Call(f).ids = {x}
      BY <2>2, FS_Singleton
    <2> QED
      BY <2>1, <2>3
  <1> HIDE DEF found, none
  <1>9. after.seen = found /\ after.todo = IF ~none THEN Tail(fl[f].todo) ELSE IF Call(f).outer THEN <<"commit">> ELSE <<>>
    BY <1>4 DEF Fields
  <1> HIDE DEF after
  <1>10. <<"commit">> \in Seq(OverSteps) /\ <<>> \in Seq(OverSteps)
    BY DEF OverSteps
  <1> QED
    BY <1>3, <1>5, <1>6, <1>7, <1>8, <1>9, <1>10

\* What a call has left, up to its own read and after it.
LEMMA LoadAhead ==
    ASSUME WriteInv, plan.versioned, NEW f \in Flow, Write(f), fl[f].todo \in Seq(Tended(Call(f)))
    PROVE  /\ ToLoad(fl'[f].todo) => Begin(f)
           /\ ToLoad(fl[f].todo) => \/ fl'[f].todo \in Seq(OverSteps)
                                    \/ Load(f)
                                    \/ Begin(f) /\ ToLoad(fl'[f].todo)
           /\ ToLoad(fl'[f].todo) => ToLoad(fl[f].todo)
  <1> DEFINE todo == fl[f].todo
             A == Tended(Call(f)) \ {"load"}
  <1>1. /\ Shape(todo, fl[f].inTx, Call(f)) /\ fl[f].inTx \in BOOLEAN
        /\ DOMAIN fl = Flow /\ DOMAIN fl[f] = Fields
    BY DEF WriteInv, Keeps
  <1>2. <<"rollback">> \in Seq(OverSteps) /\ <<>> \in Seq(OverSteps)
    BY DEF OverSteps
  <1>3. "load" \notin OverSteps
    BY DEF OverSteps
  <1>4. CASE ~ToLoad(todo)
    <2>1. todo \in Seq(A)
      <3>1. \A i \in 1..Len(todo) : todo[i] \in A
        BY <1>4, ElementOfSeq, LenProperties DEF ToLoad
      <3> QED
        BY <3>1
    <2>2. ClosedSteps(A) /\ "load" \notin A
      BY DEF ClosedSteps, Tended
    <2> HIDE DEF A
    <2>3. fl'[f].todo \in Seq(A)
      BY <2>1, <2>2, ListStays
    <2> QED
      BY <1>4, <2>2, <2>3, NothingToLoad
  <1>5. CASE ToLoad(todo) /\ Faults(f)
    <2>1. PICK why : fl' = [fl EXCEPT ![f] = Thrown(f, why)]
      BY <1>5 DEF Faults
    <2>2. fl'[f].todo \in Seq(OverSteps)
      BY <1>1, <1>2, <2>1, ThrownList
    <2> QED
      BY <1>3, <1>5, <2>2, NothingToLoad
  <1>6. CASE ToLoad(todo) /\ ~Faults(f)
    <2>1. /\ todo # <<>> /\ Head(todo) \in {"load", "begin"}
          /\ Head(todo) = "load" => ~ToLoad(Tail(todo))
          /\ Head(todo) = "begin" => ToLoad(Tail(todo))
      BY <1>1, <1>6, LoadFirst
    <2>2. CASE Head(todo) = "load"
      <3>1. Load(f)
        BY <1>6, <2>2, StepAt
      <3>2. fl'[f].todo = Tail(todo) \/ fl'[f].todo \in Seq(OverSteps)
        BY <3>1, LoadLeaves
      <3> QED
        BY <1>3, <1>6, <2>1, <2>2, <3>1, <3>2, NothingToLoad
    <2>3. CASE Head(todo) = "begin"
      <3>1. Begin(f)
        BY <1>6, <2>3, StepAt
      <3>2. <<>> \o Tail(todo) = Tail(todo)
        BY <2>1, TailItems
      <3>3. fl'[f].todo = Tail(todo)
        BY <1>1, <3>1, <3>2 DEF Begin, Goes, Then, Fields
      <3> QED
        BY <1>6, <2>1, <2>3, <3>1, <3>3
    <2> QED
      BY <2>1, <2>2, <2>3
  <1> QED
    BY <1>4, <1>5, <1>6

LEMMA OwnUnchanged ==
    ASSUME WriteInv, plan.versioned, NEW f \in Flow, Begin(f), Unchanged(f)
    PROVE  Unchanged(f)'
  <1>1. DOMAIN fl = Flow /\ DOMAIN fl[f] = Fields
    BY DEF WriteInv, Keeps
  <1>2. /\ rows' = rows /\ base' = base /\ lock' = IF plan.engine = "begin" THEN [j \in Key |-> f] ELSE lock
        /\ fl'[f].snap = fl[f].snap
    BY <1>1 DEF Begin, Goes, Then, Fields
  <1>3. CASE plan.engine = "begin"
    <2>1. Needs(f) = Key /\ Free(f)
      BY <1>3 DEF Begin, Ready, At, Needs, Ended
    <2>2. \A k \in Key : lock[k] \in {None, f}
      BY <2>1, FreeToHave
    <2>3. \A k \in Key : rows[k] = base[k]
      BY <2>2 DEF WriteInv, Tables, Unchanged
    <2> QED
      BY <1>2, <2>3 DEF Unchanged
  <1>4. CASE plan.engine # "begin"
    BY <1>2, <1>4 DEF Unchanged
  <1> QED
    BY <1>3, <1>4

\* An upsert past its read stays there; before it, it goes on to it.
LEMMA OwnUpsertList ==
    ASSUME WriteInv, plan.versioned, NEW f \in Flow, Write(f), Call(f).op = "upsert",
           fl[f].todo \in FindTodo(Call(f)) \/ fl[f].todo \in Seq(PastFind)
    PROVE  fl'[f].todo \in FindTodo(Call(f)) \/ fl'[f].todo \in Seq(PastFind)
  <1> DEFINE todo == fl[f].todo
             rest == Tail(todo)
  <1>1. DOMAIN fl = Flow /\ DOMAIN fl[f] = Fields /\ todo \in Seq(Step(Call(f)))
    BY DEF WriteInv, Keeps, Shape
  <1>2. ClosedSteps(PastFind)
    BY TendedCloses
  <1>3. <<"rollback">> \in Seq(PastFind) /\ <<>> \in Seq(PastFind)
    BY DEF PastFind
  <1>4. CASE todo \in Seq(PastFind)
    BY <1>2, <1>4, ListStays
  <1>5. CASE Faults(f)
    <2>1. PICK why : fl' = [fl EXCEPT ![f] = Thrown(f, why)]
      BY <1>5 DEF Faults
    <2> QED
      BY <1>1, <1>3, <2>1, ThrownList
  <1>6. CASE todo \in FindTodo(Call(f)) /\ ~Faults(f)
    <2>1. /\ todo # <<>> /\ Head(todo) \in {"begin", "load", "hook", "find"}
          /\ Head(todo) # "find" => rest \in FindTodo(Call(f))
          /\ Head(todo) = "find" => rest \in {<<"hook", "commit">>, <<"commit", "hook">>}
      BY <1>6, FindHeads
    <2>2. <<>> \o rest = rest
      BY <1>1, <2>1, TailItems
    <2>3. Begin(f) \/ Hook(f) => fl'[f].todo = rest
      <3>1. Goes(f).todo = rest /\ DOMAIN Goes(f) = Fields
        BY <1>1, <2>2 DEF Goes, Then, Fields
      <3> QED
        BY <1>1, <3>1 DEF Begin, Hook, Fields
    <2>4. Load(f) => fl'[f].todo = rest
      BY LoadLeaves
    <2>5. CASE Head(todo) # "find"
      <3>1. Begin(f) \/ Hook(f) \/ Load(f)
        BY <1>6, <2>1, <2>5, StepAt
      <3> QED
        BY <2>1, <2>3, <2>4, <2>5, <3>1
    <2>6. CASE Head(todo) = "find"
      <3> DEFINE found == RowsByConflict(f)
                 update == IF WritesRelations(Call(f)) /\ ~plan.versioned THEN "settle" ELSE "found"
                 saves == WritesRelations(Call(f))
                 none == found = Call(f).ids
                 n == Cardinality(found)
                 next == [i \in 1..n |-> update]
                             \o (IF none THEN <<>> ELSE <<"insert">> \o (IF saves THEN <<"save">> ELSE <<>>))
      <3>1. ReadThenUpsert(f)
        BY <1>6, <2>6, StepAt
      <3>2. PICK x, y, z : Reads(f, [Then(f, next) EXCEPT !.ids = x, !.queue = y], z)
        BY <3>1 DEF ReadThenUpsert
      <3>3. n \in Nat
        BY CallTyped, FS_Subset, FS_CardinalityType DEF WriteInv, RowsByConflict
      <3>4. none \in BOOLEAN /\ saves \in BOOLEAN /\ update = "found"
        BY DEF WritesRelations
      <3>5. "found" \in PastFind /\ "insert" \in PastFind /\ "save" \in PastFind /\ rest \in Seq(PastFind)
        <4>1. <<"hook", "commit">> \in Seq(PastFind) /\ <<"commit", "hook">> \in Seq(PastFind)
          BY DEF PastFind
        <4> QED
          BY <2>1, <2>6, <4>1 DEF PastFind
      <3> HIDE DEF update, none, saves, n, rest
      <3>6. next \in Seq(PastFind)
        BY <3>3, <3>4, <3>5, FindList
      <3> HIDE DEF next
      <3>7. next \o rest \in Seq(PastFind)
        BY <3>5, <3>6, ConcatProperties
      <3>8. fl'[f].todo = next \o rest
        BY <1>1, <3>2 DEF Reads, Sends, Then, Fields, rest
      <3> QED
        BY <3>7, <3>8
    <2> QED
      BY <2>5, <2>6
  <1> QED
    BY <1>4, <1>5, <1>6

LEMMA OwnReading ==
    ASSUME WriteInv, plan.versioned, NEW f \in Flow, Write(f), fl[f].todo \in Seq(Tended(Call(f))), Reading(f)
    PROVE  Reading(f)'
  <1>1. Call(f)' = Call(f)
    BY StepKinds DEF Call
  <1>2. ASSUME ToLoad(fl'[f].todo) PROVE Unchanged(f)'
    BY <1>2, LoadAhead, OwnUnchanged DEF Reading
  <1>3. ASSUME Call(f).op = "update"
        PROVE  \/ fl'[f].todo \in Seq(OverSteps)
               \/ ToLoad(fl'[f].todo)
               \/ \A k \in Call(f).ids : fl'[f].seen[k] # None
    <2>1. CASE Load(f)
      BY <1>3, <2>1, LoadLeaves
    <2>2. CASE ~Load(f)
      <3>1. fl'[f].seen = fl[f].seen
        BY <2>2, StepLeaves
      <3>2. CASE fl[f].todo \in Seq(OverSteps)
        BY <3>2, TendedCloses, ListStays
      <3>3. CASE ToLoad(fl[f].todo)
        BY <2>2, <3>3, LoadAhead
      <3> QED
        BY <1>3, <3>1, <3>2, <3>3 DEF Reading
    <2> QED
      BY <2>1, <2>2
  <1>4. ASSUME Call(f).op = "upsert"
        PROVE  fl'[f].todo \in FindTodo(Call(f)) \/ fl'[f].todo \in Seq(PastFind)
    BY <1>4, OwnUpsertList DEF Reading
  <1> QED
    BY <1>1, <1>2, <1>3, <1>4 DEF Reading

\* What a call reads is what is committed, and what comes of it is no older.
LEMMA LoadWatches ==
    ASSUME VersionInv, plan.versioned, NEW f \in Flow, Load(f)
    PROVE  Watches(f)'
  <1>1. WriteInv /\ plan' = plan /\ Call(f)' = Call(f)
    BY DEF VersionInv, Load, Sends, Call
  <1>2. /\ rows' = rows /\ base' = base /\ lock' = lock
        /\ \A k \in Call(f).ids : fl'[f].seen[k] = IF Live(View(f)[k]) THEN View(f)[k] ELSE None
    BY <1>1, LoadLeaves
  <1>3. Unchanged(f)
    <2>1. ToLoad(fl[f].todo)
      <3>1. fl[f].todo \in Seq(Step(Call(f))) /\ fl[f].todo # <<>> /\ Head(fl[f].todo) = "load"
        BY <1>1 DEF WriteInv, Keeps, Shape, Load, At
      <3>2. fl[f].todo[1] = "load" /\ 1 \in DOMAIN fl[f].todo
        BY <3>1, TailItems
      <3> QED
        BY <3>2 DEF ToLoad
    <2> QED
      BY <2>1 DEF VersionInv, Reading
  <1>4. \A g, k : HardDelete(g, k)' <=> HardDelete(g, k)
    BY <1>1 DEF HardDelete, Call
  <1>5. ASSUME NEW k \in Call(f).ids, fl'[f].seen[k] # None
        PROVE  /\ NotOlder(base[k], fl'[f].seen[k]) /\ NotOlder(rows[k], fl'[f].seen[k])
               /\ base[k] = None \/ rows[k] = None => \E g \in Flow : HardDelete(g, k)
    <2>1. k \in Parent /\ k \in Key
      BY <1>1, CallTyped DEF WriteInv
    <2>2. View(f)[k] = base[k]
      BY <1>1, <1>3, <2>1, AtRow DEF Unchanged, View
    <2>3. fl'[f].seen[k] = base[k] /\ base[k] # None
      BY <1>2, <1>5, <2>2
    <2>4. NotOlder(rows[k], base[k]) /\ (rows[k] = None => HardDelete(lock[k], k))
      BY <2>1, <2>3 DEF VersionInv, OnTop
    <2>5. rows[k] = None => lock[k] \in Flow
      BY <1>1, <2>1, <2>3 DEF WriteInv, Tables
    <2> QED
      BY <2>3, <2>4, <2>5 DEF NotOlder
  <1> QED
    BY <1>1, <1>2, <1>4, <1>5 DEF Watches, Watched, NotOlder

\* A row a call still watches it does not insert, and it watched it before.
LEMMA StillWatched ==
    ASSUME WriteInv, plan.versioned, NEW f \in Flow, Write(f), ~Load(f), fl[f].todo \in Seq(Tended(Call(f))), Reading(f),
           Call(f).op \in {"update", "upsert"}
    PROVE  /\ Watched(f)' \subseteq Watched(f) /\ fl'[f].seen = fl[f].seen
           /\ \A k \in Watched(f) : At(f, "insert") => k \notin Missing(f)
  <1>1. Call(f)' = Call(f) /\ fl'[f].seen = fl[f].seen
    BY StepKinds, StepLeaves DEF Call
  <1>2. ASSUME Call(f).op = "upsert", fl[f].todo \in Seq(PastFind)
        PROVE  fl'[f].todo \in Seq(PastFind) /\ fl'[f].ids = fl[f].ids
    <2>1. fl'[f].todo \in Seq(PastFind)
      BY <1>2, TendedCloses, ListStays
    <2>2. ~(Settle(f) \/ ReadThenUpsert(f) \/ Doom(f))
      <3>1. fl[f].todo # <<>> => Head(fl[f].todo) \in PastFind
        BY <1>2, HeadTailProperties
      <3> QED
        BY <3>1 DEF Settle, ReadThenUpsert, Doom, Ready, At, PastFind
    <2> QED
      BY <2>1, <2>2, StepLeaves
  <1>3. ASSUME NEW k \in Watched(f)' PROVE k \in Watched(f)
    BY <1>1, <1>2, <1>3 DEF Watched
  <1>4. ASSUME NEW k \in Watched(f), At(f, "insert") PROVE k \notin Missing(f)
    <2>1. Call(f).op = "upsert"
      BY <1>4, InsertsOwn
    <2>2. fl[f].todo \notin FindTodo(Call(f))
      BY <1>4, FindHeads DEF At
    <2>3. fl[f].todo \in Seq(PastFind)
      BY <2>1, <2>2 DEF Reading
    <2> QED
      BY <2>1, <2>3 DEF Watched, Missing
  <1> QED
    BY <1>1, <1>3, <1>4

LEMMA OwnVersion ==
    ASSUME VersionInv, NoneReborn, plan.versioned, NEW f \in Flow, Write(f)
    PROVE  /\ Reading(f)' /\ (Call(f)'.op \in {"update", "upsert"} => Watches(f)')
           /\ (fl[f].todo \in Seq(Tended(Call(f))))'
           /\ (\A i \in DOMAIN fl[f].queue : fl[f].queue[i] \subseteq fl[f].ids)'
  <1>1. WriteInv /\ fl[f].todo \in Seq(Tended(Call(f))) /\ Reading(f)
    BY DEF VersionInv
  <1>2. plan' = plan /\ Call(f)' = Call(f) /\ \A g, k : HardDelete(g, k)' <=> HardDelete(g, k)
    BY <1>1, StepKinds DEF Call, HardDelete
  <1>3. fl'[f].todo \in Seq(Tended(Call(f)))
    BY <1>1, TendedCloses, ListStays
  <1>4. Reading(f)'
    BY <1>1, OwnReading
  <1>5. \A i \in DOMAIN fl'[f].queue : fl'[f].queue[i] \subseteq fl'[f].ids
    <2> DEFINE q == fl[f].queue
    <2>1. \A i \in DOMAIN q : q[i] \subseteq fl[f].ids
      BY DEF VersionInv
    <2>2. q \in Seq(SUBSET Call(f).ids)
      BY <1>1 DEF WriteInv, Keeps
    <2>3. ASSUME q # <<>>, NEW i \in DOMAIN Tail(q) PROVE Tail(q)[i] \subseteq fl[f].ids
      <3>1. i + 1 \in DOMAIN q /\ Tail(q)[i] = q[i + 1]
        <4>1. /\ Len(q) \in Nat /\ DOMAIN q = 1..Len(q) /\ DOMAIN Tail(q) = 1..Len(q) - 1
              /\ \A j \in 1..Len(q) - 1 : Tail(q)[j] = q[j + 1] /\ j + 1 \in 2..Len(q)
          BY <2>2, <2>3, TailItems
        <4> QED
          BY <2>3, <4>1
      <3> QED
        BY <2>1, <3>1
    <2>4. \A i \in DOMAIN Behind(f) : Behind(f)[i] \subseteq fl[f].ids
      BY <2>3 DEF Behind
    <2> QED
      BY <1>1, <2>1, <2>4, StepLeaves
  <1>6. ASSUME Call(f).op \in {"update", "upsert"} PROVE Watches(f)'
    <2>1. CASE Load(f)
      BY <2>1, LoadWatches
    <2>2. CASE ~Load(f)
      <3>1. /\ Watched(f)' \subseteq Watched(f) /\ fl'[f].seen = fl[f].seen
            /\ \A k \in Watched(f) : At(f, "insert") => k \notin Missing(f)
        BY <1>1, <1>6, <2>2, StillWatched
      <3>2. ASSUME NEW k \in Watched(f)
            PROVE  /\ NotOlder(base'[k], fl[f].seen[k]) /\ NotOlder(rows'[k], fl[f].seen[k])
                   /\ base'[k] = None \/ rows'[k] = None => \E g \in Flow : HardDelete(g, k)
        BY <1>6, <3>1, StaysWatched
      <3> QED
        BY <1>2, <3>1, <3>2 DEF Watches, NotOlder
    <2> QED
      BY <2>1, <2>2
  <1> QED
    BY <1>2, <1>3, <1>4, <1>5, <1>6

LEMMA LoadStarts ==
    ASSUME plan.versioned, NEW c, c.op = "update"
    PROVE  ToLoad(Program(c))
  <1> DEFINE S == Tended(c)
             body == CallBody(c)
             loading == <<"load">> \o body
             begun == <<"begin">> \o loading
  <1>1. body \in Seq(S)
    BY TendedBody
  <1>2. <<"load">> \in Seq(S) /\ <<"begin">> \in Seq(S) /\ <<"commit">> \in Seq(S) /\ "load" \in S /\ "begin" \in S
    BY DEF Tended
  <1> HIDE DEF S, body
  <1>3. loading \in Seq(S) /\ loading[1] = "load" /\ 1 \in DOMAIN loading /\ 1 \in 1..Len(loading)
    BY <1>1, <1>2, InFront, LenProperties
  <1> HIDE DEF loading
  <1>4. begun \in Seq(S) /\ begun[1 + 1] = "load" /\ Len(begun) \in Nat /\ Len(begun) >= 2
    BY <1>2, <1>3, InFront
  <1> HIDE DEF begun
  <1>5. begun \o <<"commit">> \in Seq(S) /\ (begun \o <<"commit">>)[2] = "load" /\ 2 \in DOMAIN (begun \o <<"commit">>)
    BY <1>2, <1>4, ConcatProperties, LenProperties
  <1>6. Program(c) = IF c.outer THEN ((<<"begin">> \o <<"load">>) \o body) \o <<"commit">> ELSE loading
    BY DEF Program, loading, body
  <1>7. (<<"begin">> \o <<"load">>) \o body = begun
    <2>1. (<<"begin">> \o <<"load">>) \o body = <<"begin">> \o (<<"load">> \o body)
      BY <1>1, <1>2, ConcatAssociative
    <2> QED
      BY <2>1 DEF begun, loading
  <1> QED
    BY <1>3, <1>5, <1>6, <1>7 DEF ToLoad

LEMMA VersionsStart == Init => VersionInv
  <1> SUFFICES ASSUME Init PROVE VersionInv
    OBVIOUS
  <1>1. WriteInv
    BY WritesStart
  <1>2. \A f \in Flow : fl[f] = Idle(Call(f))
    BY DEF Init
  <1>3. \A c : /\ Idle(c).todo = Program(c) /\ Idle(c).snap = None /\ Idle(c).queue = <<>>
               /\ Idle(c).seen = [k \in c.ids |-> None]
    BY DEF Idle
  <1>4. rows = base /\ \A k \in Key : lock[k] = None
    BY DEF Init
  <1> SUFFICES ASSUME plan.versioned
               PROVE  /\ OnTop
                      /\ \A f \in Flow : /\ fl[f].todo \in Seq(Tended(Call(f))) /\ Reading(f)
                                         /\ \A i \in DOMAIN fl[f].queue : fl[f].queue[i] \subseteq fl[f].ids
                                         /\ Call(f).op \in {"update", "upsert"} => Watches(f)
    BY <1>1 DEF VersionInv
  <1>5. OnTop
    BY <1>4 DEF OnTop, NotOlder
  <1>6. ASSUME NEW f \in Flow
        PROVE  /\ fl[f].todo \in Seq(Tended(Call(f))) /\ Reading(f)
               /\ \A i \in DOMAIN fl[f].queue : fl[f].queue[i] \subseteq fl[f].ids
               /\ Call(f).op \in {"update", "upsert"} => Watches(f)
    <2>1. fl[f].todo = Program(Call(f)) /\ fl[f].snap = None /\ fl[f].queue = <<>>
      BY <1>2, <1>3
    <2>2. \A k \in Call(f).ids : fl[f].seen[k] = None
      <3>1. fl[f].seen = [k \in Call(f).ids |-> None]
        BY <1>2, <1>3
      <3> QED
        BY <3>1
    <2>3. fl[f].todo \in Seq(Tended(Call(f)))
      BY <2>1, TendedStarts
    <2>4. Unchanged(f)
      BY <1>4, <2>1 DEF Unchanged
    <2>5. Call(f).op = "update" => ToLoad(fl[f].todo)
      BY <2>1, LoadStarts
    <2>6. Call(f).op = "upsert" => fl[f].todo \in FindTodo(Call(f))
      <3>1. Call(f).outer \in BOOLEAN
        BY <1>1, CallTyped DEF WriteInv
      <3> QED
        BY <2>1, <3>1, UpsertStarts DEF UpsertsByReading
    <2>7. Reading(f)
      BY <2>4, <2>5, <2>6 DEF Reading
    <2>8. Watches(f)
      BY <2>2 DEF Watches, Watched
    <2> QED
      BY <2>1, <2>3, <2>7, <2>8
  <1> QED
    BY <1>5, <1>6

LEMMA VersionsStay == NoneReborn /\ VersionInv /\ [Next]_vars => VersionInv'
  <1> SUFFICES ASSUME NoneReborn, VersionInv, [Next]_vars PROVE VersionInv'
    OBVIOUS
  <1>1. WriteInv /\ WriteInv'
    BY NextKeeps DEF VersionInv
  <1>2. CASE UNCHANGED vars
    <2>1. plan' = plan /\ rows' = rows /\ base' = base /\ lock' = lock /\ fl' = fl
      BY <1>2 DEF vars
    <2>2. \A f : Call(f)' = Call(f) /\ \A k : HardDelete(f, k)' <=> HardDelete(f, k)
      BY <2>1 DEF Call, HardDelete
    <2>3. OnTop => OnTop'
      BY <2>1, <2>2 DEF OnTop, NotOlder
    <2>4. \A f \in Flow : (Reading(f) => Reading(f)') /\ (Watches(f) => Watches(f)')
      BY <2>1, <2>2 DEF Reading, Unchanged, Watches, Watched, NotOlder
    <2> QED
      BY <1>1, <2>1, <2>2, <2>3, <2>4 DEF VersionInv
  <1>3. CASE Next
    <2>1. PICK h \in Flow : Write(h)
      BY <1>3 DEF Next
    <2>2. plan' = plan
      BY <1>1, <2>1, StepKinds
    <2>3. plan.versioned => OnTop'
      BY <1>1, <2>1, OnTopStays DEF VersionInv
    <2>4. ASSUME plan.versioned, NEW f \in Flow
          PROVE  /\ Reading(f)' /\ (Call(f)'.op \in {"update", "upsert"} => Watches(f)')
                 /\ (fl[f].todo \in Seq(Tended(Call(f))))'
                 /\ (\A i \in DOMAIN fl[f].queue : fl[f].queue[i] \subseteq fl[f].ids)'
      BY <2>1, <2>4, OwnVersion, OthersLetVersion
    <2> QED
      BY <1>1, <2>2, <2>3, <2>4 DEF VersionInv
  <1> QED
    BY <1>2, <1>3

\* The row a versioned update writes is the row it read.
LEMMA WritesRead ==
    ASSUME VersionInv, NEW h \in Flow, Write(h), NEW f \in Flow, NEW k \in Parent, plan.versioned,
           At(f, "match") \/ At(f, "found"), fl'[f] # fl[f], rows'[k] # rows[k]
    PROVE  rows[k] # None /\ rows[k].val = fl[f].seen[k].val
  <1>1. /\ WriteInv /\ Reading(f) /\ fl[f].todo \in Seq(Tended(Call(f)))
        /\ Call(f).op \in {"update", "upsert"} => Watches(f)
        /\ \A i \in DOMAIN fl[f].queue : fl[f].queue[i] \subseteq fl[f].ids
    BY DEF VersionInv
  <1>2. h = f /\ ~Faults(f) /\ fl[f].todo # <<>> /\ k \in Key
    BY <1>1, StepKinds DEF Faults, At, Key
  <1>3. Match(f) \/ Found(f)
    BY <1>2, StepAt DEF At
  <1>4. Head(fl[f].todo) \in Tended(Call(f))
    BY <1>1, <1>2, HeadTailProperties
  <1>5. ~ToLoad(fl[f].todo)
    <2>1. Shape(fl[f].todo, fl[f].inTx, Call(f)) /\ fl[f].inTx \in BOOLEAN
      BY <1>1 DEF WriteInv, Keeps
    <2> QED
      BY <2>1, LoadFirst DEF At
  <1>6. Batch(f) \subseteq fl[f].ids /\ Batch(f) \subseteq Call(f).ids
    <2>1. fl[f].queue \in Seq(SUBSET Call(f).ids)
      BY <1>1 DEF WriteInv, Keeps
    <2>2. fl[f].queue # <<>> => 1 \in DOMAIN fl[f].queue /\ Head(fl[f].queue) = fl[f].queue[1]
      BY <2>1, TailItems
    <2>3. fl[f].queue # <<>> => Head(fl[f].queue) \subseteq Call(f).ids
      BY <2>1, QueuePops
    <2> QED
      BY <1>1, <2>2, <2>3 DEF Batch
  <1>7. PICK j \in Call(f).ids : WriteAtVersion(f, j) /\ (Found(f) => j \in Batch(f) /\ fl[f].seen[j] # None)
    <2>1. CASE Match(f)
      <3>1. ~Found(f)
        BY <2>1 DEF Match, Found, Ready, At
      <3> QED
        BY <2>1, <3>1 DEF Match
    <2>2. CASE Found(f)
      <3>1. \A why : ~Throw(f, why)
        BY DEF Throw, store
      <3> QED
        BY <1>6, <2>2, <3>1 DEF Found
    <2> QED
      BY <1>3, <2>1, <2>2
  <1>8. LockVersion(f, j) /\ j = k
    <2>1. \A kept, new : Writes(f, kept, new) => k \in DOMAIN new
      BY <1>2 DEF Writes, Sends, Put
    <2>2. DOMAIN <<>> = {}
      OBVIOUS
    <2>3. LockVersion(f, j)
      BY <1>7, <2>1, <2>2 DEF WriteAtVersion
    <2> DEFINE new == [i \in {j} |-> Bumped(f, Current(f)[i])]
    <2>4. PICK kept : Writes(f, kept, new)
      BY <1>7, <2>3 DEF WriteAtVersion
    <2>5. DOMAIN new = {j}
      OBVIOUS
    <2> HIDE DEF new
    <2> QED
      BY <2>1, <2>3, <2>4, <2>5
  <1>9. k \in Watched(f) /\ Call(f).op \in {"update", "upsert"} /\ k \in Needs(f) /\ Free(f)
    <2>1. CASE Match(f)
      <3>1. Head(fl[f].todo) = "match" /\ Free(f)
        BY <2>1 DEF Match, Ready, At
      <3>2. Call(f).op = "update"
        BY <1>4, <3>1 DEF Tended
      <3>3. fl[f].todo \notin Seq(OverSteps)
        BY <1>2, <3>1, HeadTailProperties DEF OverSteps
      <3>4. fl[f].seen[k] # None
        BY <1>1, <1>5, <1>8, <3>2, <3>3 DEF Reading
      <3>5. k \in Needs(f)
        BY <1>2, <1>8, <3>1, NeedsAt DEF Written
      <3> QED
        BY <1>8, <3>1, <3>2, <3>4, <3>5 DEF Watched
    <2>2. CASE Found(f)
      <3>1. Head(fl[f].todo) = "found" /\ Free(f)
        BY <2>2 DEF Found, Ready, At
      <3>2. Call(f).op = "upsert"
        BY <1>4, <3>1 DEF Tended
      <3>3. k \in Batch(f) /\ fl[f].seen[k] # None /\ LockVersion(f, k)
        BY <1>7, <1>8, <2>2
      <3>4. k \in Needs(f)
        BY <1>2, <3>1, <3>3, NeedsAt DEF Written, FoundRows
      <3> QED
        BY <1>6, <1>8, <3>1, <3>2, <3>3, <3>4 DEF Watched
    <2> QED
      BY <1>3, <2>1, <2>2
  <1>10. rows[k] = Current(f)[k]
    BY <1>1, <1>2, <1>9, FreeToHave, AtRow DEF WriteInv, Tables
  <1>11. rows[k] # None /\ rows[k].ver = fl[f].seen[k].ver
    BY <1>8, <1>10 DEF LockVersion, Expected
  <1>12. fl[f].seen[k] \in Row
    <2>1. fl[f].seen \in [Call(f).ids -> Row \cup {None}]
      BY <1>1 DEF WriteInv, Keeps
    <2> QED
      BY <1>9, <2>1 DEF Watched
  <1>13. NotOlder(rows[k], fl[f].seen[k])
    BY <1>1, <1>9 DEF Watches
  <1>14. fl[f].seen[k].ver \in Nat
    BY <1>12 DEF Row
  <1> QED
    BY <1>11, <1>13, <1>14 DEF NotOlder

\* A versioned write replaces the very content its writer read and no write that came in between, on every engine,
\* in a transaction or out of one, whatever other calls write, delete and restore: so long as no third call inserts
\* the row anew where another deletes it for good, whose version starts over (`lockVersion`, `throwStaleVersion`).
THEOREM NoLostUpdateAlways ==
    ASSUME NoneReborn
    PROVE  Spec => NoLostUpdate
  <1> DEFINE read == \A f \in Flow, k \in Parent :
                        /\ plan.versioned
                        /\ At(f, "match") \/ At(f, "found")
                        /\ fl'[f] # fl[f] /\ rows'[k] # rows[k]
                        => rows[k] # None /\ rows[k].val = fl[f].seen[k].val
  <1>1. Init => VersionInv
    BY VersionsStart
  <1>2. VersionInv /\ [Next]_vars => VersionInv'
    BY VersionsStay
  <1>3. VersionInv /\ [Next]_vars => [read]_vars
    BY WritesRead DEF Next, vars
  <1> QED
    BY <1>1, <1>2, <1>3, PTL DEF Spec, NoLostUpdate

-----------------------------------------------------------------------------
(***************************************************************************)
(* What a call reports: the rows a delete gave its hooks, and those an     *)
(* update reads back.                                                      *)
(***************************************************************************)
\* No row a set is cut into lists of is left out.
LEMMA ListsCover ==
    ASSUME NEW ks \in SUBSET Nat, IsFiniteSet(ks), NEW n \in Nat \ {0}, NEW k \in ks
    PROVE  \E i \in DOMAIN InLists(ks, n) : k \in InLists(ks, n)[i]
  <1> DEFINE before == {j \in ks : j < k}
             r == Cardinality(before)
             c == Cardinality(ks)
             m == (c + n - 1) \div n
             i == r \div n + 1
  <1>1. r \in Nat /\ c \in Nat /\ r + 1 <= c
    <2>1. before \subseteq ks \ {k}
      OBVIOUS
    <2>2. IsFiniteSet(ks \ {k}) /\ Cardinality(ks \ {k}) = c - 1 /\ c \in Nat
      BY FS_RemoveElement, FS_CardinalityType
    <2>3. IsFiniteSet(before) /\ r <= Cardinality(ks \ {k})
      BY <2>1, <2>2, FS_Subset
    <2>4. r \in Nat
      BY <2>3, FS_CardinalityType
    <2> HIDE DEF before, r, c
    <2> QED
      BY <2>2, <2>3, <2>4
  <1> HIDE DEF before, r, c
  <1>2. i \in 1..m
    <2>1. \A a \in Nat : a \div n \in Nat /\ n * (a \div n) <= a /\ a < n * (a \div n) + n
      OBVIOUS
    <2>2. r \div n \in Nat /\ n * (r \div n) <= r
      BY <1>1, <2>1
    <2>3. m \in Nat /\ c <= n * m
      <3>1. c + n - 1 \in Nat
        BY <1>1
      <3>2. m \in Nat /\ c + n - 1 < n * m + n
        BY <2>1, <3>1
      <3> HIDE DEF m
      <3>3. n * m \in Nat
        BY <3>2
      <3> QED
        BY <1>1, <3>2, <3>3
    <2> DEFINE q == r \div n
    <2> HIDE DEF m, q
    <2>4. n * q \in Nat /\ n * m \in Nat /\ n * q < n * m
      BY <1>1, <2>2, <2>3 DEF q
    <2>5. q >= m => n * q >= n * m
      BY <2>2, <2>3 DEF q
    <2> QED
      BY <2>2, <2>3, <2>4, <2>5 DEF q
  <1>3. r \div n = i - 1
    BY <1>1, <1>2
  <1>4. InLists(ks, n)[i] = {j \in ks : Cardinality({l \in ks : l < j}) \div n = i - 1} /\ DOMAIN InLists(ks, n) = 1..m
    BY <1>2 DEF InLists, c
  <1> HIDE DEF i, m
  <1>5. k \in InLists(ks, n)[i]
    BY <1>3, <1>4 DEF r, before
  <1> QED
    BY <1>2, <1>4, <1>5
\* What an update that reports sends from the settling of its rows on.
Finish == IF plan.versioned THEN <<"match", "readBack", "hook", "commit">> ELSE <<"readBack", "hook", "commit">>
ToReport(todo) == \E a \in Seq(Opening) : todo = a \o (<<"settle">> \o Finish)
AtColumns == {<<"columns", "readBack", "hook", "commit">>, <<"columns", "drop", "save", "readBack", "hook", "commit">>}
AtReadBack == {<<"drop", "save", "readBack", "hook", "commit">>, <<"save", "readBack", "hook", "commit">>,
               <<"readBack", "hook", "commit">>}
AtVersion == {<<"match", "readBack", "hook", "commit">>, <<"reread", "readBack", "hook", "commit">>}
AtEnd == {<<"hook", "commit">>, <<"commit">>}
Over == {<<>>, <<"rollback">>}

\* A row a call has still to write, and one it wrote.
Pending(f, k) == \E i \in DOMAIN fl[f].queue : k \in fl[f].queue[i]
Ours(f, k) == lock[k] = f /\ By(rows[k], f)

\* An update reports what it wrote: the rows it settled, once all of them are written.
Reported(f) == \A told \in fl[f].told : told[1] \in Call(f).ids /\ Ours(f, told[1]) /\ told[2] = rows[told[1]]
UpdateReports(f) ==
    \/ ToReport(fl[f].todo) /\ fl[f].told = {}
    \/ fl[f].todo \in AtColumns /\ fl[f].told = {} /\ \A k \in fl[f].ids : Pending(f, k) \/ Ours(f, k)
    \/ fl[f].todo \in AtReadBack /\ fl[f].told = {} /\ \A k \in fl[f].ids : Ours(f, k)
    \/ fl[f].todo \in AtVersion /\ fl[f].told = {} /\ plan.versioned
    \/ fl[f].todo \in AtEnd /\ Reported(f)
    \/ fl[f].todo \in Over

LEMMA ReportsAhead ==
    ASSUME NEW todo, ToReport(todo)
    PROVE  /\ todo # <<>>
           /\ \/ Head(todo) = "settle" /\ Tail(todo) = Finish
              \/ Head(todo) \in Opening /\ Tail(todo) \in Seq(Opening \cup {"settle"} \cup Aside) /\ ToReport(Tail(todo))
  <1> DEFINE S == Opening \cup {"settle"} \cup Aside
  <1>1. PICK a \in Seq(Opening) : todo = a \o (<<"settle">> \o Finish)
    BY DEF ToReport
  <1>2. Finish \in Seq(S)
    <2>1. /\ <<"match", "readBack", "hook", "commit">> \in Seq(Aside)
          /\ <<"readBack", "hook", "commit">> \in Seq(Aside)
      BY DEF Aside
    <2>2. Finish \in Seq(Aside)
      BY <2>1 DEF Finish
    <2> QED
      BY <2>2, SeqMonotonic
  <1>3. a \in Seq(S) /\ <<"settle">> \in Seq(S)
    BY SeqMonotonic, InListsOfOne
  <1>4. Head(<<"settle">>) = "settle" /\ Tail(<<"settle">>) = <<>> /\ <<"settle">> # <<>>
    OBVIOUS
  <1>5. <<"settle">> \o Finish \in Seq(S) /\ <<>> \o Finish = Finish
    BY <1>2, <1>3, ConcatProperties, ConcatEmptySeq
  <1> HIDE DEF S
  <1>6. /\ <<"settle">> \o Finish # <<>> /\ Head(<<"settle">> \o Finish) = "settle"
        /\ Tail(<<"settle">> \o Finish) = <<>> \o Finish
    BY <1>2, <1>3, <1>4, TailOfFront
  <1>7. CASE a = <<>>
    <2>1. todo = <<"settle">> \o Finish
      BY <1>1, <1>5, <1>7, ConcatEmptySeq
    <2> QED
      BY <1>5, <1>6, <2>1
  <1>8. CASE a # <<>>
    <2>1. todo # <<>> /\ Head(todo) = Head(a) /\ Tail(todo) = Tail(a) \o (<<"settle">> \o Finish)
      BY <1>1, <1>3, <1>5, <1>8, TailOfFront
    <2>2. Head(a) \in Opening /\ Tail(a) \in Seq(Opening)
      BY <1>8, HeadTailProperties
    <2>3. Tail(a) \in Seq(S)
      BY <2>2, SeqMonotonic DEF S
    <2>4. Tail(todo) \in Seq(S)
      BY <1>5, <2>1, <2>3, ConcatProperties
    <2> QED
      BY <2>1, <2>2, <2>4 DEF ToReport, S
  <1> QED
    BY <1>7, <1>8

\* Where an update that reports is, from the statement it is at.
LEMMA ReportHeads ==
    ASSUME NEW todo
    PROVE  /\ todo \in AtColumns => Head(todo) = "columns" /\ Tail(todo) \in AtReadBack
           /\ todo \in AtReadBack => \/ Head(todo) \in {"drop", "save"} /\ Tail(todo) \in AtReadBack
                                     \/ Head(todo) = "readBack" /\ Tail(todo) \in AtEnd
           /\ todo \in AtVersion => /\ Head(todo) \in {"match", "reread"}
                                    /\ Tail(todo) = <<"readBack", "hook", "commit">>
           /\ todo \in AtEnd => \/ Head(todo) = "hook" /\ Tail(todo) \in AtEnd
                                \/ Head(todo) = "commit" /\ Tail(todo) \in Over
           /\ todo \in Over /\ todo # <<>> => Head(todo) = "rollback" /\ Tail(todo) \in Over
  <1>1. ASSUME todo \in AtColumns PROVE Head(todo) = "columns" /\ Tail(todo) \in AtReadBack
    <2>1. CASE todo = <<"columns", "readBack", "hook", "commit">>
      BY <2>1 DEF AtReadBack
    <2>2. CASE todo = <<"columns", "drop", "save", "readBack", "hook", "commit">>
      BY <2>2 DEF AtReadBack
    <2> QED
      BY <1>1, <2>1, <2>2 DEF AtColumns
  <1>2. ASSUME todo \in AtReadBack
        PROVE  \/ Head(todo) \in {"drop", "save"} /\ Tail(todo) \in AtReadBack
               \/ Head(todo) = "readBack" /\ Tail(todo) \in AtEnd
    <2>1. CASE todo = <<"drop", "save", "readBack", "hook", "commit">>
      BY <2>1 DEF AtReadBack
    <2>2. CASE todo = <<"save", "readBack", "hook", "commit">>
      BY <2>2 DEF AtReadBack
    <2>3. CASE todo = <<"readBack", "hook", "commit">>
      BY <2>3 DEF AtEnd
    <2> QED
      BY <1>2, <2>1, <2>2, <2>3 DEF AtReadBack
  <1>3. ASSUME todo \in AtVersion
        PROVE  Head(todo) \in {"match", "reread"} /\ Tail(todo) = <<"readBack", "hook", "commit">>
    <2>1. CASE todo = <<"match", "readBack", "hook", "commit">>
      BY <2>1
    <2>2. CASE todo = <<"reread", "readBack", "hook", "commit">>
      BY <2>2
    <2> QED
      BY <1>3, <2>1, <2>2 DEF AtVersion
  <1>4. ASSUME todo \in AtEnd
        PROVE  \/ Head(todo) = "hook" /\ Tail(todo) \in AtEnd
               \/ Head(todo) = "commit" /\ Tail(todo) \in Over
    <2>1. CASE todo = <<"hook", "commit">>
      BY <2>1 DEF AtEnd
    <2>2. CASE todo = <<"commit">>
      BY <2>2 DEF Over
    <2> QED
      BY <1>4, <2>1, <2>2 DEF AtEnd
  <1>5. ASSUME todo \in Over, todo # <<>> PROVE Head(todo) = "rollback" /\ Tail(todo) \in Over
    <2>1. todo = <<"rollback">>
      BY <1>5 DEF Over
    <2> QED
      BY <2>1 DEF Over
  <1> QED
    BY <1>1, <1>2, <1>3, <1>4, <1>5

\* A statement that goes on leaves what is behind it, and one that throws the end.
LEMMA GoesOn ==
    ASSUME WriteInv, NEW f \in Flow, fl[f].todo # <<>>
    PROVE  /\ <<>> \o Tail(fl[f].todo) = Tail(fl[f].todo)
           /\ Goes(f).todo = Tail(fl[f].todo) /\ Goes(f).snap = fl[f].snap /\ Goes(f).told = fl[f].told
           /\ Goes(f).ids = fl[f].ids /\ Goes(f).queue = fl[f].queue /\ Goes(f).inTx = fl[f].inTx
           /\ DOMAIN Goes(f) = Fields /\ DOMAIN fl[f] = Fields /\ DOMAIN fl = Flow
  <1>1. DOMAIN fl = Flow /\ DOMAIN fl[f] = Fields /\ fl[f].todo \in Seq(Step(Call(f)))
    BY DEF WriteInv, Keeps, Shape
  <1>2. <<>> \o Tail(fl[f].todo) = Tail(fl[f].todo)
    <2>1. Tail(fl[f].todo) \in Seq(Step(Call(f)))
      BY <1>1, HeadTailProperties
    <2> QED
      BY <2>1, ConcatEmptySeq
  <1> QED
    BY <1>1, <1>2 DEF Goes, Then, Fields

LEMMA FaultsEnd ==
    ASSUME WriteInv, NEW f \in Flow, (\E why : fl' = [fl EXCEPT ![f] = Thrown(f, why)])
    PROVE  fl'[f].todo \in Over
  <1>1. PICK why : fl' = [fl EXCEPT ![f] = Thrown(f, why)]
    OBVIOUS
  <1> QED
    BY <1>1, NowKept, ThrownList DEF Over

\* An update that reports starts so.
LEMMA FinishList ==
    LET back == IF plan.versioned THEN <<"match", "readBack">> ELSE <<"readBack">>
    IN  back \o (<<"hook">> \o <<"commit">>) = Finish
  <1> DEFINE S == {"match", "readBack", "hook", "commit"}
  <1>1. <<"hook">> \o <<"commit">> = <<"hook", "commit">> /\ <<"readBack">> \o <<"hook", "commit">> = <<"readBack", "hook", "commit">>
    BY Pair, FrontOfTuple
  <1>2. <<"match", "readBack">> \in Seq(S) /\ <<"hook">> \in Seq(S) /\ <<"commit">> \in Seq(S)
    OBVIOUS
  <1> HIDE DEF S
  <1>3. <<"match", "readBack">> \o (<<"hook">> \o <<"commit">>) = (<<"match", "readBack">> \o <<"hook">>) \o <<"commit">>
    BY <1>2, ConcatAssociative
  <1>4. (<<"match", "readBack">> \o <<"hook">>) \o <<"commit">> = <<"match", "readBack", "hook", "commit">>
    <2>1. <<"match", "readBack">> \o <<"hook">> = <<"match", "readBack", "hook">>
      BY Triple
    <2>2. <<"match", "readBack", "hook">> \o <<"commit">> = <<"match", "readBack", "hook", "commit">>
      BY Quadruple
    <2> QED
      BY <2>1, <2>2
  <1> QED
    BY <1>1, <1>3, <1>4 DEF Finish

LEMMA ReportStarts ==
    ASSUME NEW c, c.op = "update", c.returning
    PROVE  ToReport(Program(c))
  <1> DEFINE S == {"begin", "load", "hook", "settle", "match", "readBack", "commit"}
             back == IF plan.versioned THEN <<"match", "readBack">> ELSE <<"readBack">>
             core == IF plan.versioned THEN <<"settle", "match", "readBack">> ELSE <<"settle", "readBack">>
             body == Hooked(core)
             reading == IF plan.versioned /\ c.op \in {"update", "upsert"} THEN <<"load">> ELSE <<>>
             rest == <<"settle">> \o Finish
  <1>1. /\ <<"hook">> \in Seq(S) /\ <<"begin">> \in Seq(S) /\ <<"commit">> \in Seq(S) /\ <<"settle">> \in Seq(S)
        /\ reading \in Seq(S) /\ back \in Seq(S) /\ Finish \in Seq(S)
    <2>1. /\ <<"hook">> \in Seq(S) /\ <<"begin">> \in Seq(S) /\ <<"commit">> \in Seq(S) /\ <<"settle">> \in Seq(S)
          /\ <<"load">> \in Seq(S) /\ <<>> \in Seq(S) /\ <<"match", "readBack">> \in Seq(S) /\ <<"readBack">> \in Seq(S)
          /\ <<"match", "readBack", "hook", "commit">> \in Seq(S) /\ <<"readBack", "hook", "commit">> \in Seq(S)
      OBVIOUS
    <2> HIDE DEF S
    <2> QED
      BY <2>1 DEF Finish
  <1>2. core = <<"settle">> \o back
    BY Pair, FrontOfTuple
  <1>3. CallBody(c) = Atomically(c, FALSE, body)
    BY DEF CallBody, UpdateWhere
  <1>4. Program(c) = IF c.outer THEN ((<<"begin">> \o reading) \o CallBody(c)) \o <<"commit">> ELSE reading \o CallBody(c)
    BY DEF Program
  <1>5. reading \in Seq(Opening) /\ <<"begin">> \in Seq(Opening) /\ <<"hook">> \in Seq(Opening)
    <2>1. "begin" \in Opening /\ "hook" \in Opening /\ (plan.versioned => "load" \in Opening)
      BY DEF Opening
    <2> QED
      BY <2>1, InListsOfOne
  <1>6. back \o (<<"hook">> \o <<"commit">>) = Finish
    BY FinishList
  <1> HIDE DEF S, back, reading
  <1>7. body = (<<"hook">> \o (<<"settle">> \o back)) \o <<"hook">>
    BY <1>2 DEF Hooked
  <1> HIDE DEF core, body
  <1>8. /\ <<"settle">> \o back \in Seq(S) /\ <<"hook">> \o <<"commit">> \in Seq(S) /\ rest \in Seq(S)
        /\ <<"hook">> \o rest \in Seq(S)
    BY <1>1, ConcatProperties
  <1>9. body \in Seq(S) /\ <<"hook">> \o (<<"settle">> \o back) \in Seq(S)
    BY <1>1, <1>7, <1>8, ConcatProperties
  <1>10. body \o <<"commit">> = <<"hook">> \o rest
    <2>1. body \o <<"commit">> = (<<"hook">> \o (<<"settle">> \o back)) \o (<<"hook">> \o <<"commit">>)
      BY <1>1, <1>7, <1>9, ConcatAssociative
    <2>2. @ = <<"hook">> \o ((<<"settle">> \o back) \o (<<"hook">> \o <<"commit">>))
      BY <1>1, <1>8, ConcatAssociative
    <2>3. (<<"settle">> \o back) \o (<<"hook">> \o <<"commit">>) = <<"settle">> \o (back \o (<<"hook">> \o <<"commit">>))
      BY <1>1, <1>8, ConcatAssociative
    <2> QED
      BY <1>6, <2>1, <2>2, <2>3
  <1> HIDE DEF rest
  <1>11. \A a \in Seq(Opening) : ToReport(a \o rest)
    BY DEF ToReport, rest
  <1> DEFINE start == <<"begin">>
             first == <<"hook">>
             last == <<"commit">>
  <1>14. \A s, t, u \in Seq(S) : (s \o t) \o u = s \o (t \o u)
    BY ConcatAssociative
  <1>15. start \in Seq(S) /\ first \in Seq(S) /\ last \in Seq(S) /\ rest \in Seq(S) /\ body \in Seq(S) /\ reading \in Seq(S)
    BY <1>1, <1>8, <1>9
  <1>16. body \o last = first \o rest
    BY <1>10
  <1> HIDE DEF start, first, last
  <1>12. CASE c.outer
    <2>1. CallBody(c) = body
      BY <1>3, <1>12 DEF Atomically
    <2>2. /\ <<"begin">> \o reading \in Seq(Opening) /\ <<"begin">> \o reading \in Seq(S)
          /\ (<<"begin">> \o reading) \o <<"hook">> \in Seq(Opening)
      BY <1>1, <1>5, ConcatProperties
    <2> DEFINE pre == <<"begin">> \o reading
    <2>3. Program(c) = (pre \o body) \o last
      BY <1>4, <1>12, <2>1 DEF last
    <2>4. pre \in Seq(S)
      BY <2>2
    <2>7. pre \o first \in Seq(Opening)
      BY <2>2 DEF first
    <2> HIDE DEF pre
    <2>5. (pre \o body) \o last = pre \o (body \o last)
      BY <1>14, <1>15, <2>4, ZenonT(60)
    <2>6. pre \o (first \o rest) = (pre \o first) \o rest
      BY <1>14, <1>15, <2>4, ZenonT(60)
    <2> QED
      BY <1>11, <1>16, <2>3, <2>5, <2>6, <2>7
  <1>13. CASE ~c.outer
    <2>1. CallBody(c) = (<<"begin">> \o body) \o <<"commit">>
      BY <1>3, <1>13 DEF Atomically
    <2>3. /\ <<"begin">> \o <<"hook">> \in Seq(Opening) /\ <<"begin">> \o <<"hook">> \in Seq(S)
          /\ reading \o (<<"begin">> \o <<"hook">>) \in Seq(Opening)
      BY <1>1, <1>5, ConcatProperties
    <2>4. CallBody(c) = (start \o body) \o last
      BY <2>1 DEF start, last
    <2>5. start \o first \in Seq(S) /\ reading \o (start \o first) \in Seq(Opening)
      BY <2>3 DEF start, first
    <2>6. (start \o body) \o last = start \o (body \o last)
      BY <1>14, <1>15, ZenonT(60)
    <2>7. start \o (first \o rest) = (start \o first) \o rest
      BY <1>14, <1>15, ZenonT(60)
    <2>8. reading \o ((start \o first) \o rest) = (reading \o (start \o first)) \o rest
      BY <1>14, <1>15, <2>5, ZenonT(60)
    <2> QED
      BY <1>4, <1>11, <1>13, <1>16, <2>4, <2>5, <2>6, <2>7, <2>8
  <1> QED
    BY <1>12, <1>13

\* What a call wrote it holds, as it wrote it.
LEMMA OursIs ==
    ASSUME WriteInv, NEW f \in Flow, NEW k \in Key
    PROVE  /\ Ours(f, k) <=> lock[k] = f /\ By(Current(f)[k], f)
           /\ Ours(f, k)' <=> lock'[k] = f /\ By(Current(f)'[k], f)
  <1>1. Current(f)[k] = IF lock[k] = f THEN rows[k] ELSE base[k]
    BY AtRow
  <1>2. Current(f)'[k] = IF lock'[k] = f THEN rows'[k] ELSE base'[k]
    BY DEF Current
  <1> QED
    BY <1>1, <1>2 DEF Ours, By

\* The rows of a batch an update claimed are all there to write.
LEMMA BatchIsHit ==
    ASSUME WriteInv, NEW f \in Flow, Claimed(f), Call(f).op = "update", Columns(f), NEW k \in Batch(f)
    PROVE  k \in Updatable(f, Batch(f))
  <1> DEFINE hit == Updatable(f, Batch(f))
             q == fl[f].queue
  <1>1. "columns" \in Together /\ At(f, "columns") /\ Free(f) /\ ~Overtaken(f)
    BY DEF Together, Columns, Ready, Writes
  <1>2. Sending(f, "columns") /\ Needs(f) = Written(hit)
    BY <1>1, IsSending, NeedsAt DEF Sending
  <1>3. k \in Key /\ Call(f).ids \subseteq Key
    BY <1>2 DEF Sending
  <1>4. Current(f)[k] = IF lock[k] = f THEN rows[k] ELSE base[k]
    BY <1>3, AtRow
  <1>5. ClaimedRow(f, k)
    <2>1. q \in Seq(SUBSET Call(f).ids) /\ q # <<>> /\ Batch(f) = Head(q)
      <3>1. q # <<>>
        BY DEF Batch
      <3> QED
        BY <3>1 DEF WriteInv, Keeps, Batch
    <2>2. Batch(f) = q[1] /\ 1 \in DOMAIN q
      BY <2>1, TailItems
    <2> QED
      BY <2>2 DEF Claimed
  <1>6. CASE plan.engine = "upgrade"
    <2>1. fl[f].snap = base
      BY <1>1, <1>5, <1>6 DEF Overtaken, ClaimedRow
    <2>2. Matches(Call(f), Current(f)[k])
      BY <1>4, <1>5, <1>6, <2>1 DEF ClaimedRow
    <2> QED
      BY <2>2 DEF Updatable, Matches, Asked
  <1>7. CASE plan.engine # "upgrade"
    BY <1>4, <1>5, <1>7 DEF ClaimedRow, Updatable, Matches, Asked
  <1> QED
    BY <1>6, <1>7

LEMMA ColumnsReports ==
    ASSUME WriteInv, NEW f \in Flow, Claimed(f), Call(f).op = "update", Columns(f),
           fl[f].todo \in AtColumns, fl[f].told = {}, \A k \in fl[f].ids : Pending(f, k) \/ Ours(f, k)
    PROVE  UpdateReports(f)'
  <1> DEFINE hit == Updatable(f, Batch(f))
             new == [k \in hit |-> Touched(f, Current(f)[k])]
             more == Len(fl[f].queue) > 1
             before == IF more THEN fl[f] ELSE Goes(f)
             todo == IF more THEN fl[f].todo ELSE Tail(fl[f].todo)
             queue == Behind(f)
             kept == [before EXCEPT !.queue = queue]
             q == fl[f].queue
  <1>1. "columns" \in Together /\ At(f, "columns") /\ Free(f) /\ Writes(f, kept, new) /\ fl[f].todo # <<>>
    BY DEF Together, Columns, Ready, At
  <1>2. Sending(f, "columns") /\ Needs(f) = Written(hit) /\ fl[f].inTx
    BY <1>1, IsSending, NeedsAt DEF Sending
  <1>3. DOMAIN new = hit /\ \A k \in hit : new[k] = Touched(f, Current(f)[k])
    OBVIOUS
  <1>4. SameBut(kept, f, todo, queue)
    <2>1. SameBut(before, f, todo, fl[f].queue)
      <3>1. Goes(f).out = fl[f].out
        BY GoesOn, <1>1 DEF Goes, Then, Fields
      <3> QED
        BY <1>1, <3>1, GoesOn DEF SameBut
    <2> QED
      BY <2>1, SameThrough
  <1> HIDE DEF kept, new, before, todo, queue
  <1>5. OwnSees(f, todo, queue, new)
    <2>1. Free(f) /\ Writes(f, kept, new)
      BY <1>1
    <2>2. fl[f].inTx /\ Needs(f) = Written(hit)
      BY <1>2
    <2>3. DOMAIN new \subseteq hit
      BY <1>3
    <2> QED
      BY <1>4, <2>1, <2>2, <2>3, OwnWrite
  <1>6. fl'[f].told = {} /\ fl'[f].ids = fl[f].ids
    <2>1. ~ReadBack(f) /\ ~Doom(f) /\ ~Settle(f) /\ ~ReadThenUpsert(f)
      BY <1>1 DEF ReadBack, Doom, Settle, ReadThenUpsert, Ready, At
    <2>2. Write(f)
      BY DEF Write, Proceeds, Statement
    <2> QED
      BY <2>1, <2>2, StepLeaves
  <1>7. fl[f].ids \subseteq Key /\ Batch(f) \subseteq Key /\ Current(f) \in [Key -> Row \cup {None}]
    BY <1>2 DEF Sending
  <1>8. ASSUME NEW k \in hit PROVE Ours(f, k)'
    <2>1. k \in Key /\ Current(f)[k] \in Row /\ k \in Written(hit)
      BY <1>7 DEF Updatable, Written
    <2>2. lock'[k] = f /\ Current(f)'[k] = Touched(f, Current(f)[k])
      BY <1>3, <1>5, <2>1 DEF OwnSees
    <2>3. By(Touched(f, Current(f)[k]), f)
      <3>1. Touched(f, Current(f)[k]) \in Row
        BY <2>1 DEF Touched, Row
      <3>2. Touched(f, Current(f)[k]).val = f
        BY <2>1 DEF Touched, Row
      <3> QED
        BY <3>1, <3>2, KeyAssumption DEF By
    <2> QED
      BY <2>1, <2>2, <2>3, OursIs
  <1>9. ASSUME NEW k \in fl[f].ids, Ours(f, k) PROVE Ours(f, k)'
    <2>1. CASE k \in hit
      BY <1>8, <2>1
    <2>2. CASE k \notin hit
      <3>1. k \in Key /\ lock[k] = f /\ By(Current(f)[k], f)
        BY <1>7, <1>9, OursIs
      <3>2. lock'[k] = f /\ Current(f)'[k] = Current(f)[k]
        BY <1>3, <1>5, <2>2, <3>1 DEF OwnSees
      <3> QED
        BY <3>1, <3>2, OursIs
    <2> QED
      BY <2>1, <2>2
  <1>10. ASSUME NEW k \in fl[f].ids, Pending(f, k)
         PROVE  Ours(f, k)' \/ (more /\ Pending(f, k)')
    <2>1. PICK i \in DOMAIN q : k \in q[i]
      BY <1>10 DEF Pending
    <2>2. q \in Seq(SUBSET Call(f).ids)
      BY DEF WriteInv, Keeps
    <2>3. q # <<>>
      <3>1. DOMAIN <<>> = {}
        OBVIOUS
      <3> HIDE DEF q
      <3> QED
        BY <2>1, <3>1
    <2>4. /\ Behind(f) = Tail(q) /\ Batch(f) = q[1] /\ Len(q) \in Nat
          /\ DOMAIN q = 1..Len(q) /\ DOMAIN Tail(q) = 1..Len(q) - 1
          /\ \A j \in 1..Len(q) - 1 : Tail(q)[j] = q[j + 1]
      BY <2>2, <2>3, TailItems DEF Behind, Batch
    <2>5. CASE i = 1
      BY <1>8, <2>1, <2>4, <2>5, BatchIsHit
    <2>6. CASE i # 1
      <3>1. i - 1 \in 1..Len(q) - 1 /\ (i - 1) + 1 = i /\ more
        BY <2>1, <2>4, <2>6
      <3>2. fl'[f].queue = Tail(q)
        BY <1>5, <2>4 DEF OwnSees, queue
      <3>3. i - 1 \in DOMAIN fl'[f].queue /\ k \in fl'[f].queue[i - 1]
        BY <2>1, <2>4, <3>1, <3>2
      <3> QED
        BY <3>1, <3>3 DEF Pending
    <2> QED
      BY <2>5, <2>6
  <1>11. \A k \in fl'[f].ids : (more /\ Pending(f, k)') \/ Ours(f, k)'
    BY <1>6, <1>9, <1>10
  <1>12. fl'[f].todo = todo
    BY <1>5 DEF OwnSees
  <1>13. Tail(fl[f].todo) \in AtReadBack
    BY ReportHeads
  <1> QED
    BY <1>6, <1>11, <1>12, <1>13 DEF UpdateReports, todo

LEMMA Sextuple ==
    ASSUME NEW a, NEW b, NEW d, NEW e, NEW g, NEW x
    PROVE  <<a, b, d, e, g>> \o <<x>> = <<a, b, d, e, g, x>>
  <1> DEFINE S == {a, b, d, e, g, x}
             s == <<a, b, d, e, g>>
             t == <<a, b, d, e, g, x>>
  <1>1. s \in Seq(S) /\ t \in Seq(S) /\ x \in S
    OBVIOUS
  <1>2. Len(t) = Len(s) + 1
    OBVIOUS
  <1>3. t[Len(t)] = x
    OBVIOUS
  <1>4. \A i \in 1..Len(s) : t[i] = s[i]
    OBVIOUS
  <1> HIDE DEF S, s, t
  <1>5. s \o <<x>> = t
    BY <1>1, <1>2, <1>3, <1>4, Joined
  <1> QED
    BY <1>5 DEF s, t

\* The rows once settled, an update goes on with its columns.
LEMMA ColumnsList ==
    ASSUME NEW c, c.columns
    PROVE  SettledWrite(c) \o <<"readBack", "hook", "commit">> \in AtColumns
  <1> DEFINE S == {"columns", "drop", "save", "readBack", "hook", "commit"}
             own == <<"columns">>
             a == <<"columns", "drop", "save">>
             b == <<"readBack", "hook">>
             d == <<"commit">>
             e == <<"readBack">>
             g == <<"hook">>
  <1>1. a \in Seq(S)
    OBVIOUS
  <1>8. b \in Seq(S)
    OBVIOUS
  <1>9. own \in Seq(S) /\ d \in Seq(S) /\ e \in Seq(S) /\ g \in Seq(S)
    OBVIOUS
  <1>2. e \o g = b /\ b \o d = <<"readBack", "hook", "commit">>
    BY Pair, Triple
  <1>3. a \o (b \o d) = ((a \o e) \o g) \o d
    <2> HIDE DEF S, own, a, b, d, e, g
    <2>0. \A s, t, u \in Seq(S) : (s \o t) \o u = s \o (t \o u)
      BY ConcatAssociative
    <2>1. a \o (b \o d) = (a \o b) \o d
      BY <1>1, <1>8, <1>9, <2>0, ZenonT(60)
    <2>2. a \o (e \o g) = (a \o e) \o g
      BY <1>1, <1>9, <2>0, ZenonT(60)
    <2> QED
      BY <1>2, <2>1, <2>2
  <1>4. ((a \o e) \o g) \o d = <<"columns", "drop", "save", "readBack", "hook", "commit">>
    <2>1. a \o e = <<"columns", "drop", "save", "readBack">>
      BY Quadruple
    <2>2. <<"columns", "drop", "save", "readBack">> \o g = <<"columns", "drop", "save", "readBack", "hook">>
      BY Quintuple
    <2>3. <<"columns", "drop", "save", "readBack", "hook">> \o d = <<"columns", "drop", "save", "readBack", "hook", "commit">>
      BY Sextuple
    <2> QED
      BY <2>1, <2>2, <2>3
  <1>5. own \o <<"readBack", "hook", "commit">> = <<"columns", "readBack", "hook", "commit">>
    BY FrontOfThree, Zenon
  <1>6. own \o <<>> = own /\ own \o <<"drop", "save">> = a
    <2>1. own \o <<"drop", "save">> = a
      BY FrontOfTuple
    <2>2. own \o <<>> = own
      <3> HIDE DEF own
      <3> QED
        BY <1>9, ConcatEmptySeq
    <2> QED
      BY <2>1, <2>2
  <1>7. SettledWrite(c) \in {own, a}
    <2>1. SettledWrite(c) = own \o (IF WritesRelations(c) THEN <<"drop", "save">> ELSE <<>>)
      BY DEF SettledWrite
    <2> HIDE DEF own, a
    <2> QED
      BY <1>6, <2>1
  <1> QED
    BY <1>2, <1>3, <1>4, <1>5, <1>7 DEF AtColumns

\* No row an update settled is left out of what it writes.
LEMMA SettleReports ==
    ASSUME WriteInv, NEW f \in Flow, Call(f).op = "update", Call(f).columns, ToReport(fl[f].todo), fl[f].told = {},
           Settle(f)
    PROVE  UpdateReports(f)'
  <1> DEFINE ids == SettleIds(f)
             c == Call(f)
             writes == IF ids = {} \/ plan.versioned THEN <<>> ELSE SettledWrite(c)
             todo == writes \o Tail(fl[f].todo)
             queue == Chunks(ids)
             kept == [Then(f, writes) EXCEPT !.ids = ids, !.queue = queue]
             after == [kept EXCEPT !.snap = Snapshot(f, ~Locking(f))]
  <1>1. /\ At(f, "settle") /\ plan' = plan /\ fl' = [fl EXCEPT ![f] = after] /\ Write(f)
        /\ "settle" \in Together
    BY DEF Together, Settle, Ready, Reads, Sends, Write, Proceeds, Statement
  <1>2. fl[f].todo # <<>> /\ Tail(fl[f].todo) = Finish
    BY <1>1, ReportsAhead DEF At, Opening
  <1>3. ids \subseteq Call(f).ids /\ ids \subseteq Parent /\ IsFiniteSet(ids)
    <2>1. ids \subseteq Call(f).ids
      BY DEF SettleIds, FirstOf, Filtered
    <2> QED
      BY <2>1, CallTyped, FS_Subset DEF WriteInv
  <1>4. DOMAIN fl[f] = Fields /\ DOMAIN fl = Flow
    BY DEF WriteInv, Keeps
  <1> HIDE DEF ids, writes, queue
  <1>5. after.todo = todo /\ after.queue = queue /\ after.ids = ids /\ after.told = {}
    BY <1>4 DEF Then, Fields
  <1>6. fl'[f].todo = todo /\ fl'[f].queue = queue /\ fl'[f].ids = ids /\ fl'[f].told = {}
    BY <1>1, <1>5, NowKept
  <1> HIDE DEF after, kept
  <1>7. <<>> \o Finish = Finish
    BY <1>2, GoesOn
  <1>8. CASE plan.versioned
    <2>1. fl'[f].todo = <<"match", "readBack", "hook", "commit">>
      BY <1>2, <1>6, <1>7, <1>8 DEF writes, Finish
    <2> QED
      BY <1>1, <1>6, <1>8, <2>1 DEF UpdateReports, AtVersion
  <1>9. CASE ~plan.versioned /\ ids = {}
    <2>1. fl'[f].todo = <<"readBack", "hook", "commit">>
      BY <1>2, <1>6, <1>7, <1>9 DEF writes, Finish
    <2> QED
      BY <1>6, <1>9, <2>1 DEF UpdateReports, AtReadBack
  <1>10. CASE ~plan.versioned /\ ids # {}
    <2>1. fl'[f].todo \in AtColumns
      BY <1>2, <1>6, <1>10, ColumnsList DEF writes, Finish
    <2>2. \A k \in ids : Pending(f, k)'
      <3>1. \A k \in ids : \E i \in DOMAIN queue : k \in queue[i]
        <4>1. ids \in SUBSET Nat
          BY <1>3, KeyAssumption
        <4> QED
          BY <1>3, <4>1, ListsCover, BoundAssumption DEF queue, Chunks
      <3> QED
        BY <1>6, <3>1 DEF Pending
    <2> QED
      BY <1>6, <2>1, <2>2 DEF UpdateReports
  <1> QED
    BY <1>8, <1>9, <1>10

LEMMA OpeningReports ==
    ASSUME WriteInv, NEW f \in Flow, ToReport(fl[f].todo), fl[f].told = {}, Write(f), ~Settle(f), ~Faults(f)
    PROVE  UpdateReports(f)'
  <1> DEFINE todo == fl[f].todo
  <1>1. todo # <<>> /\ (Begin(f) \/ Hook(f) \/ (Load(f) /\ plan.versioned))
    BY ReportsAhead, StepAt DEF Opening
  <1>2. ToReport(Tail(todo)) /\ plan' = plan
    <2>1. Head(todo) # "settle"
      BY <1>1 DEF Begin, Hook, Load, Ready, At
    <2> QED
      BY <2>1, ReportsAhead, StepKinds
  <1>3. /\ Goes(f).todo = Tail(todo) /\ Goes(f).told = {} /\ DOMAIN Goes(f) = Fields
    BY <1>1, GoesOn
  <1>4. \A t : ToReport(t)' <=> ToReport(t)
    BY <1>2 DEF ToReport, Opening, Finish
  <1>5. \A kept : fl' = [fl EXCEPT ![f] = kept] => fl'[f] = kept
    BY DEF WriteInv
  <1>6. CASE Begin(f) \/ Hook(f)
    <2>1. fl'[f].todo = Tail(todo) /\ fl'[f].told = {}
      BY <1>3, <1>5, <1>6 DEF Begin, Hook, Fields
    <2> QED
      BY <1>2, <1>4, <2>1 DEF UpdateReports
  <1>7. CASE Load(f) /\ plan.versioned
    <2>1. fl'[f].told = {} /\ fl'[f].todo \in {Tail(todo), <<"commit">>, <<>>}
      <3>1. ~ReadBack(f) /\ ~Doom(f)
        BY <1>7 DEF Load, ReadBack, Doom, Ready, At
      <3>2. DOMAIN fl = Flow /\ DOMAIN fl[f] = Fields
        BY DEF WriteInv, Keeps
      <3>3. fl'[f].todo \in {Tail(todo), <<"commit">>, <<>>}
        BY <1>3, <1>7, <3>2 DEF Load, Sends, Fields
      <3> QED
        BY <3>1, <3>3, StepLeaves
    <2> QED
      BY <1>2, <1>4, <2>1 DEF UpdateReports, AtEnd, Over, Reported
  <1> QED
    BY <1>1, <1>6, <1>7

\* What an update wrote stays its own while it writes its relations.
LEMMA StillOurs ==
    ASSUME WriteInv, NEW f \in Flow, NEW todo, NEW queue, NEW new, OwnSees(f, todo, queue, new),
           NEW k \in Key \ DOMAIN new, Ours(f, k)
    PROVE  Ours(f, k)'
  <1>1. lock[k] = f /\ By(Current(f)[k], f)
    BY OursIs
  <1>2. lock'[k] = f /\ Current(f)'[k] = Current(f)[k]
    BY <1>1 DEF OwnSees
  <1> QED
    BY <1>1, <1>2, OursIs

LEMMA RelationsReports ==
    ASSUME WriteInv, NEW f \in Flow, Call(f).op = "update", fl[f].todo \in AtReadBack, fl[f].told = {},
           \A k \in fl[f].ids : Ours(f, k), DropUnlisted(f) \/ SaveChildren(f)
    PROVE  UpdateReports(f)'
  <1> DEFINE todo == Tail(fl[f].todo)
  <1>1. fl[f].todo # <<>> /\ Head(fl[f].todo) \in {"drop", "save"} /\ At(f, Head(fl[f].todo)) /\ Free(f)
    BY DEF DropUnlisted, SaveChildren, Ready, At
  <1>2. todo \in AtReadBack
    BY <1>1, ReportHeads
  <1>3. Sending(f, Head(fl[f].todo)) /\ fl[f].inTx
    <2>1. {"drop", "save"} \subseteq Alone \cup Together /\ Sending(f, Head(fl[f].todo)) /\ fl[f].inTx \in BOOLEAN
      BY <1>1, IsSending DEF Alone, Together
    <2>2. Shape(fl[f].todo, fl[f].inTx, Call(f))
      BY DEF WriteInv, Keeps
    <2>3. <<>> \notin AtReadBack /\ <<"hook">> \notin AtReadBack
      BY DEF AtReadBack
    <2> QED
      BY <1>1, <1>2, <2>1, <2>2, <2>3, HeadOfShape DEF Alone, Together
  <1>4. fl[f].ids \subseteq Parent /\ fl[f].ids \subseteq Key /\ Child \subseteq Key /\ Child \cap Parent = {}
    BY <1>3, KeyAssumption DEF Sending, Key
  <1>5. SameBut(Goes(f), f, todo, fl[f].queue)
    BY <1>1, GoesOn, ThenSame DEF Goes
  <1>6. fl'[f].told = {} /\ fl'[f].ids = fl[f].ids
    <2>1. ~ReadBack(f) /\ ~Doom(f) /\ ~Settle(f) /\ ~ReadThenUpsert(f)
      BY <1>1 DEF ReadBack, Doom, Settle, ReadThenUpsert, Ready, At
    <2>2. Write(f)
      BY DEF Write, Proceeds, Statement
    <2> QED
      BY <2>1, <2>2, StepLeaves
  <1>7. ASSUME NEW new, NEW S, DOMAIN new \subseteq Child, Writes(f, Goes(f), new), Needs(f) = Written(S), DOMAIN new \subseteq S
        PROVE  UpdateReports(f)'
    <2> DEFINE kept == Goes(f)
               queue == fl[f].queue
    <2>1. SameBut(kept, f, todo, queue) /\ Writes(f, kept, new)
      BY <1>5, <1>7
    <2> HIDE DEF todo, kept, queue
    <2>2. OwnSees(f, todo, queue, new)
      BY <1>1, <1>3, <1>7, <2>1, OwnWrite
    <2>3. \A k \in fl[f].ids : Ours(f, k)'
      <3> SUFFICES ASSUME NEW k \in fl[f].ids PROVE Ours(f, k)'
        OBVIOUS
      <3>1. k \in Key \ DOMAIN new /\ Ours(f, k)
        BY <1>4, <1>7
      <3> QED
        BY <2>2, <3>1, StillOurs
    <2> QED
      BY <1>2, <1>6, <2>2, <2>3 DEF UpdateReports, OwnSees
  <1>8. CASE DropUnlisted(f)
    <2> DEFINE new == [c \in Unlisted(f) |-> IF plan.childSoft THEN [Current(f)[c] EXCEPT !.del = TRUE] ELSE None]
    <2>1. Writes(f, Goes(f), new) /\ Needs(f) = Written(Unlisted(f))
      BY <1>1, <1>8, NeedsAt DEF DropUnlisted, Ready, At
    <2>2. DOMAIN new = Unlisted(f) /\ Unlisted(f) \subseteq Child
      BY DEF Unlisted, ChildrenOf
    <2> HIDE DEF new
    <2> QED
      BY <1>7, <2>1, <2>2
  <1>9. CASE SaveChildren(f)
    <2> DEFINE owner == CHOOSE p \in Owners(f) : TRUE
               now == Current(f)
               list == Call(f).list
               new == [c \in list |-> [val |-> f, ver |-> 1, par |-> owner, del |-> now[c] # None /\ now[c].del]]
    <2>1. CASE Throw(f, "foreignKey")
      BY <2>1, FaultsEnd DEF Throw, UpdateReports
    <2>2. CASE ~Throw(f, "foreignKey")
      <3>1. Writes(f, Goes(f), new) /\ Needs(f) = Written(list \cup Owners(f))
        BY <1>1, <1>9, <2>2, NeedsAt DEF SaveChildren, Ready, At
      <3>2. DOMAIN new = list /\ list \subseteq Child
        <4>1. "save" \in Alone /\ At(f, "save")
          BY <1>9 DEF Alone, SaveChildren, Ready
        <4>2. list # None /\ plan \in Plan
          BY <4>1, IsSending DEF WriteInv
        <4> QED
          BY <4>2, CallTyped
      <3> HIDE DEF new, list
      <3> QED
        BY <1>7, <3>1, <3>2
    <2> QED
      BY <2>1, <2>2
  <1> QED
    BY <1>8, <1>9

\* What an update reads back is what it wrote.
LEMMA ReadBackReports ==
    ASSUME WriteInv, NEW f \in Flow, Call(f).op = "update", fl[f].todo \in AtReadBack,
           \A k \in fl[f].ids : Ours(f, k), ReadBack(f)
    PROVE  UpdateReports(f)'
  <1> DEFINE told == {<<k, View(f)[k]>> : k \in WrittenIds(f)}
             kept == [Goes(f) EXCEPT !.told = told]
             after == [kept EXCEPT !.snap = Snapshot(f, TRUE)]
  <1>1. At(f, "readBack") /\ fl[f].todo # <<>> /\ Sends(f, after, <<>>, {}) /\ "readBack" \in Together
    BY DEF ReadBack, At, Together
  <1>2. Sending(f, "readBack") /\ fl[f].inTx
    BY <1>1, IsSending DEF Sending
  <1>3. Tail(fl[f].todo) \in AtEnd
    BY <1>1, ReportHeads DEF At
  <1>4. fl'[f].told = told /\ fl'[f].todo = Tail(fl[f].todo)
    <2>1. kept.todo = Tail(fl[f].todo) /\ kept.told = told /\ DOMAIN kept = Fields
      BY <1>1, GoesOn DEF Fields
    <2> HIDE DEF kept, told
    <2>2. after.todo = Tail(fl[f].todo) /\ after.told = told
      BY <2>1 DEF Fields
    <2> HIDE DEF after
    <2>3. fl' = [fl EXCEPT ![f] = after]
      BY <1>1 DEF Sends
    <2> QED
      BY <2>2, <2>3, NowKept
  <1>5. plan' = plan /\ \A k \in Key : rows'[k] = rows[k] /\ lock'[k] = lock[k]
    <2>1. DOMAIN <<>> = {}
      OBVIOUS
    <2> HIDE DEF after
    <2> QED
      BY <1>1, <2>1 DEF Sends, Put, WriteInv, Tables
  <1>6. ASSUME NEW k \in fl[f].ids PROVE k \in Key /\ View(f)[k] = rows[k]
    <2>1. k \in Key /\ lock[k] = f /\ By(rows[k], f)
      BY <1>2, <1>6 DEF Ours, Sending
    <2>2. rows[k] # base[k]
      BY <1>2, <2>1, NotYet
    <2>3. Current(f)[k] = rows[k]
      BY <2>1, AtRow
    <2> QED
      BY <2>1, <2>2, <2>3 DEF View
  <1>7. Call(f)' = Call(f) /\ fl[f].ids \subseteq Call(f).ids
    BY <1>2, <1>5 DEF Call, Sending
  <1>8. Reported(f)'
    <2> SUFFICES ASSUME NEW k \in fl[f].ids
                 PROVE  k \in Call(f).ids /\ Ours(f, k)' /\ View(f)[k] = rows'[k]
      BY <1>4, <1>7 DEF Reported, WrittenIds
    <2>1. Ours(f, k)' <=> Ours(f, k)
      BY <1>5, <1>6 DEF Ours, By
    <2> QED
      BY <1>5, <1>6, <1>7, <2>1
  <1> HIDE DEF told
  <1> QED
    BY <1>3, <1>4, <1>8 DEF UpdateReports

\* An update of a versioned row writes the one its filter names, or throws.
LEMMA VersionReports ==
    ASSUME WriteInv, NEW f \in Flow, Call(f).op = "update", plan.versioned, fl[f].todo \in AtVersion, fl[f].told = {},
           Match(f) \/ ThrowStaleVersion(f)
    PROVE  UpdateReports(f)'
  <1> DEFINE rest == <<"readBack", "hook", "commit">>
  <1>1. fl[f].todo # <<>> /\ Tail(fl[f].todo) = rest
    BY ReportHeads DEF Match, ThrowStaleVersion, Ready, At
  <1>2. ~ThrowStaleVersion(f) => Match(f)
    OBVIOUS
  <1>3. CASE ThrowStaleVersion(f)
    <2>1. \E why : Throw(f, why)
      BY <1>3 DEF ThrowStaleVersion, KeepsFound
    <2> QED
      BY <2>1, FaultsEnd DEF Throw, UpdateReports
  <1>4. CASE Match(f)
    <2>1. PICK k \in Call(f).ids : WriteAtVersion(f, k)
      BY <1>4 DEF Match
    <2>2. At(f, "match") /\ Free(f) /\ "match" \in Alone /\ Head(fl[f].todo) = "match"
      BY <1>4 DEF Match, Ready, At, Alone
    <2>3. fl'[f].told = {} /\ fl'[f].ids = fl[f].ids
      <3>1. ~ReadBack(f) /\ ~Doom(f) /\ ~Settle(f) /\ ~ReadThenUpsert(f)
        BY <2>2 DEF ReadBack, Doom, Settle, ReadThenUpsert, Ready, At
      <3>2. Write(f)
        BY <1>4 DEF Write, Proceeds, Statement
      <3> QED
        BY <3>1, <3>2, StepLeaves
    <2>4. Sending(f, "match") /\ fl[f].inTx
      <3>1. Sending(f, "match") /\ fl[f].inTx \in BOOLEAN
        BY <2>2, IsSending
      <3>2. Shape(fl[f].todo, fl[f].inTx, Call(f))
        BY DEF WriteInv, Keeps
      <3>3. rest # <<>> /\ rest # <<"hook">>
        OBVIOUS
      <3> QED
        BY <1>1, <2>2, <3>1, <3>2, <3>3, HeadOfShape
    <2>5. CASE LockVersion(f, k)
      <3> DEFINE S == {j \in Call(f).ids : LockVersion(f, j)}
                 kept == [Goes(f) EXCEPT !.queue = Behind(f)]
                 new == [j \in {k} |-> Bumped(f, Current(f)[j])]
                 queue == Behind(f)
      <3>1. Writes(f, kept, new) /\ Needs(f) = Written(S)
        BY <1>1, <2>1, <2>2, <2>5, NeedsAt DEF WriteAtVersion
      <3>2. DOMAIN new = {k} /\ {k} \subseteq S /\ new[k] = Bumped(f, Current(f)[k])
        BY <2>5
      <3>3. SameBut(kept, f, rest, queue)
        <4>1. SameBut(Goes(f), f, rest, fl[f].queue)
          BY <1>1, GoesOn, ThenSame DEF Goes
        <4> QED
          BY <4>1, SameThrough
      <3> HIDE DEF S, kept, new, queue, rest
      <3>4. OwnSees(f, rest, queue, new)
        <4>1. DOMAIN new \subseteq S
          BY <3>2
        <4> QED
          BY <2>2, <2>4, <3>1, <3>3, <4>1, OwnWrite
      <3>5. k \in Key /\ fl[f].ids \subseteq Call(f).ids /\ Current(f)[k] \in Row
        BY <2>4, <2>5 DEF Sending, LockVersion
      <3>6. Ours(f, k)'
        <4>1. lock'[k] = f /\ Current(f)'[k] = Bumped(f, Current(f)[k])
          BY <3>2, <3>4, <3>5 DEF OwnSees, Written
        <4>2. Bumped(f, Current(f)[k]) # None /\ Bumped(f, Current(f)[k]).val = f
          BY <3>5, MarkedRow DEF Bumped, Touched, Row
        <4> QED
          BY <3>5, <4>1, <4>2, OursIs DEF By
      <3>7. Call(f).ids = {k}
        <4>1. Cardinality(Call(f).ids) = 1 /\ IsFiniteSet(Call(f).ids)
          BY LockableAssumption, CallTyped DEF WriteInv, Call
        <4>2. PICK x : Call(f).ids = {x}
          BY <4>1, FS_Singleton
        <4> QED
          BY <4>2
      <3>8. \A j \in fl'[f].ids : Ours(f, j)'
        BY <2>3, <3>5, <3>6, <3>7
      <3>9. rest \in AtReadBack
        BY DEF rest, AtReadBack
      <3> QED
        BY <2>3, <3>4, <3>8, <3>9 DEF UpdateReports, OwnSees
    <2>6. CASE ~LockVersion(f, k)
      <3>1. PICK miss : Writes(f, [Then(f, <<"reread">>) EXCEPT !.miss = miss], <<>>)
        BY <2>1, <2>6 DEF WriteAtVersion
      <3> DEFINE kept == [Then(f, <<"reread">>) EXCEPT !.miss = miss]
                 after == [kept EXCEPT !.snap = Snapshot(f, FALSE)]
      <3>2. plan' = plan /\ fl' = [fl EXCEPT ![f] = after]
        BY <3>1 DEF Writes, Sends
      <3>3. <<"reread">> \o rest = <<"reread", "readBack", "hook", "commit">>
        BY FrontOfThree, Zenon
      <3>4. kept.todo = <<"reread">> \o rest /\ DOMAIN kept = Fields
        BY <1>1, GoesOn DEF Then, Fields
      <3> HIDE DEF kept, rest
      <3>5. after.todo = <<"reread">> \o rest
        BY <3>4 DEF Fields
      <3> HIDE DEF after
      <3>6. fl'[f].todo = <<"reread", "readBack", "hook", "commit">> /\ plan'.versioned
        BY <3>2, <3>3, <3>5, NowKept
      <3> QED
        BY <2>3, <3>6 DEF UpdateReports, AtVersion
    <2> QED
      BY <2>5, <2>6
  <1> QED
    BY <1>3, <1>4

\* What it told stays so to the end.
LEMMA EndReports ==
    ASSUME WriteInv, NEW f \in Flow, Write(f), ~Faults(f),
           (fl[f].todo \in AtEnd /\ Reported(f)) \/ fl[f].todo \in Over
    PROVE  UpdateReports(f)'
  <1>1. /\ fl[f].todo # <<>> /\ plan' = plan
        /\ \/ fl[f].todo \in AtEnd /\ Reported(f) /\ Hook(f) /\ Tail(fl[f].todo) \in AtEnd
           \/ (Commit(f) \/ Rollback(f)) /\ Tail(fl[f].todo) \in Over
    BY StepAt, StepKinds, ReportHeads
  <1>2. CASE fl[f].todo \in AtEnd /\ Reported(f) /\ Hook(f) /\ Tail(fl[f].todo) \in AtEnd
    <2>1. fl'[f].todo = Tail(fl[f].todo) /\ fl'[f].told = fl[f].told
      BY <1>1, <1>2, GoesOn, NowKept DEF Hook
    <2>2. rows' = rows /\ base' = base /\ lock' = lock /\ Call(f)' = Call(f)
      BY <1>1, <1>2 DEF Hook, store, Call
    <2>3. Reported(f)'
      BY <1>2, <2>1, <2>2 DEF Reported, Ours, By
    <2> QED
      BY <1>2, <2>1, <2>3 DEF UpdateReports
  <1>3. CASE (Commit(f) \/ Rollback(f)) /\ Tail(fl[f].todo) \in Over
    <2>1. fl'[f] = Closed(f) /\ DOMAIN fl[f] = Fields
      BY <1>3, NowKept DEF Commit, Rollback
    <2>2. fl'[f].todo = Tail(fl[f].todo)
      BY <2>1 DEF Closed, Fields
    <2> QED
      BY <1>3, <2>2 DEF UpdateReports
  <1> QED
    BY <1>1, <1>2, <1>3

LEMMA OwnStepReports ==
    ASSUME ClaimInv, NEW f \in Flow, Call(f).op = "update", Call(f).columns, UpdateReports(f), Write(f)
    PROVE  UpdateReports(f)'
  <1>1. WriteInv /\ Claims(f)
    BY DEF ClaimInv
  <1>2. CASE Faults(f)
    BY <1>1, <1>2, FaultsEnd DEF Faults, UpdateReports
  <1>3. CASE ~Faults(f)
    <2>1. fl[f].todo # <<>>
      BY <1>3, StepAt
    <2>2. CASE ToReport(fl[f].todo) /\ fl[f].told = {}
      BY <1>1, <1>3, <2>2, SettleReports, OpeningReports
    <2>3. CASE fl[f].todo \in AtColumns /\ fl[f].told = {} /\ \A k \in fl[f].ids : Pending(f, k) \/ Ours(f, k)
      <3>1. Head(fl[f].todo) = "columns" /\ Columns(f)
        BY <1>3, <2>3, ReportHeads, StepAt
      <3>2. Claimed(f)
        <4>1. Head(fl[f].todo) \notin Aside \cup Opening /\ Head(fl[f].todo) # "settle"
          BY <3>1 DEF Aside, Opening
        <4>2. fl[f].todo \notin Seq(Aside)
          BY <2>1, <4>1, HeadTailProperties
        <4> QED
          BY <1>1, <4>1, <4>2, SettlesAhead DEF Claims
      <3> QED
        BY <1>1, <2>3, <3>1, <3>2, ColumnsReports
    <2>4. CASE fl[f].todo \in AtReadBack /\ fl[f].told = {} /\ \A k \in fl[f].ids : Ours(f, k)
      <3>1. DropUnlisted(f) \/ SaveChildren(f) \/ ReadBack(f)
        BY <1>3, <2>4, ReportHeads, StepAt
      <3> QED
        BY <1>1, <2>4, <3>1, RelationsReports, ReadBackReports
    <2>5. CASE fl[f].todo \in AtVersion /\ fl[f].told = {} /\ plan.versioned
      <3>1. Match(f) \/ ThrowStaleVersion(f)
        BY <1>3, <2>5, ReportHeads, StepAt
      <3> QED
        BY <1>1, <2>5, <3>1, VersionReports
    <2>6. CASE (fl[f].todo \in AtEnd /\ Reported(f)) \/ fl[f].todo \in Over
      BY <1>1, <1>3, <2>6, EndReports
    <2> QED
      BY <2>2, <2>3, <2>4, <2>5, <2>6 DEF UpdateReports
  <1> QED
    BY <1>2, <1>3

LEMMA OthersLetReport ==
    ASSUME WriteInv, NEW h \in Flow, NEW f \in Flow \ {h}, Write(h), UpdateReports(f)
    PROVE  UpdateReports(f)'
  <1>1. /\ plan' = plan /\ fl'[f] = fl[f]
        /\ \A k \in Key : (lock'[k] = f <=> lock[k] = f) /\ (lock[k] = f => rows'[k] = rows[k])
    BY OthersLeave
  <1>2. fl[f].ids \subseteq Key /\ Call(f).ids \subseteq Key /\ Call(f)' = Call(f)
    <2>1. fl[f].ids \subseteq Call(f).ids /\ plan \in Plan
      BY DEF WriteInv, Keeps
    <2> QED
      BY <1>1, <2>1, CallTyped DEF Call
  <1>3. \A k \in Key : Ours(f, k)' <=> Ours(f, k)
    BY <1>1 DEF Ours, By
  <1>4. \A t : ToReport(t)' <=> ToReport(t)
    BY <1>1 DEF ToReport, Opening, Finish
  <1>5. Reported(f) => Reported(f)'
    <2> SUFFICES ASSUME Reported(f), NEW t \in fl[f].told
                 PROVE  t[1] \in Call(f).ids /\ Ours(f, t[1])' /\ t[2] = rows'[t[1]]
      BY <1>1, <1>2 DEF Reported
    <2>1. t[1] \in Call(f).ids /\ t[1] \in Key /\ Ours(f, t[1]) /\ t[2] = rows[t[1]]
      BY <1>2 DEF Reported
    <2> QED
      BY <1>1, <1>3, <2>1 DEF Ours
  <1>6. \A k : Pending(f, k)' <=> Pending(f, k)
    BY <1>1 DEF Pending
  <1> QED
    BY <1>1, <1>2, <1>3, <1>4, <1>5, <1>6 DEF UpdateReports

\* A row as a delete read it: what its snapshot shows where nothing is locked, and elsewhere what is committed.
AsRead(f, k) == IF plan.engine = "upgrade" THEN fl[f].snap[k] ELSE base[k]
Removed(f, k) == lock[k] = f /\ ~Live(rows[k])

\* What a delete told its hooks of: the rows it has still to remove and those it removed, as they were, and no less.
Told(f) ==
    /\ plan.engine = "upgrade" => fl[f].snap # None /\ \A k \in Key : lock[k] = f => base[k] = fl[f].snap[k]
    /\ \A told \in fl[f].told : \E k \in Call(f).ids : /\ told = <<k, AsRead(f, k)>>
                                                       /\ plan.engine = "upgrade" \/ lock[k] = f
                                                       /\ Pending(f, k) \/ Removed(f, k)
    /\ \A k : Pending(f, k) => <<k, AsRead(f, k)>> \in fl[f].told
    /\ \A k \in Parent : Current(f)[k] # base[k] => <<k, base[k]>> \in fl[f].told

ToDoom == {<<"begin", "doom", "commit">>, <<"doom", "commit">>}
DeletesTold(f) ==
    \/ fl[f].todo \in Over
    \/ /\ fl[f].todo \in ToDoom /\ fl[f].told = {} /\ fl[f].snap = None
       /\ \A k \in Key : lock[k] = f => rows[k] = base[k]
    \/ /\ fl[f].todo \notin Over \cup ToDoom
       /\ Told(f)
       /\ fl[f].todo \in AtEnd => \A k : ~Pending(f, k)

\* What a delete writes, it told of; and what it has not told of it leaves.
LEMMA TellsOn ==
    ASSUME WriteInv, NEW f \in Flow, Told(f), ~Overtaken(f), NEW todo, NEW queue, NEW new, OwnSees(f, todo, queue, new),
           fl'[f].told = fl[f].told, base' = base, plan.engine = "upgrade" => fl'[f].snap = fl[f].snap,
           \A k : Pending(f, k)' => Pending(f, k),
           \A k \in Call(f).ids : Pending(f, k) => Pending(f, k)' \/ ~Live(Current(f)'[k]),
           \A k \in Parent : k \in DOMAIN new => Pending(f, k) /\ ~Live(new[k])
    PROVE  Told(f)'
  <1>1. plan' = plan /\ Call(f)' = Call(f)
    BY DEF OwnSees, Call
  <1>2. Call(f).ids \subseteq Parent /\ Parent \subseteq Key
    BY CallTyped DEF WriteInv, Key
  <1>3. plan.engine = "upgrade" => fl[f].snap # None /\ fl[f].snap = base /\ fl'[f].snap = base'
    BY DEF Told, Overtaken
  <1>4. \A k : AsRead(f, k)' = AsRead(f, k) /\ AsRead(f, k) = base[k]
    BY <1>1, <1>3 DEF AsRead
  <1>5. \A k \in Key : Current(f)'[k] = IF lock'[k] = f THEN rows'[k] ELSE base'[k]
    BY DEF Current
  <1>6. \A k \in Key : Current(f)[k] = IF lock[k] = f THEN rows[k] ELSE base[k]
    BY AtRow
  <1>7. \A k \in Key : plan.engine = "upgrade" \/ lock[k] = f => lock'[k] = f
    BY DEF OwnSees, Written, RowLocks
  <1>8. ASSUME NEW k \in Call(f).ids, Pending(f, k) \/ Removed(f, k), plan.engine = "upgrade" \/ lock[k] = f
        PROVE  (Pending(f, k) \/ Removed(f, k))'
    <2>1. k \in Key /\ k \in Parent /\ lock'[k] = f /\ Current(f)'[k] = rows'[k]
      BY <1>2, <1>5, <1>7, <1>8
    <2>2. CASE Pending(f, k)
      BY <2>1, <2>2 DEF Removed, Live
    <2>3. CASE Removed(f, k)
      <3>1. Current(f)[k] = rows[k]
        BY <1>6, <2>1, <2>3 DEF Removed
      <3>2. ~Live(Current(f)'[k])
        BY <2>1, <2>3, <3>1 DEF OwnSees, Removed
      <3> QED
        BY <2>1, <3>2 DEF Removed, Live
    <2> QED
      BY <1>8, <2>2, <2>3
  <1>9. ASSUME NEW k \in Parent, Current(f)'[k] # base'[k] PROVE <<k, base'[k]>> \in fl'[f].told
    <2>1. k \in Key
      BY <1>2
    <2>2. CASE k \in DOMAIN new
      <3>1. <<k, AsRead(f, k)>> \in fl[f].told
        BY <2>2 DEF Told
      <3> QED
        BY <1>4, <3>1
    <2>3. CASE k \notin DOMAIN new
      <3>1. Current(f)[k] # base[k]
        BY <1>9, <2>1, <2>3 DEF OwnSees
      <3> QED
        BY <3>1 DEF Told
    <2> QED
      BY <2>2, <2>3
  <1>10. \A told \in fl'[f].told : \E k \in Call(f).ids :
            /\ told = <<k, AsRead(f, k)'>>
            /\ plan.engine = "upgrade" \/ lock'[k] = f
            /\ (Pending(f, k) \/ Removed(f, k))'
    <2> SUFFICES ASSUME NEW told \in fl[f].told
                 PROVE  \E k \in Call(f).ids : /\ told = <<k, AsRead(f, k)>>
                                               /\ plan.engine = "upgrade" \/ lock'[k] = f
                                               /\ (Pending(f, k) \/ Removed(f, k))'
      BY <1>4
    <2>1. PICK k \in Call(f).ids : /\ told = <<k, AsRead(f, k)>>
                                   /\ plan.engine = "upgrade" \/ lock[k] = f
                                   /\ Pending(f, k) \/ Removed(f, k)
      BY DEF Told
    <2> QED
      BY <1>2, <1>7, <1>8, <2>1
  <1>11. \A k : Pending(f, k)' => <<k, AsRead(f, k)'>> \in fl'[f].told
    BY <1>4 DEF Told
  <1>12. plan'.engine = "upgrade" => fl'[f].snap # None /\ \A k \in Key : lock'[k] = f => base'[k] = fl'[f].snap[k]
    BY <1>1, <1>3
  <1> QED
    BY <1>1, <1>9, <1>10, <1>11, <1>12 DEF Told

\* A write leaves a snapshot taken as it is, and in a transaction what is committed.
LEMMA WriteSees ==
    ASSUME WriteInv, NEW f \in Flow, fl[f].inTx, NEW kept, NEW new, Writes(f, kept, new), DOMAIN kept = Fields,
           kept.snap = fl[f].snap
    PROVE  base' = base /\ ~Overtaken(f) /\ (fl[f].snap # None => fl'[f].snap = fl[f].snap)
  <1> DEFINE after == [kept EXCEPT !.snap = Snapshot(f, FALSE)]
  <1>1. base' = base /\ ~Overtaken(f) /\ fl' = [fl EXCEPT ![f] = after]
    BY DEF Writes, Sends
  <1>2. fl'[f].snap = Snapshot(f, FALSE)
    <2>1. after.snap = Snapshot(f, FALSE)
      BY DEF Fields
    <2> HIDE DEF after
    <2> QED
      BY <1>1, <2>1, NowKept
  <1> QED
    BY <1>1, <1>2 DEF Snapshot

LEMMA ChildrenTells ==
    ASSUME WriteInv, NEW f \in Flow, Deletes(f), DeleteChildren(f), Told(f)
    PROVE  DeletesTold(f)'
  <1> DEFINE hit == ChildrenOf(Current(f), Batch(f))
             new == [c \in hit |-> Gone(f, c)]
             todo == Tail(fl[f].todo)
             queue == fl[f].queue
             kept == Goes(f)
  <1>1. /\ "children" \in Together /\ At(f, "children") /\ Free(f) /\ Writes(f, kept, new) /\ fl[f].todo # <<>>
        /\ Head(fl[f].todo) = "children"
    BY DEF Together, DeleteChildren, Ready, At
  <1>2. Sending(f, "children") /\ Needs(f) = Written(hit) /\ fl[f].inTx
    BY <1>1, IsSending, NeedsAt DEF Sending
  <1>3. todo = <<"remove", "hook", "commit">>
    BY <1>1, DeleteHeads DEF Deletes
  <1>4. SameBut(kept, f, todo, queue) /\ DOMAIN kept = Fields /\ kept.snap = fl[f].snap
    BY <1>1, GoesOn, ThenSame DEF Goes
  <1>5. DOMAIN new = hit /\ hit \subseteq Child /\ Child \cap Parent = {} /\ DOMAIN new \subseteq hit
    BY KeyAssumption DEF ChildrenOf
  <1>6. fl'[f].told = fl[f].told
    <2>1. ~ReadBack(f) /\ ~Doom(f) /\ Write(f)
      BY <1>1 DEF ReadBack, Doom, Ready, At, Write, Proceeds, Statement
    <2> QED
      BY <2>1, StepLeaves
  <1>q. queue = fl[f].queue
    OBVIOUS
  <1> HIDE DEF new, hit, todo, queue, kept
  <1>7. OwnSees(f, todo, queue, new)
    BY <1>1, <1>2, <1>4, <1>5, OwnWrite
  <1>8. base' = base /\ ~Overtaken(f) /\ (fl[f].snap # None => fl'[f].snap = fl[f].snap)
    BY <1>1, <1>2, <1>4, WriteSees
  <1>9. \A k : Pending(f, k)' <=> Pending(f, k)
    BY <1>7, <1>q DEF Pending, OwnSees
  <1>10. Told(f)'
    <2>1. plan.engine = "upgrade" => fl'[f].snap = fl[f].snap
      BY <1>8 DEF Told
    <2>2. \A k \in Parent : k \notin DOMAIN new
      BY <1>5
    <2> QED
      BY <1>6, <1>7, <1>8, <1>9, <2>1, <2>2, TellsOn
  <1>11. fl'[f].todo = <<"remove", "hook", "commit">>
    BY <1>3, <1>7 DEF OwnSees
  <1>12. <<"remove", "hook", "commit">> \notin Over \cup ToDoom \cup AtEnd
    BY DEF Over, ToDoom, AtEnd
  <1> QED
    BY <1>10, <1>11, <1>12 DEF DeletesTold

LEMMA RemoveTells ==
    ASSUME WriteInv, NEW f \in Flow, Deletes(f), InternalDelete(f), Told(f)
    PROVE  DeletesTold(f)'
  <1> DEFINE hit == {k \in Batch(f) : Current(f)[k] # None /\ (Call(f).hard \/ ~Current(f)[k].del)}
             more == Len(fl[f].queue) > 1
             new == [k \in hit |-> Gone(f, k)]
             next == IF more THEN Cascade(Call(f)) ELSE <<>>
             kept == [Then(f, next) EXCEPT !.queue = Behind(f)]
             todo == next \o Tail(fl[f].todo)
             queue == Behind(f)
             S == Batch(f)
             q == fl[f].queue
  <1>1. /\ "remove" \in Together /\ At(f, "remove") /\ Free(f) /\ fl[f].todo # <<>> /\ Head(fl[f].todo) = "remove"
        /\ Throw(f, "foreignKey") \/ Writes(f, kept, new)
    BY DEF Together, InternalDelete, Ready, At
  <1>2. Sending(f, "remove") /\ Needs(f) = Written(S) /\ fl[f].inTx
    BY <1>1, IsSending, NeedsAt DEF Sending
  <1>3. Tail(fl[f].todo) = <<"hook", "commit">>
    BY <1>1, DeleteHeads DEF Deletes
  <1>4. IF more THEN todo \in {<<"children", "remove", "hook", "commit">>, <<"remove", "hook", "commit">>}
        ELSE todo = <<"hook", "commit">>
    <2>1. <<>> \o <<"hook", "commit">> = <<"hook", "commit">>
      BY <1>1, <1>3, GoesOn
    <2>2. CASE more
      BY <1>3, <2>2, DeleteLists DEF Cascade
    <2>3. CASE ~more
      BY <1>3, <2>1, <2>3
    <2> QED
      BY <2>2, <2>3
  <1>5. SameBut(kept, f, todo, queue)
    <2>1. SameBut(Then(f, next), f, todo, fl[f].queue)
      BY ThenSame
    <2> HIDE DEF next, todo
    <2> QED
      BY <2>1, SameThrough
  <1>6. kept.snap = fl[f].snap /\ DOMAIN kept = Fields
    BY <1>1, GoesOn DEF Then, Fields
  <1>7. /\ DOMAIN new = hit /\ hit \subseteq S /\ DOMAIN new \subseteq S
        /\ \A k \in hit : new[k] = Gone(f, k) /\ ~Live(Gone(f, k))
    <2>1. \A k \in hit : Current(f)[k] \in Row
      BY <1>2 DEF Sending
    <2>2. \A k \in hit : ~Live(Gone(f, k))
      BY <2>1 DEF Gone, Live, Row
    <2> QED
      BY <2>2
  <1>8. \A k \in S \ hit : ~Live(Current(f)[k])
    BY DEF Live
  <1>9. fl'[f].told = fl[f].told
    <2>1. ~ReadBack(f) /\ ~Doom(f) /\ Write(f)
      BY <1>1 DEF ReadBack, Doom, Ready, At, Write, Proceeds, Statement
    <2> QED
      BY <2>1, StepLeaves
  <1>10. q \in Seq(SUBSET Call(f).ids) /\ S \subseteq Call(f).ids /\ Call(f).ids \subseteq Key
    BY <1>2 DEF Sending, WriteInv, Keeps
  <1>11. /\ \A k \in S : Pending(f, k)
         /\ \A i \in DOMAIN queue : more /\ i + 1 \in DOMAIN q /\ queue[i] = q[i + 1]
         /\ \A i \in DOMAIN q : q[i] = S \/ \E j \in DOMAIN queue : queue[j] = q[i]
    <2>1. CASE q = <<>>
      <3>1. DOMAIN <<>> = {}
        OBVIOUS
      <3>2. queue = <<>> /\ S = {}
        BY <2>1 DEF Behind, Batch
      <3> QED
        BY <2>1, <3>1, <3>2
    <2>2. CASE q # <<>>
      <3>1. /\ queue = Tail(q) /\ S = q[1] /\ Len(q) \in Nat /\ Len(q) >= 1
            /\ DOMAIN q = 1..Len(q) /\ DOMAIN queue = 1..Len(q) - 1
            /\ \A j \in 1..Len(q) - 1 : queue[j] = q[j + 1]
        BY <1>10, <2>2, TailItems DEF Behind, Batch
      <3> HIDE DEF queue, S, q
      <3>2. \A i \in DOMAIN queue : Len(q) > 1 /\ i + 1 \in DOMAIN q /\ queue[i] = q[i + 1]
        BY <3>1
      <3>3. ASSUME NEW i \in DOMAIN q, i # 1 PROVE i - 1 \in DOMAIN queue /\ queue[i - 1] = q[i]
        <4>1. i - 1 \in 1..Len(q) - 1 /\ (i - 1) + 1 = i
          BY <3>1, <3>3
        <4> QED
          BY <3>1, <4>1
      <3>4. \A k \in S : Pending(f, k)
        <4>1. 1 \in DOMAIN q
          BY <3>1
        <4> QED
          BY <3>1, <4>1 DEF Pending, q
      <3> QED
        BY <3>1, <3>2, <3>3, <3>4 DEF q
    <2> QED
      BY <2>1, <2>2
  <1> HIDE DEF hit, more, new, next, kept, todo, queue, S, q
  <1>12. CASE Throw(f, "foreignKey")
    BY <1>12, FaultsEnd DEF Throw, DeletesTold
  <1>13. CASE Writes(f, kept, new)
    <2>1. OwnSees(f, todo, queue, new)
      BY <1>1, <1>2, <1>5, <1>7, <1>13, OwnWrite
    <2>2. base' = base /\ ~Overtaken(f) /\ (fl[f].snap # None => fl'[f].snap = fl[f].snap)
      BY <1>2, <1>6, <1>13, WriteSees
    <2>3. plan.engine = "upgrade" => fl'[f].snap = fl[f].snap
      BY <2>2 DEF Told
    <2>4. fl'[f].queue = queue /\ fl'[f].todo = todo
      BY <2>1 DEF OwnSees
    <2>5. \A k : Pending(f, k)' => Pending(f, k) /\ more
      BY <1>11, <2>4 DEF Pending, q
    <2>6. ASSUME NEW k \in Call(f).ids, Pending(f, k) PROVE Pending(f, k)' \/ ~Live(Current(f)'[k])
      <3>1. Pending(f, k)' \/ k \in S
        BY <1>11, <2>4, <2>6 DEF Pending, q
      <3>2. CASE k \in S
        <4>1. k \in Key
          BY <1>10
        <4>2. CASE k \in hit
          BY <1>7, <2>1, <4>1, <4>2 DEF OwnSees
        <4>3. CASE k \notin hit
          BY <1>7, <1>8, <2>1, <3>2, <4>1, <4>3 DEF OwnSees
        <4> QED
          BY <4>2, <4>3
      <3> QED
        BY <3>1, <3>2
    <2>7. \A k \in Parent : k \in DOMAIN new => Pending(f, k) /\ ~Live(new[k])
      BY <1>7, <1>11
    <2>8. Told(f)'
      BY <1>9, <2>1, <2>2, <2>3, <2>5, <2>6, <2>7, TellsOn
    <2>9. todo \notin Over \cup ToDoom /\ (more => todo \notin AtEnd)
      <3>1. CASE more
        BY <1>4, <3>1 DEF Over, ToDoom, AtEnd
      <3>2. CASE ~more
        BY <1>4, <3>2 DEF Over, ToDoom
      <3> QED
        BY <3>1, <3>2
    <2> QED
      BY <2>4, <2>5, <2>8, <2>9 DEF DeletesTold
  <1> QED
    BY <1>1, <1>12, <1>13

\* A delete holds the rows it read, or its snapshot does; and it told its hooks of each.
LEMMA DoomTells ==
    ASSUME WriteInv, AllHeld, NEW f \in Flow, Deletes(f), Doom(f), fl[f].snap = None,
           \A k \in Key : lock[k] = f => rows[k] = base[k]
    PROVE  DeletesTold(f)'
  <1> DEFINE ids == Doomed(f)
             next == IF ids = {} THEN <<>> ELSE Hooked(Cascade(Call(f)))
             told == {<<k, ReadForWrite(f)[k]>> : k \in ids}
             queue == Chunks(ids)
             kept == [Then(f, next) EXCEPT !.ids = ids, !.queue = queue, !.told = told]
             after == [kept EXCEPT !.snap = Snapshot(f, ~Locking(f))]
             todo == next \o Tail(fl[f].todo)
  <1>1. /\ At(f, "doom") /\ fl[f].todo # <<>> /\ Head(fl[f].todo) = "doom" /\ Sends(f, after, <<>>, Held(f, ids))
        /\ Free(f) /\ "doom" \in Together
    BY DEF Doom, Ready, Reads, At, Together
  <1>2. Sending(f, "doom") /\ Needs(f) = Held(f, ids) /\ fl[f].inTx
    BY <1>1, IsSending, NeedsAt DEF Sending
  <1>3. Tail(fl[f].todo) = <<"commit">>
    BY <1>1, DeleteHeads DEF Deletes
  <1>4. /\ ids = {} => todo = <<"commit">>
        /\ ids # {} => todo \in {<<"hook", "children", "remove", "hook", "commit">>, <<"hook", "remove", "hook", "commit">>}
    <2>1. <<>> \o <<"commit">> = <<"commit">>
      BY <1>1, <1>3, GoesOn
    <2> QED
      BY <1>3, <2>1, DeleteLists DEF Cascade
  <1>5. ids \in SUBSET Call(f).ids /\ IsFiniteSet(ids) /\ Call(f).ids \subseteq Key /\ ids \in SUBSET Nat
    <2>1. ids \in SUBSET Call(f).ids
      BY DEF Doomed, FirstOf
    <2> QED
      BY <2>1, CallTyped, FS_Subset, KeyAssumption DEF WriteInv
  <1>6. \A k \in Key : Current(f)[k] = base[k] /\ View(f)[k] = base[k] /\ ReadForWrite(f)[k] = base[k]
    <2>1. \A k \in Key : Current(f)[k] = base[k]
      BY AtRow
    <2>2. View(f) = Current(f)
      BY DEF View
    <2> QED
      BY <2>1, <2>2 DEF ReadForWrite
  <1>7. told = {<<k, base[k]>> : k \in ids}
    BY <1>5, <1>6
  <1>8. \A k : (\E i \in DOMAIN queue : k \in queue[i]) <=> k \in ids
    <2>1. \A k \in ids : \E i \in DOMAIN queue : k \in queue[i]
      BY <1>5, ListsCover, BoundAssumption DEF Chunks
    <2>2. \A i \in DOMAIN queue : queue[i] \subseteq ids
      BY ListsApart DEF Chunks
    <2> QED
      BY <2>1, <2>2
  <1>9. /\ after.todo = todo /\ after.queue = queue /\ after.told = told /\ after.snap = Snapshot(f, ~Locking(f))
    BY <1>1, GoesOn DEF Then, Fields
  <1>11. /\ plan' = plan /\ base' = base /\ rows' = Put(rows, <<>>) /\ fl' = [fl EXCEPT ![f] = after]
         /\ lock' = [k \in Key |-> IF k \in Held(f, ids) THEN f ELSE lock[k]]
    BY <1>1, <1>2 DEF Sends
  <1>12. \A k \in Key : rows'[k] = rows[k]
    <2>1. DOMAIN <<>> = {}
      OBVIOUS
    <2> QED
      BY <1>11, <2>1 DEF Put
  <1> HIDE DEF ids, next, told, queue, todo, kept, after
  <1>13. fl'[f].todo = todo /\ fl'[f].queue = queue /\ fl'[f].told = told /\ fl'[f].snap = Snapshot(f, ~Locking(f))
    BY <1>9, <1>11, NowKept
  <1>14. plan.engine = "upgrade" => fl'[f].snap = base
    BY <1>2, <1>13 DEF Snapshot
  <1>15. base # None
    BY SnapshotAssumption DEF WriteInv, Tables
  <1>16. \A k \in Key : AsRead(f, k)' = base[k]
    BY <1>11, <1>14 DEF AsRead
  <1>17. \A k : Pending(f, k)' <=> k \in ids
    BY <1>8, <1>13 DEF Pending
  <1>18. \A k \in ids : plan.engine = "upgrade" \/ lock'[k] = f
    <2> SUFFICES ASSUME NEW k \in ids, plan.engine # "upgrade" PROVE lock'[k] = f
      OBVIOUS
    <2>1. k \in Key
      BY <1>5
    <2>2. CASE RowLocks
      BY <1>2, <1>11, <2>1, <2>2 DEF Held, Locking
    <2>3. CASE ~RowLocks
      <3>1. plan.engine = "begin"
        <4>1. plan.engine \in Engine
          BY PlanAssumption DEF WriteInv
        <4> QED
          BY <2>3, <4>1 DEF Engine, RowLocks
      <3>2. lock[k] = f
        BY <1>2, <2>1, <3>1 DEF AllHeld
      <3> QED
        BY <1>11, <2>1, <3>2
    <2> QED
      BY <2>2, <2>3
  <1>19. \A k \in Key : k \in Held(f, ids) => lock[k] \in {None, f}
    BY <1>1, <1>2, FreeToHave
  <1>20. \A k \in Parent : Current(f)'[k] = base'[k]
    <2> SUFFICES ASSUME NEW k \in Parent PROVE Current(f)'[k] = base'[k]
      OBVIOUS
    <2>1. k \in Key
      BY DEF Key
    <2>2. Current(f)'[k] = IF lock'[k] = f THEN rows'[k] ELSE base'[k]
      BY <2>1 DEF Current
    <2>3. lock'[k] = f => rows[k] = base[k]
      BY <1>11, <1>19, <2>1 DEF WriteInv, Tables
    <2> QED
      BY <1>11, <1>12, <2>1, <2>2, <2>3
  <1>21. Call(f)' = Call(f)
    BY <1>11 DEF Call
  <1>22. Told(f)'
    <2>1. plan'.engine = "upgrade" => fl'[f].snap # None /\ \A k \in Key : lock'[k] = f => base'[k] = fl'[f].snap[k]
      BY <1>11, <1>14, <1>15
    <2>2. \A t \in fl'[f].told : \E k \in Call(f)'.ids :
            /\ t = <<k, AsRead(f, k)'>>
            /\ plan'.engine = "upgrade" \/ lock'[k] = f
            /\ (Pending(f, k) \/ Removed(f, k))'
      <3> SUFFICES ASSUME NEW k \in ids
                   PROVE  /\ k \in Call(f)'.ids /\ base[k] = AsRead(f, k)'
                          /\ plan'.engine = "upgrade" \/ lock'[k] = f
                          /\ (Pending(f, k) \/ Removed(f, k))'
        BY <1>7, <1>13
      <3> QED
        BY <1>5, <1>11, <1>16, <1>17, <1>18, <1>21
    <2>3. \A k : Pending(f, k)' => <<k, AsRead(f, k)'>> \in fl'[f].told
      BY <1>5, <1>7, <1>13, <1>16, <1>17
    <2> QED
      BY <1>20, <2>1, <2>2, <2>3 DEF Told
  <1>23. /\ fl'[f].todo \notin Over \cup ToDoom
         /\ fl'[f].todo \in AtEnd => ids = {}
    <2>1. /\ <<"commit">> \notin {<<>>, <<"rollback">>, <<"begin", "doom", "commit">>, <<"doom", "commit">>}
          /\ \A t \in {<<"hook", "children", "remove", "hook", "commit">>, <<"hook", "remove", "hook", "commit">>} :
                t \notin {<<>>, <<"rollback">>, <<"begin", "doom", "commit">>, <<"doom", "commit">>,
                         <<"hook", "commit">>, <<"commit">>}
      OBVIOUS
    <2>2. Over \cup ToDoom = {<<>>, <<"rollback">>, <<"begin", "doom", "commit">>, <<"doom", "commit">>}
      BY DEF Over, ToDoom
    <2> QED
      BY <1>4, <1>13, <2>1, <2>2 DEF AtEnd
  <1> QED
    BY <1>17, <1>22, <1>23 DEF DeletesTold

\* Where a delete is, from the statement it is at.
LEMMA TellsAhead ==
    ASSUME NEW c, NEW todo \in DeleteTodo(c)
    PROVE  /\ todo \in ToDoom => \/ Head(todo) = "begin" /\ Tail(todo) \in ToDoom
                                 \/ Head(todo) = "doom"
           /\ todo \notin Over \cup ToDoom =>
                 \/ Head(todo) \in {"children", "remove"}
                 \/ Head(todo) = "commit" /\ Tail(todo) \in Over
                 \/ Head(todo) = "hook" /\ Tail(todo) \notin Over \cup ToDoom /\ (Tail(todo) \in AtEnd => todo \in AtEnd)
  <1>1. CASE todo \in ToDoom
    <2>1. CASE todo = <<"begin", "doom", "commit">>
      BY <2>1 DEF ToDoom, Over
    <2>2. CASE todo = <<"doom", "commit">>
      BY <2>2 DEF ToDoom, Over
    <2> QED
      BY <1>1, <2>1, <2>2 DEF ToDoom
  <1>2. CASE todo \notin Over \cup ToDoom
    <2>1. CASE todo \in {<<"hook", "children", "remove", "hook", "commit">>, <<"hook", "remove", "hook", "commit">>}
      <3>1. Head(todo) = "hook" /\ Tail(todo) \in {<<"children", "remove", "hook", "commit">>, <<"remove", "hook", "commit">>}
        <4>1. CASE todo = <<"hook", "children", "remove", "hook", "commit">>
          BY <4>1
        <4>2. CASE todo = <<"hook", "remove", "hook", "commit">>
          BY <4>2
        <4> QED
          BY <2>1, <4>1, <4>2
      <3>2. \A t \in {<<"children", "remove", "hook", "commit">>, <<"remove", "hook", "commit">>} :
               t \notin {<<>>, <<"rollback">>, <<"begin", "doom", "commit">>, <<"doom", "commit">>,
                         <<"hook", "commit">>, <<"commit">>}
        OBVIOUS
      <3> QED
        BY <1>2, <3>1, <3>2 DEF Over, ToDoom, AtEnd
    <2>2. CASE todo \in {<<"children", "remove", "hook", "commit">>, <<"remove", "hook", "commit">>}
      BY <1>2, <2>2
    <2>3. CASE todo = <<"hook", "commit">>
      BY <1>2, <2>3 DEF Over, ToDoom, AtEnd
    <2>4. CASE todo = <<"commit">>
      BY <1>2, <2>4 DEF Over
    <2> QED
      BY <1>2, <2>1, <2>2, <2>3, <2>4 DEF DeleteTodo, Over, ToDoom
  <1> QED
    BY <1>1, <1>2

LEMMA BeginTells ==
    ASSUME WriteInv, NEW f \in Flow, Begin(f), fl[f].told = {}, fl[f].snap = None, Tail(fl[f].todo) \in ToDoom,
           \A k \in Key : lock[k] = f => rows[k] = base[k]
    PROVE  DeletesTold(f)'
  <1>1. /\ rows' = rows /\ base' = base /\ lock' = IF plan.engine = "begin" THEN [j \in Key |-> f] ELSE lock
        /\ fl'[f].snap = None /\ fl'[f].told = {} /\ fl'[f].todo = Tail(fl[f].todo)
    <2>1. fl[f].todo # <<>> /\ DOMAIN fl = Flow
      BY DEF Begin, Ready, At, WriteInv
    <2> QED
      BY <2>1, GoesOn DEF Begin, Fields
  <1>2. \A k \in Key : lock'[k] = f => rows[k] = base[k]
    <2>1. CASE plan.engine = "begin"
      <3>1. Needs(f) = Key /\ Free(f)
        BY <2>1 DEF Begin, Ready, At, Needs, Ended
      <3>2. \A k \in Key : lock[k] \in {None, f}
        BY <3>1, FreeToHave
      <3> QED
        BY <3>2 DEF WriteInv, Tables
    <2>2. CASE plan.engine # "begin"
      BY <1>1, <2>2
    <2> QED
      BY <2>1, <2>2
  <1> QED
    BY <1>1, <1>2 DEF DeletesTold

LEMMA ToldStays ==
    ASSUME WriteInv, NEW f \in Flow, Told(f), plan' = plan, fl'[f].told = fl[f].told, fl'[f].snap = fl[f].snap,
           fl'[f].queue = fl[f].queue,
           \A k \in Key : /\ lock'[k] = f <=> lock[k] = f
                          /\ lock[k] = f => rows'[k] = rows[k] /\ base'[k] = base[k]
    PROVE  Told(f)' /\ \A k : Pending(f, k)' <=> Pending(f, k)
  <1>1. Call(f)' = Call(f) /\ Call(f).ids \subseteq Key /\ Parent \subseteq Key
    BY CallTyped DEF WriteInv, Call, Key
  <1>2. \A k : Pending(f, k)' <=> Pending(f, k)
    BY DEF Pending
  <1>3. \A k \in Key : plan.engine = "upgrade" \/ lock[k] = f => AsRead(f, k)' = AsRead(f, k)
    BY DEF AsRead
  <1>4. \A k \in Key : Removed(f, k)' <=> Removed(f, k)
    BY DEF Removed, Live
  <1>5. ASSUME NEW k \in Key, Current(f)'[k] # base'[k] PROVE Current(f)[k] # base[k] /\ base'[k] = base[k]
    <2>1. /\ Current(f)'[k] = IF lock'[k] = f THEN rows'[k] ELSE base'[k]
          /\ Current(f)[k] = IF lock[k] = f THEN rows[k] ELSE base[k]
      BY AtRow DEF Current
    <2> QED
      BY <1>5, <2>1
  <1>6. \A told \in fl[f].told : \E k \in Call(f).ids :
            /\ told = <<k, AsRead(f, k)'>>
            /\ plan.engine = "upgrade" \/ lock'[k] = f
            /\ (Pending(f, k) \/ Removed(f, k))'
    <2> SUFFICES ASSUME NEW told \in fl[f].told
                 PROVE  \E k \in Call(f).ids : /\ told = <<k, AsRead(f, k)'>>
                                               /\ plan.engine = "upgrade" \/ lock'[k] = f
                                               /\ (Pending(f, k) \/ Removed(f, k))'
      OBVIOUS
    <2>1. PICK k \in Call(f).ids : /\ told = <<k, AsRead(f, k)>>
                                   /\ plan.engine = "upgrade" \/ lock[k] = f
                                   /\ Pending(f, k) \/ Removed(f, k)
      BY DEF Told
    <2> QED
      BY <1>1, <1>2, <1>3, <1>4, <2>1
  <1>7. ASSUME NEW k, Pending(f, k) PROVE <<k, AsRead(f, k)'>> \in fl[f].told
    <2>1. <<k, AsRead(f, k)>> \in fl[f].told
      BY <1>7 DEF Told
    <2>2. PICK j \in Call(f).ids : /\ <<k, AsRead(f, k)>> = <<j, AsRead(f, j)>>
                                   /\ plan.engine = "upgrade" \/ lock[j] = f
      BY <2>1 DEF Told
    <2>3. k = j
      BY <2>2
    <2> QED
      BY <1>1, <1>3, <2>1, <2>2, <2>3
  <1>8. \A k \in Parent : Current(f)'[k] # base'[k] => <<k, base'[k]>> \in fl[f].told
    BY <1>1, <1>5 DEF Told
  <1>9. plan.engine = "upgrade" => fl[f].snap # None /\ \A k \in Key : lock'[k] = f => base'[k] = fl[f].snap[k]
    BY DEF Told
  <1> QED
    BY <1>1, <1>2, <1>6, <1>7, <1>8, <1>9 DEF Told

LEMMA OwnStepTells ==
    ASSUME WriteInv, AllHeld, NEW f \in Flow, Deletes(f), DeletesTold(f), Write(f)
    PROVE  DeletesTold(f)'
  <1> DEFINE todo == fl[f].todo
  <1>1. todo \in DeleteTodo(Call(f)) /\ plan' = plan
    BY StepKinds DEF Deletes
  <1>2. CASE Faults(f)
    BY <1>2, FaultsEnd DEF Faults, DeletesTold
  <1>3. CASE ~Faults(f) /\ todo \in ToDoom
    <2>1. \/ Begin(f) /\ Tail(todo) \in ToDoom
          \/ Doom(f)
      BY <1>1, <1>3, TellsAhead, StepAt
    <2>2. /\ fl[f].told = {} /\ fl[f].snap = None
          /\ \A k \in Key : lock[k] = f => rows[k] = base[k]
      <3>1. todo \notin Over
        BY <1>3 DEF Over, ToDoom
      <3> QED
        BY <1>3, <3>1 DEF DeletesTold
    <2> QED
      BY <2>1, <2>2, BeginTells, DoomTells
  <1>4. CASE ~Faults(f) /\ todo \notin ToDoom
    <2>1. \/ DeleteChildren(f) \/ InternalDelete(f)
          \/ (Commit(f) \/ Rollback(f)) /\ Tail(todo) \in Over
          \/ Hook(f) /\ todo \notin Over /\ Tail(todo) \notin Over \cup ToDoom /\ (Tail(todo) \in AtEnd => todo \in AtEnd)
      BY <1>1, <1>4, TellsAhead, StepAt, ReportHeads
    <2>2. CASE DeleteChildren(f) \/ InternalDelete(f)
      <3>1. todo \notin Over
        <4>1. todo # <<>> /\ Head(todo) # "rollback"
          BY <2>2 DEF DeleteChildren, InternalDelete, Ready, At
        <4> QED
          BY <4>1, ReportHeads
      <3>2. Told(f)
        BY <1>4, <3>1 DEF DeletesTold
      <3> QED
        BY <2>2, <3>2, ChildrenTells, RemoveTells
    <2>3. CASE (Commit(f) \/ Rollback(f)) /\ Tail(todo) \in Over
      <3>1. fl'[f] = Closed(f) /\ DOMAIN fl[f] = Fields
        BY <2>3, NowKept DEF Commit, Rollback
      <3>2. fl'[f].todo = Tail(todo)
        BY <3>1 DEF Closed, Fields
      <3> QED
        BY <2>3, <3>2 DEF DeletesTold
    <2>4. CASE Hook(f) /\ todo \notin Over /\ Tail(todo) \notin Over \cup ToDoom /\ (Tail(todo) \in AtEnd => todo \in AtEnd)
      <3>1. todo # <<>> /\ fl'[f] = Goes(f) /\ rows' = rows /\ base' = base /\ lock' = lock
        BY <2>4, NowKept DEF Hook, store, At
      <3>2. /\ fl'[f].todo = Tail(todo) /\ fl'[f].told = fl[f].told /\ fl'[f].snap = fl[f].snap
            /\ fl'[f].queue = fl[f].queue
        BY <3>1, GoesOn
      <3>3. Told(f) /\ (todo \in AtEnd => \A k : ~Pending(f, k))
        BY <1>4, <2>4 DEF DeletesTold
      <3>4. Told(f)' /\ \A k : Pending(f, k)' <=> Pending(f, k)
        BY <1>1, <3>1, <3>2, <3>3, ToldStays
      <3> QED
        BY <2>4, <3>2, <3>3, <3>4 DEF DeletesTold
    <2> QED
      BY <2>1, <2>2, <2>3, <2>4
  <1> QED
    BY <1>2, <1>3, <1>4

LEMMA OthersLetTell ==
    ASSUME WriteInv, NEW h \in Flow, NEW f \in Flow \ {h}, Write(h), DeletesTold(f)
    PROVE  DeletesTold(f)'
  <1>1. /\ plan' = plan /\ fl'[f] = fl[f]
        /\ \A k \in Key : /\ lock'[k] = f <=> lock[k] = f
                          /\ lock[k] = f => rows'[k] = rows[k] /\ base'[k] = base[k]
    BY OthersLeave
  <1>2. Told(f) => Told(f)' /\ \A k : Pending(f, k)' <=> Pending(f, k)
    BY <1>1, ToldStays
  <1> QED
    BY <1>1, <1>2 DEF DeletesTold

\* Every other call tells nothing.
Untold == {"load", "begin", "hook", "match", "reread", "where", "settle", "columns", "drop", "save", "find", "found",
           "insert", "merge", "children", "remove", "restore", "commit", "rollback"}
Tells(c) == c.op = "delete" \/ (c.op = "update" /\ c.returning)
Silent(f) == fl[f].told = {} /\ fl[f].todo \in Seq(Untold)

LEMMA SilentStarts ==
    ASSUME NEW c, ~Tells(c)
    PROVE  Program(c) \in Seq(Untold)
  <1> DEFINE A == Untold
             reading == IF plan.versioned /\ c.op \in {"update", "upsert"} THEN <<"load">> ELSE <<>>
  <1>1. /\ {"begin", "commit", "load", "hook", "match", "where", "settle", "find", "merge", "insert", "save", "restore"} \subseteq A
    BY DEF Untold
  <1> HIDE DEF A
  <1>2. \A s \in Seq(A) : Hooked(s) \in Seq(A) /\ \A inside : Atomically(c, inside, s) \in Seq(A)
    BY <1>1, WrappedList
  <1>3. CallBody(c) \in Seq(A)
    <2>1. CASE c.op = "update"
      <3>1. <<"match">> \in Seq(A) /\ <<"settle">> \in Seq(A) /\ <<"where">> \in Seq(A)
        BY <1>1
      <3>2. \A inside : UpdateRows(c, inside) \in Seq(A)
        BY <1>2, <3>1 DEF UpdateRows
      <3>3. CallBody(c) = UpdateWhere(c) /\ ~c.returning
        BY <2>1 DEF CallBody, Tells
      <3>4. \A inside : Hooked(UpdateRows(c, inside)) \in Seq(A) /\ Atomically(c, FALSE, Hooked(UpdateRows(c, inside))) \in Seq(A)
        BY <1>2, <3>2
      <3> QED
        BY <3>3, <3>4 DEF UpdateWhere
    <2>2. CASE c.op = "upsert"
      <3>1. <<"find">> \in Seq(A) /\ <<"merge">> \in Seq(A)
        BY <1>1
      <3>2. Hooked(Atomically(c, FALSE, <<"find">>)) \in Seq(A) /\ Hooked(<<"merge">>) \in Seq(A)
        BY <1>2, <3>1
      <3>3. CallBody(c) = UpsertMany(c)
        BY <2>2 DEF CallBody
      <3> QED
        BY <3>2, <3>3 DEF UpsertMany
    <2>3. CASE c.op = "insert"
      <3>1. <<"insert", "save">> \in Seq(A) /\ <<"insert">> \in Seq(A)
        BY <1>1
      <3>2. CallBody(c) = InsertMany(c)
        BY <2>3 DEF CallBody
      <3> QED
        BY <1>2, <3>1, <3>2 DEF InsertMany
    <2>4. CASE c.op \in {"restore", "saveChild"}
      <3>1. <<"restore">> \in Seq(A) /\ <<"save">> \in Seq(A)
        BY <1>1
      <3>2. CallBody(c) \in {Hooked(<<"restore">>), Hooked(<<"save">>)}
        BY <2>4 DEF CallBody
      <3> QED
        BY <1>2, <3>1, <3>2
    <2>5. CASE c.op \notin {"update", "upsert", "insert", "delete", "restore", "saveChild"}
      <3>1. CallBody(c) = <<>>
        BY <2>5 DEF CallBody
      <3> QED
        BY <3>1
    <2> QED
      BY <2>1, <2>2, <2>3, <2>4, <2>5 DEF Tells
  <1>4. reading \in Seq(A) /\ <<"begin">> \in Seq(A) /\ <<"commit">> \in Seq(A)
    BY <1>1
  <1>5. Program(c) = IF c.outer THEN <<"begin">> \o reading \o CallBody(c) \o <<"commit">> ELSE reading \o CallBody(c)
    BY DEF Program
  <1> HIDE DEF reading
  <1>6. reading \o CallBody(c) \in Seq(A) /\ <<"begin">> \o reading \in Seq(A)
    BY <1>3, <1>4, ConcatProperties
  <1>7. (<<"begin">> \o reading) \o CallBody(c) \in Seq(A)
    BY <1>3, <1>6, ConcatProperties
  <1>8. ((<<"begin">> \o reading) \o CallBody(c)) \o <<"commit">> \in Seq(A)
    BY <1>4, <1>7, ConcatProperties
  <1> QED
    BY <1>5, <1>6, <1>8 DEF A

LEMMA OwnStepSilent ==
    ASSUME WriteInv, NEW f \in Flow, Silent(f), Write(f)
    PROVE  Silent(f)'
  <1>1. ~ReadBack(f) /\ ~Doom(f)
    <2>1. fl[f].todo # <<>> => Head(fl[f].todo) \in Untold
      BY HeadTailProperties DEF Silent
    <2> QED
      BY <2>1 DEF Untold, ReadBack, Doom, Ready, At
  <1>2. ClosedSteps(Untold)
    BY DEF ClosedSteps, Untold
  <1>3. fl'[f].todo \in Seq(Untold)
    BY <1>2, ListStays DEF Silent
  <1> QED
    BY <1>1, <1>3, StepLeaves DEF Silent

\* What a call will have told when it commits.
Telling(f) ==
    /\ Call(f).op = "delete" => DeletesTold(f)
    /\ Call(f).op = "update" /\ Call(f).returning /\ Call(f).columns => UpdateReports(f)
    /\ ~Tells(Call(f)) => Silent(f)
ReportInv == DeleteInv /\ ClaimInv /\ \A f \in Flow : Telling(f)

LEMMA ReportsStart == Init => ReportInv
  <1> SUFFICES ASSUME Init PROVE ReportInv
    OBVIOUS
  <1>1. WriteInv /\ ClaimInv
    BY WritesStart, ClaimsStart
  <1>2. DeleteInv
    <2>1. Apart
      BY WriterAssumption, KeyAssumption DEF Apart, Init, Key
    <2> QED
      BY <1>1, <2>1, DeletesStart DEF DeleteInv
  <1>3. ASSUME NEW f \in Flow PROVE Telling(f)
    <2>1. fl[f].todo = Program(Call(f)) /\ fl[f].told = {} /\ fl[f].snap = None
      BY DEF Init, Idle
    <2>2. Call(f).op = "delete" => DeletesTold(f)
      <3> SUFFICES ASSUME Call(f).op = "delete" PROVE DeletesTold(f)
        OBVIOUS
      <3>1. \A k \in Key : lock[k] = f => rows[k] = base[k]
        BY DEF Init
      <3>2. fl[f].todo = <<"begin", "doom", "commit">>
        <4>1. /\ <<"begin">> \o <<"doom">> = <<"begin", "doom">>
              /\ <<"begin", "doom">> \o <<"commit">> = <<"begin", "doom", "commit">>
          BY Pair, Triple
        <4>2. <<"begin">> \in Seq({"begin", "doom"}) /\ <<"doom">> \in Seq({"begin", "doom"})
          OBVIOUS
        <4>3. <<"begin">> \o <<>> = <<"begin">> /\ <<>> \o <<"doom">> = <<"doom">>
          BY <4>2, ConcatEmptySeq
        <4>4. CallBody(Call(f)) = IF Call(f).outer THEN <<"doom">> ELSE (<<"begin">> \o <<"doom">>) \o <<"commit">>
          BY DEF CallBody, DeleteRows, Atomically
        <4>5. /\ <<"begin", "doom", "commit">> \in Seq({"begin", "doom", "commit"})
          OBVIOUS
        <4>6. <<>> \o <<"begin", "doom", "commit">> = <<"begin", "doom", "commit">>
          BY <4>5, ConcatEmptySeq
        <4>7. Program(Call(f)) = IF Call(f).outer THEN ((<<"begin">> \o <<>>) \o CallBody(Call(f))) \o <<"commit">>
                                 ELSE <<>> \o CallBody(Call(f))
          BY DEF Program
        <4>8. CASE Call(f).outer
          BY <2>1, <4>1, <4>3, <4>4, <4>7, <4>8
        <4>9. CASE ~Call(f).outer
          BY <2>1, <4>1, <4>4, <4>6, <4>7, <4>9
        <4> QED
          BY <4>8, <4>9
      <3> QED
        BY <2>1, <3>1, <3>2 DEF DeletesTold, ToDoom
    <2>3. Call(f).op = "update" /\ Call(f).returning => UpdateReports(f)
      BY <2>1, ReportStarts DEF UpdateReports
    <2>4. ~Tells(Call(f)) => Silent(f)
      BY <2>1, SilentStarts DEF Silent
    <2> QED
      BY <2>2, <2>3, <2>4 DEF Telling
  <1> QED
    BY <1>1, <1>2, <1>3 DEF ReportInv

LEMMA ReportsStay == ReportInv /\ [Next]_vars => ReportInv'
  <1> SUFFICES ASSUME ReportInv, [Next]_vars PROVE ReportInv'
    OBVIOUS
  <1>1. WriteInv /\ AllHeld /\ ClaimInv /\ DeleteInv /\ DeleteInv' /\ ClaimInv'
    BY DeletesStay, ClaimsStay DEF ReportInv, ClaimInv
  <1>2. ASSUME UNCHANGED vars, NEW f \in Flow PROVE Telling(f)'
    <2>1. plan' = plan /\ rows' = rows /\ base' = base /\ lock' = lock /\ fl' = fl
      BY <1>2 DEF vars
    <2>2. Telling(f)
      BY DEF ReportInv
    <2>3. Call(f)' = Call(f) /\ (Silent(f)' <=> Silent(f))
      BY <2>1 DEF Call, Silent
    <2>4. DeletesTold(f)' <=> DeletesTold(f)
      <3>1. Told(f) => Told(f)' /\ \A k : Pending(f, k)' <=> Pending(f, k)
        BY <1>1, <2>1, ToldStays
      <3>2. Told(f)' <=> Told(f)
        BY <2>1 DEF Told, AsRead, Pending, Removed, Current, Call
      <3> QED
        BY <2>1, <3>1, <3>2 DEF DeletesTold
    <2>5. UpdateReports(f)' <=> UpdateReports(f)
      <3>1. \A t : ToReport(t)' <=> ToReport(t)
        BY <2>1 DEF ToReport, Opening, Finish
      <3>2. Reported(f)' <=> Reported(f)
        BY <2>1 DEF Reported, Ours, By, Call
      <3>3. \A k : (Ours(f, k)' <=> Ours(f, k)) /\ (Pending(f, k)' <=> Pending(f, k))
        BY <2>1 DEF Ours, By, Pending
      <3> QED
        BY <2>1, <3>1, <3>2, <3>3 DEF UpdateReports
    <2> QED
      BY <2>2, <2>3, <2>4, <2>5 DEF Telling, Tells
  <1>3. ASSUME NEW h \in Flow, Write(h), NEW f \in Flow PROVE Telling(f)'
    <2>1. Telling(f) /\ plan' = plan /\ Call(f)' = Call(f)
      BY <1>1, <1>3, StepKinds DEF ReportInv, Call
    <2>2. Call(f).op = "delete" => DeletesTold(f)'
      <3>1. Call(f).op = "delete" => Deletes(f)
        BY <1>1 DEF DeleteInv
      <3> QED
        BY <1>1, <1>3, <2>1, <3>1, OwnStepTells, OthersLetTell DEF Telling
    <2>3. Call(f).op = "update" /\ Call(f).returning /\ Call(f).columns => UpdateReports(f)'
      BY <1>1, <1>3, <2>1, OwnStepReports, OthersLetReport DEF Telling
    <2>4. ~Tells(Call(f)) => Silent(f)'
      <3>1. f # h => fl'[f] = fl[f]
        BY <1>1, <1>3, OthersLeave
      <3> QED
        BY <1>1, <1>3, <2>1, <3>1, OwnStepSilent DEF Telling, Silent
    <2> QED
      BY <2>1, <2>2, <2>3, <2>4 DEF Telling, Tells
  <1>4. CASE UNCHANGED vars
    BY <1>1, <1>2, <1>4 DEF ReportInv
  <1>5. CASE Next
    BY <1>1, <1>3, <1>5 DEF ReportInv, Next
  <1> QED
    BY <1>4, <1>5

LEMMA CommitIs ==
    ASSUME WriteInv, [Next]_vars, NEW f \in Flow, Commits(f)
    PROVE  Commit(f) /\ fl[f].inTx /\ fl[f].todo # <<>> /\ Head(fl[f].todo) = "commit"
  <1>1. fl[f].todo # <<>> /\ Head(fl[f].todo) = "commit" /\ fl[f].inTx
    BY DEF Commits, At
  <1>2. PICK h \in Flow : Write(h)
    BY DEF Next, vars, Commits
  <1>3. Write(f)
    BY <1>2, OthersLeave DEF Commits
  <1>4. ~Faults(f)
    <2> SUFFICES ASSUME NEW why, fl' = [fl EXCEPT ![f] = Thrown(f, why)] PROVE FALSE
      BY DEF Faults
    <2> QED
      BY NowKept, ThrownList DEF Commits
  <1> QED
    BY <1>1, <1>3, <1>4, StepAt

LEMMA CommitTells ==
    ASSUME ReportInv, [Next]_vars, NEW f \in Flow, Commits(f)
    PROVE  /\ Commit(f)
           /\ Call(f).op = "delete" => Told(f) /\ \A k : ~Pending(f, k)
           /\ Call(f).op = "update" /\ Call(f).returning /\ Call(f).columns => Reported(f)
           /\ ~Tells(Call(f)) => fl[f].told = {}
  <1>1. WriteInv /\ Telling(f) /\ DeleteInv
    BY DEF ReportInv, ClaimInv
  <1>2. fl[f].todo # <<>> /\ Head(fl[f].todo) = "commit"
    BY DEF Commits, At
  <1>3. Commit(f)
    BY <1>1, CommitIs
  <1>4. fl[f].todo \notin Over
    BY <1>2, ReportHeads
  <1>5. Call(f).op = "delete" => Told(f) /\ \A k : ~Pending(f, k)
    <2> SUFFICES ASSUME Call(f).op = "delete" PROVE Told(f) /\ \A k : ~Pending(f, k)
      OBVIOUS
    <2>1. fl[f].todo \in DeleteTodo(Call(f))
      BY <1>1 DEF DeleteInv, Deletes
    <2>2. fl[f].todo \notin ToDoom
      BY <1>2, <2>1, TellsAhead
    <2>3. fl[f].todo \in AtEnd
      <3>1. \A t \in {<<"begin", "doom", "commit">>, <<"doom", "commit">>, <<"hook", "children", "remove", "hook", "commit">>,
                      <<"children", "remove", "hook", "commit">>, <<"remove", "hook", "commit">>, <<"hook", "commit">>,
                      <<"rollback">>, <<"hook", "remove", "hook", "commit">>} : Head(t) # "commit"
        OBVIOUS
      <3> QED
        BY <1>2, <2>1, <3>1 DEF DeleteTodo, AtEnd
    <2> QED
      BY <1>1, <1>4, <2>2, <2>3 DEF Telling, DeletesTold
  <1>6. Call(f).op = "update" /\ Call(f).returning /\ Call(f).columns => Reported(f)
    BY <1>1, <1>2, <1>4, ReportHeads, ReportsAhead DEF Telling, UpdateReports, Opening
  <1>7. ~Tells(Call(f)) => fl[f].told = {}
    BY <1>1 DEF Telling, Silent
  <1> QED
    BY <1>3, <1>5, <1>6, <1>7

\* The rows a delete gives its hooks, and reports, are those it removed, as they were when it removed them, and no
\* other row goes: nobody changes one between the read and the statements that follow it.  The rows an update of
\* columns reports are the rows it wrote, as it commits them (`deleteRows`, `updateWhere`, `readBack`).
THEOREM ReportsAreTrueAlways == Spec => ReportsAreTrue
  <1>1. ASSUME ReportInv, [Next]_vars, NEW f \in Flow, Commits(f)
        PROVE  /\ \A told \in fl[f].told :
                     IF Call(f).op = "delete" THEN told[2] = base[told[1]] /\ ~Live(base'[told[1]])
                     ELSE Call(f).columns => told[2] = base'[told[1]] /\ told[2].val = f
               /\ Call(f).op = "delete" =>
                     \A k \in Parent : base'[k] # base[k] => <<k, base[k]>> \in fl[f].told
    <2>1. Commit(f) /\ base' = Current(f) /\ WriteInv
      BY <1>1, CommitTells DEF Commit, ReportInv, ClaimInv
    <2>2. Call(f).ids \subseteq Key /\ \A k \in Key : lock[k] = f => base'[k] = rows[k]
      <3>1. Call(f).ids \subseteq Key
        BY <2>1, CallTyped DEF WriteInv
      <3> QED
        BY <1>1, <2>1, <3>1, AtRow
    <2>3. CASE Call(f).op = "delete"
      <3>1. Told(f) /\ \A k : ~Pending(f, k)
        BY <1>1, <2>3, CommitTells
      <3>2. ASSUME NEW told \in fl[f].told PROVE told[2] = base[told[1]] /\ ~Live(base'[told[1]])
        <4>1. PICK k \in Call(f).ids : told = <<k, AsRead(f, k)>> /\ Removed(f, k)
          BY <3>1 DEF Told
        <4>2. k \in Key /\ lock[k] = f /\ base'[k] = rows[k] /\ ~Live(rows[k])
          BY <2>2, <4>1 DEF Removed
        <4>3. AsRead(f, k) = base[k]
          BY <3>1, <4>2 DEF Told, AsRead
        <4> QED
          BY <4>1, <4>2, <4>3 DEF Live
      <3> QED
        BY <2>1, <2>3, <3>1, <3>2 DEF Told
    <2>4. CASE Call(f).op = "update" /\ Call(f).returning
      <3> SUFFICES ASSUME NEW told \in fl[f].told, Call(f).columns
                   PROVE  told[2] = base'[told[1]] /\ told[2].val = f
        BY <2>4
      <3>1. told[1] \in Call(f).ids /\ Ours(f, told[1]) /\ told[2] = rows[told[1]]
        BY <1>1, <2>4, CommitTells DEF Reported
      <3> QED
        BY <2>2, <3>1 DEF Ours, By
    <2>5. CASE ~Tells(Call(f))
      BY <1>1, <2>5, CommitTells DEF Tells
    <2> QED
      BY <2>3, <2>4, <2>5 DEF Tells
  <1>2. ReportInv /\ [Next]_vars =>
          [\A f \in Flow : Commits(f) =>
              /\ \A told \in fl[f].told :
                    IF Call(f).op = "delete" THEN told[2] = base[told[1]] /\ ~Live(base'[told[1]])
                    ELSE Call(f).columns => told[2] = base'[told[1]] /\ told[2].val = f
              /\ Call(f).op = "delete" =>
                    \A k \in Parent : base'[k] # base[k] => <<k, base[k]>> \in fl[f].told]_vars
    BY <1>1
  <1> QED
    BY <1>2, ReportsStart, ReportsStay, PTL DEF Spec, ReportsAreTrue
-----------------------------------------------------------------------------
(***************************************************************************)
(* A call that replaces a parent's children.  From the statement that       *)
(* deletes those it does not list to its commit no other call brings one:   *)
(* it holds the parents, and a child under a parent that is held stays      *)
(* where it was.                                                            *)
(***************************************************************************)
\* What follows the last statement that writes.
Closing == {"readBack", "hook", "commit"}

\* The call is at some statements, or has them ahead of it.
Comes(todo, s) == \E t \in Seq(Closing) : todo = s \o t
Leads(todo, s) == \E a \in Seq(Opening), t \in Seq(Closing) : todo = a \o (s \o t)

Named == {"begin", "hook", "load", "readBack", "commit", "settle", "find", "found", "insert", "columns", "drop", "save"}

LEMMA ListsNamed ==
    /\ \A a \in Seq(Opening) : a \in Seq(Named)
    /\ \A t \in Seq(Closing) : t \in Seq(Named)
  <1>1. Opening \subseteq Named /\ Closing \subseteq Named
    BY DEF Opening, Closing, Named
  <1> QED
    BY <1>1, SeqMonotonic

LEMMA ComesOn ==
    ASSUME NEW todo, NEW s \in Seq(Named), s # <<>>, Comes(todo, s)
    PROVE  /\ todo # <<>> /\ Head(todo) = Head(s)
           /\ Comes(Tail(todo), Tail(s))
           /\ Tail(s) = <<>> => Tail(todo) \in Seq(Closing)
  <1>1. PICK t \in Seq(Closing) : todo = s \o t
    BY DEF Comes
  <1>2. t \in Seq(Named)
    BY ListsNamed
  <1>3. todo # <<>> /\ Head(todo) = Head(s) /\ Tail(todo) = Tail(s) \o t
    BY <1>1, <1>2, TailOfFront
  <1> QED
    BY <1>3, ConcatEmptySeq DEF Comes

LEMMA LeadsOn ==
    ASSUME NEW todo, NEW s \in Seq(Named), s # <<>>, Leads(todo, s)
    PROVE  /\ todo # <<>>
           /\ \/ Comes(todo, s)
              \/ Head(todo) \in Opening /\ Leads(Tail(todo), s)
  <1>1. PICK a \in Seq(Opening), t \in Seq(Closing) : todo = a \o (s \o t)
    BY DEF Leads
  <1>2. a \in Seq(Named) /\ t \in Seq(Named)
    BY ListsNamed
  <1>3. s \o t \in Seq(Named)
    BY <1>2, ConcatProperties
  <1>4. CASE a = <<>>
    <2>1. todo = s \o t
      BY <1>1, <1>3, <1>4, ConcatEmptySeq
    <2>2. Comes(todo, s)
      BY <2>1 DEF Comes
    <2> QED
      BY <2>2, ComesOn
  <1>5. CASE a # <<>>
    <2>1. todo # <<>> /\ Head(todo) = Head(a) /\ Tail(todo) = Tail(a) \o (s \o t)
      BY <1>1, <1>2, <1>3, <1>5, TailOfFront
    <2>2. Head(a) \in Opening /\ Tail(a) \in Seq(Opening)
      BY <1>5, HeadTailProperties
    <2> QED
      BY <2>1, <2>2 DEF Leads
  <1> QED
    BY <1>4, <1>5

\* How the list of a call is put together.
LEMMA LeadsFirst ==
    ASSUME NEW s \in Seq(Named)
    PROVE  Leads(s, s)
  <1>1. <<>> \in Seq(Opening) /\ <<>> \in Seq(Closing)
    OBVIOUS
  <1>2. <<>> \o (s \o <<>>) = s
    BY ConcatEmptySeq
  <1> QED
    BY <1>1, <1>2 DEF Leads

\* One list before another.
Before(a, b) == a \o b

LEMMA BeforeNamed == \A a, b \in Seq(Named) : Before(a, b) \in Seq(Named)
  BY ConcatProperties DEF Before

LEMMA BeforeAssociates ==
    ASSUME NEW a \in Seq(Named), NEW b \in Seq(Named), NEW d \in Seq(Named)
    PROVE  Before(Before(a, b), d) = Before(a, Before(b, d))
  BY ConcatAssociative DEF Before

LEMMA BeforeFour ==
    ASSUME NEW a \in Seq(Named), NEW b \in Seq(Named), NEW d \in Seq(Named), NEW e \in Seq(Named)
    PROVE  /\ Before(a, Before(b, Before(d, e))) = Before(Before(a, b), Before(d, e))
           /\ Before(Before(a, Before(b, d)), e) = Before(a, Before(b, Before(d, e)))
  <1>1. Before(d, e) \in Seq(Named) /\ Before(b, d) \in Seq(Named)
    BY BeforeNamed
  <1>2. ASSUME NEW x \in Seq(Named) PROVE Before(Before(a, b), x) = Before(a, Before(b, x))
    BY BeforeAssociates
  <1>3. ASSUME NEW x \in Seq(Named) PROVE Before(Before(a, x), e) = Before(a, Before(x, e))
    BY BeforeAssociates
  <1>4. Before(Before(b, d), e) = Before(b, Before(d, e))
    BY BeforeAssociates
  <1>5. Before(Before(a, b), Before(d, e)) = Before(a, Before(b, Before(d, e)))
    BY <1>1, <1>2, Zenon
  <1>6. Before(Before(a, Before(b, d)), e) = Before(a, Before(Before(b, d), e))
    BY <1>1, <1>3, Zenon
  <1> QED
    BY <1>4, <1>5, <1>6, Zenon

LEMMA LeadsOpened ==
    ASSUME NEW u \in Seq(Opening), NEW todo, NEW s \in Seq(Named), Leads(todo, s)
    PROVE  Leads(u \o todo, s)
  <1>1. PICK a \in Seq(Opening), t \in Seq(Closing) : todo = Before(a, Before(s, t))
    BY DEF Leads, Before
  <1>2. u \in Seq(Named) /\ a \in Seq(Named) /\ t \in Seq(Named)
    BY ListsNamed
  <1>3. Before(u, a) \in Seq(Opening)
    BY ConcatProperties DEF Before
  <1>4. Before(u, Before(a, Before(s, t))) = Before(Before(u, a), Before(s, t))
    BY <1>2, BeforeFour
  <1> QED
    BY <1>1, <1>3, <1>4 DEF Leads, Before

LEMMA LeadsFollowed ==
    ASSUME NEW u \in Seq(Closing), NEW todo, NEW s \in Seq(Named), Leads(todo, s)
    PROVE  Leads(todo \o u, s)
  <1>1. PICK a \in Seq(Opening), t \in Seq(Closing) : todo = Before(a, Before(s, t))
    BY DEF Leads, Before
  <1>2. u \in Seq(Named) /\ a \in Seq(Named) /\ t \in Seq(Named)
    BY ListsNamed
  <1>3. Before(t, u) \in Seq(Closing)
    BY ConcatProperties DEF Before
  <1>4. Before(Before(a, Before(s, t)), u) = Before(a, Before(s, Before(t, u)))
    BY <1>2, BeforeFour
  <1> QED
    BY <1>1, <1>3, <1>4 DEF Leads, Before

LEMMA LeadsWrapped ==
    ASSUME NEW todo, NEW s \in Seq(Named), Leads(todo, s)
    PROVE  /\ Leads(Hooked(todo), s)
           /\ \A c, inside : Leads(Atomically(c, inside, todo), s)
  <1>1. /\ <<"hook">> \in Seq(Opening) /\ <<"hook">> \in Seq(Closing)
        /\ <<"begin">> \in Seq(Opening) /\ <<"commit">> \in Seq(Closing)
    BY DEF Opening, Closing
  <1>2. Leads(<<"hook">> \o todo, s) /\ Leads(<<"begin">> \o todo, s)
    BY <1>1, LeadsOpened
  <1>3. Leads((<<"hook">> \o todo) \o <<"hook">>, s) /\ Leads((<<"begin">> \o todo) \o <<"commit">>, s)
    BY <1>1, <1>2, LeadsFollowed
  <1> QED
    BY <1>3 DEF Hooked, Atomically

\* The statement a call replaces children from.
Starts(c) == IF c.op = "update" THEN <<"settle">> ELSE IF c.op = "upsert" THEN <<"find">> ELSE <<"insert", "save">>
Replaces(c) == c.list # None /\ c.op \in {"update", "upsert", "insert"}

LEMMA StepsNamed ==
    /\ <<"settle">> \in Seq(Named) /\ <<"find">> \in Seq(Named) /\ <<"insert", "save">> \in Seq(Named)
    /\ <<"found">> \in Seq(Named) /\ <<"save">> \in Seq(Named) /\ <<"drop", "save">> \in Seq(Named)
    /\ <<"columns", "drop", "save">> \in Seq(Named)
  BY DEF Named

LEMMA ReplaceStarts ==
    ASSUME NEW c, Replaces(c), plan.versioned => c.op # "update"
    PROVE  Leads(Program(c), Starts(c))
  <1> DEFINE reading == IF plan.versioned /\ c.op \in {"update", "upsert"} THEN <<"load">> ELSE <<>>
             s == Starts(c)
  <1>1. s \in Seq(Named)
    BY StepsNamed DEF Starts
  <1>2. Leads(CallBody(c), s)
    <2>1. CASE c.op = "update"
      <3>1. CallBody(c) = UpdateWhere(c) /\ s = <<"settle">>
        BY <2>1 DEF CallBody, Starts
      <3>2. Leads(<<"settle">>, s)
        BY <1>1, <3>1, LeadsFirst
      <3>3. Leads(<<"settle", "readBack">>, s)
        <4>1. <<"settle", "readBack">> = <<"settle">> \o <<"readBack">>
          BY Pair
        <4>2. <<"readBack">> \in Seq(Closing)
          BY DEF Closing
        <4> QED
          BY <1>1, <3>2, <4>1, <4>2, LeadsFollowed
      <3>4. \A inside : UpdateRows(c, inside) = Atomically(c, inside, <<"settle">>)
        BY <2>1 DEF UpdateRows, SettlesWrite, WritesRelations, Replaces
      <3>5. Leads(UpdateRows(c, TRUE), s)
        BY <1>1, <3>2, <3>4, LeadsWrapped
      <3> QED
        BY <1>1, <2>1, <3>1, <3>3, <3>5, LeadsWrapped DEF UpdateWhere, WritesRelations, Replaces
    <2>2. CASE c.op = "upsert"
      <3>1. CallBody(c) = Hooked(Atomically(c, FALSE, <<"find">>)) /\ s = <<"find">>
        BY <2>2 DEF CallBody, Starts, UpsertMany, UpsertsByReading, WritesRelations, Replaces
      <3> QED
        BY <1>1, <3>1, LeadsFirst, LeadsWrapped
    <2>3. CASE c.op = "insert"
      <3>1. CallBody(c) = Atomically(c, FALSE, Hooked(<<"insert", "save">>)) /\ s = <<"insert", "save">>
        BY <2>3 DEF CallBody, Starts, InsertMany, WritesRelations, Replaces
      <3> QED
        BY <1>1, <3>1, LeadsFirst, LeadsWrapped
    <2> QED
      BY <2>1, <2>2, <2>3 DEF Replaces
  <1>3. reading \in Seq(Opening) /\ <<"begin">> \in Seq(Opening) /\ <<"commit">> \in Seq(Closing)
    <2>1. "begin" \in Opening /\ (plan.versioned => "load" \in Opening)
      BY DEF Opening
    <2>2. <<"commit">> \in Seq(Closing)
      BY DEF Closing
    <2> QED
      BY <2>1, <2>2, InListsOfOne
  <1>4. Program(c) = IF c.outer THEN ((<<"begin">> \o reading) \o CallBody(c)) \o <<"commit">>
                     ELSE reading \o CallBody(c)
    BY DEF Program
  <1> HIDE DEF reading, s
  <1>5. <<"begin">> \o reading \in Seq(Opening)
    BY <1>3, ConcatProperties
  <1>6. Leads((<<"begin">> \o reading) \o CallBody(c), s) /\ Leads(reading \o CallBody(c), s)
    BY <1>1, <1>2, <1>3, <1>5, LeadsOpened
  <1>7. Leads(((<<"begin">> \o reading) \o CallBody(c)) \o <<"commit">>, s)
    BY <1>1, <1>3, <1>6, LeadsFollowed
  <1> QED
    BY <1>4, <1>6, <1>7 DEF s
-----------------------------------------------------------------------------
\* A child under a row another flow has for itself is where it was, and not taken back out of its deletion.
Unmoved ==
    \A f, g \in Flow, p \in Parent, c \in Child :
        f # g /\ lock[p] = f /\ lock[c] = g /\ rows[c] # None /\ rows[c].par = p
        => base[c] # None /\ base[c].par = p /\ (base[c].del => rows[c].del)

\* No child is left without its parent, as committed and as each flow sees it.
Referred(table) == \A c \in Child : table[c] # None /\ table[c].par # None => table[table[c].par] # None
Owned == Referred(base) /\ \A f \in Flow : Referred(Current(f))

\* What a statement leaves of a child: gone, where it was, or under a parent that is there and that it has for itself.
ChildLeft(h, c, row) ==
    \/ row = None
    \/ Current(h)[c] # None /\ row.par = Current(h)[c].par /\ (Current(h)[c].del => row.del)
    \/ row.par \in Needs(h) /\ Current(h)[row.par] # None
Changed(k) == rows'[k] # rows[k] \/ base'[k] # base[k]

\* What a statement leaves of the family: children as above; no parent gone, but one that has no children.
FamilyLeft(h) ==
    /\ \A c \in Child : Changed(c) => ChildLeft(h, c, rows'[c])
    /\ \/ \A p \in Parent : Changed(p) => rows'[p] # None
       \/ /\ \A c \in Child : ~Changed(c)
          /\ \A p \in Parent : Changed(p) => ChildrenOf(Current(h), {p}) = {}

LEMMA WritesLeaveFamily ==
    ASSUME NEW h, NEW kept, NEW new, Writes(h, kept, new),
           \A c \in Child : c \in DOMAIN new => ChildLeft(h, c, new[c]),
           \/ \A p \in Parent : p \in DOMAIN new => new[p] # None
           \/ /\ DOMAIN new \cap Child = {}
              /\ \A p \in Parent : p \in DOMAIN new => ChildrenOf(Current(h), {p}) = {}
    PROVE  FamilyLeft(h)
  <1>1. \A k \in Key : /\ rows'[k] = IF k \in DOMAIN new THEN new[k] ELSE rows[k]
                       /\ base'[k] = base[k] \/ (k \in DOMAIN new /\ base'[k] = new[k])
    BY Zenon DEF Writes, Sends, Put
  <1>2. \A k \in Key : Changed(k) => k \in DOMAIN new /\ rows'[k] = new[k]
    BY <1>1 DEF Changed
  <1>3. Child \subseteq Key /\ Parent \subseteq Key
    BY DEF Key
  <1>4. \A c \in Child : Changed(c) => ChildLeft(h, c, rows'[c])
    BY <1>2, <1>3
  <1>5. (\A p \in Parent : p \in DOMAIN new => new[p] # None) => \A p \in Parent : Changed(p) => rows'[p] # None
    BY <1>2, <1>3
  <1> QED
    BY <1>2, <1>3, <1>4, <1>5 DEF FamilyLeft

LEMMA ParentsTouched ==
    ASSUME NEW f \in Flow, NEW row \in Row
    PROVE  Touched(f, row) # None /\ Bumped(f, row) # None
  BY MarkedRow, KeyAssumption DEF Touched, Row

LEMMA FreshIsRow ==
    ASSUME WriteInv, NEW f \in Flow, NEW k \in Call(f).ids
    PROVE  Fresh(f, k) \in Row
  <1>1. fl[f].seen[k] \in Row \cup {None}
    BY DEF WriteInv, Keeps
  <1> QED
    BY <1>1 DEF Fresh, Row

LEMMA FamilyChange ==
    ASSUME WriteInv, NEW h \in Flow, Statement(h)
    PROVE  FamilyLeft(h)
  <1> DEFINE goal == FamilyLeft(h)
  <1> SUFFICES goal
    OBVIOUS
  <1>1. fl[h].todo # <<>>
    BY StatementStarts
  <1>2. \A why : Throw(h, why) => goal
    BY DEF Throw, store, FamilyLeft, Changed
  <1>3. \A kept, locked : Sends(h, kept, <<>>, locked) => goal
    <2> SUFFICES ASSUME NEW kept, NEW locked, Sends(h, kept, <<>>, locked) PROVE goal
      OBVIOUS
    <2>1. \A k \in Key : rows'[k] = rows[k] /\ base'[k] = base[k]
      <3>1. DOMAIN <<>> = {}
        OBVIOUS
      <3> QED
        BY <3>1 DEF Sends, Put
    <2> QED
      BY <2>1 DEF Key, FamilyLeft, Changed
  <1>4. \A kept, held : Reads(h, kept, held) => goal
    BY <1>3 DEF Reads
  <1>5. ASSUME NEW kept, NEW new, Writes(h, kept, new), DOMAIN new \cap Child = {},
               \A p \in Parent : p \in DOMAIN new => new[p] # None
        PROVE  goal
    BY <1>5, WritesLeaveFamily
  <1>6. ASSUME NEW kept, NEW new, Writes(h, kept, new), DOMAIN new \cap Parent = {},
               \A c \in Child : c \in DOMAIN new => ChildLeft(h, c, new[c])
        PROVE  goal
    BY <1>6, WritesLeaveFamily
  <1>7. /\ Current(h) \in [Key -> Row \cup {None}]
        /\ Call(h).ids \subseteq Parent /\ (Call(h).list = None \/ Call(h).list \subseteq Child)
        /\ Child \cap Parent = {} /\ Parent \subseteq Key /\ Child \subseteq Key /\ None \notin Row
    BY AtRow, CallTyped, KeyAssumption DEF WriteInv, Key
  <1>8. Batch(h) \subseteq Call(h).ids
    <2>1. fl[h].queue \in Seq(SUBSET Call(h).ids)
      BY DEF WriteInv, Keeps
    <2> QED
      BY <2>1, QueuePops DEF Batch
  <1> HIDE DEF goal
  <1>9. CASE Load(h) \/ ReadBack(h)
    BY <1>3, <1>9 DEF Load, ReadBack
  <1>10. CASE Settle(h) \/ ReadThenUpsert(h) \/ Doom(h)
    BY <1>4, <1>10 DEF Settle, ReadThenUpsert, Doom
  <1>11. CASE ThrowStaleVersion(h)
    BY <1>2, <1>3, <1>11 DEF ThrowStaleVersion
  <1>12. ASSUME NEW kept, NEW ks, ks \subseteq Call(h).ids, \A k \in ks : Current(h)[k] # None,
                Writes(h, kept, [k \in ks |-> Touched(h, Current(h)[k])])
         PROVE  goal
    <2> DEFINE new == [k \in ks |-> Touched(h, Current(h)[k])]
    <2>1. DOMAIN new = ks /\ \A k \in ks : new[k] = Touched(h, Current(h)[k])
      OBVIOUS
    <2>2. \A k \in ks : Touched(h, Current(h)[k]) # None
      BY <1>7, <1>12, ParentsTouched
    <2>3. Writes(h, kept, new)
      BY <1>12
    <2> HIDE DEF new
    <2> QED
      BY <1>5, <1>7, <1>12, <2>1, <2>2, <2>3
  <1>13. ASSUME NEW k \in Call(h).ids, WriteAtVersion(h, k) PROVE goal
    <2>1. CASE LockVersion(h, k)
      <3> DEFINE new == [j \in {k} |-> Bumped(h, Current(h)[j])]
      <3>1. PICK kept : Writes(h, kept, new)
        BY <1>13, <2>1 DEF WriteAtVersion
      <3>2. Current(h)[k] \in Row
        BY <1>7, <2>1 DEF LockVersion
      <3>3. Bumped(h, Current(h)[k]) # None
        BY <3>2, ParentsTouched
      <3>4. DOMAIN new = {k} /\ new[k] = Bumped(h, Current(h)[k])
        OBVIOUS
      <3> HIDE DEF new
      <3> QED
        BY <1>5, <1>7, <3>1, <3>3, <3>4
    <2>2. CASE ~LockVersion(h, k)
      <3>1. DOMAIN <<>> = {}
        OBVIOUS
      <3>2. PICK kept : Writes(h, kept, <<>>)
        BY <1>13, <2>2 DEF WriteAtVersion
      <3> QED
        BY <1>5, <3>1, <3>2
    <2> QED
      BY <2>1, <2>2
  <1>14. CASE Match(h)
    BY <1>13, <1>14 DEF Match
  <1>15. CASE Found(h)
    <2>1. \/ \E k \in Call(h).ids : WriteAtVersion(h, k)
          \/ Throw(h, "unversioned")
          \/ /\ ~plan.versioned
             /\ \E kept : Writes(h, kept, [j \in FoundRows(h) |-> Touched(h, Current(h)[j])])
      BY <1>8, <1>15 DEF Found
    <2>2. ~plan.versioned => FoundRows(h) \subseteq Call(h).ids /\ \A k \in FoundRows(h) : Current(h)[k] # None
      BY <1>8 DEF FoundRows, Asked
    <2> QED
      BY <1>2, <1>12, <1>13, <2>1, <2>2
  <1>16. CASE DropUnlisted(h)
    <2> DEFINE new == [c \in Unlisted(h) |-> IF plan.childSoft THEN [Current(h)[c] EXCEPT !.del = TRUE] ELSE None]
    <2>1. Writes(h, Goes(h), new) /\ DOMAIN new = Unlisted(h)
      BY <1>16 DEF DropUnlisted
    <2>2. Unlisted(h) \subseteq Child /\ \A c \in Unlisted(h) : Current(h)[c] \in Row
      BY <1>7 DEF Unlisted, ChildrenOf
    <2>3. ASSUME NEW c \in Unlisted(h) PROVE ChildLeft(h, c, new[c])
      <3>1. CASE plan.childSoft
        <4>1. new[c] = [Current(h)[c] EXCEPT !.del = TRUE]
          BY <3>1
        <4>2. [Current(h)[c] EXCEPT !.del = TRUE].par = Current(h)[c].par /\ [Current(h)[c] EXCEPT !.del = TRUE].del = TRUE
          BY <2>2 DEF Row
        <4> QED
          BY <1>7, <2>2, <4>1, <4>2 DEF ChildLeft
      <3>2. CASE ~plan.childSoft
        BY <3>2 DEF ChildLeft
      <3> QED
        BY <3>1, <3>2
    <2> HIDE DEF new
    <2> QED
      BY <1>6, <1>7, <2>1, <2>2, <2>3
  <1>17. CASE SaveChildren(h)
    <2> DEFINE owner == CHOOSE p \in Owners(h) : TRUE
               now == Current(h)
               list == Call(h).list
               new == [c \in list |-> [val |-> h, ver |-> 1, par |-> owner, del |-> now[c] # None /\ now[c].del]]
    <2>1. \/ \E why : Throw(h, why)
          \/ Writes(h, Goes(h), new) /\ now[owner] # None
      BY <1>17 DEF SaveChildren
    <2>2. "save" \in Alone /\ At(h, "save")
      BY <1>17 DEF Alone, SaveChildren, Ready
    <2>3. list # None /\ Call(h).ids # {}
      BY <2>2, IsSending
    <2>4. owner \in Owners(h)
      BY <2>3 DEF Owners
    <2>5. owner \in Needs(h)
      <3>1. Needs(h) = Written(Call(h).list \cup Owners(h))
        BY <1>1, <2>2, NeedsAt DEF At
      <3>2. Owners(h) \subseteq Key
        BY <1>7 DEF Owners, WriteInv, Keeps
      <3> QED
        BY <2>4, <3>1, <3>2 DEF Written
    <2>6. DOMAIN new = list /\ \A c \in list : new[c].par = owner
      OBVIOUS
    <2> HIDE DEF new, owner
    <2>7. now[owner] # None => \A c \in list : ChildLeft(h, c, new[c])
      BY <2>5, <2>6 DEF ChildLeft
    <2> QED
      BY <1>2, <1>6, <1>7, <2>1, <2>3, <2>6, <2>7
  <1>18. CASE DeleteChildren(h)
    <2> DEFINE hit == ChildrenOf(Current(h), Batch(h))
               new == [c \in hit |-> Gone(h, c)]
    <2>1. Writes(h, Goes(h), new) /\ DOMAIN new = hit
      BY <1>18 DEF DeleteChildren
    <2>2. hit \subseteq Child /\ \A c \in hit : Current(h)[c] \in Row
      BY <1>7 DEF ChildrenOf
    <2>3. ASSUME NEW c \in hit PROVE ChildLeft(h, c, new[c])
      <3>1. CASE ~Call(h).hard
        <4>1. new[c] = [Current(h)[c] EXCEPT !.del = TRUE]
          BY <3>1 DEF Gone
        <4>2. [Current(h)[c] EXCEPT !.del = TRUE].par = Current(h)[c].par /\ [Current(h)[c] EXCEPT !.del = TRUE].del = TRUE
          BY <2>2 DEF Row
        <4> QED
          BY <1>7, <2>2, <4>1, <4>2 DEF ChildLeft
      <3>2. CASE Call(h).hard
        BY <3>2 DEF ChildLeft, Gone
      <3> QED
        BY <3>1, <3>2
    <2> HIDE DEF new, hit
    <2> QED
      BY <1>6, <1>7, <2>1, <2>2, <2>3
  <1>19. CASE InsertRows(h)
    <2> DEFINE new == [k \in Missing(h) |-> Fresh(h, k)]
    <2>1. (\E why : Throw(h, why)) \/ Writes(h, Goes(h), new)
      BY <1>19 DEF InsertRows
    <2>2. Missing(h) \subseteq Call(h).ids
      BY DEF Missing
    <2>3. \A k \in Call(h).ids : Fresh(h, k) \in Row
      BY FreshIsRow
    <2>4. DOMAIN new = Missing(h) /\ \A k \in Missing(h) : new[k] = Fresh(h, k)
      OBVIOUS
    <2> HIDE DEF new
    <2> QED
      BY <1>2, <1>5, <1>7, <2>1, <2>2, <2>3, <2>4
  <1>20. CASE InternalDelete(h)
    <2> DEFINE batch == {k \in Batch(h) : Current(h)[k] # None /\ (Call(h).hard \/ ~Current(h)[k].del)}
               new == [k \in batch |-> Gone(h, k)]
    <2>1. \/ \E why : Throw(h, why)
          \/ (Call(h).hard => ChildrenOf(Current(h), batch) = {}) /\ (\E kept : Writes(h, kept, new))
      BY <1>20 DEF InternalDelete
    <2>2. batch \subseteq Parent /\ batch \cap Child = {} /\ \A k \in batch : Current(h)[k] \in Row
      BY <1>7, <1>8
    <2>3. DOMAIN new = batch /\ \A k \in batch : new[k] = Gone(h, k)
      OBVIOUS
    <2>4. ~Call(h).hard => \A k \in batch : Gone(h, k) # None
      BY <1>7, <2>2 DEF Gone, Row
    <2>5. ChildrenOf(Current(h), batch) = {} => \A p \in batch : ChildrenOf(Current(h), {p}) = {}
      BY DEF ChildrenOf
    <2> HIDE DEF new, batch
    <2>6. ASSUME NEW kept, Writes(h, kept, new), Call(h).hard, ChildrenOf(Current(h), batch) = {} PROVE goal
      BY <2>2, <2>3, <2>5, <2>6, WritesLeaveFamily DEF goal
    <2>7. ASSUME NEW kept, Writes(h, kept, new), ~Call(h).hard PROVE goal
      BY <1>5, <2>2, <2>3, <2>4, <2>7
    <2> QED
      BY <1>2, <2>1, <2>6, <2>7
  <1>21. CASE Restore(h)
    <2> DEFINE new == [k \in Restorable(h) |-> [Current(h)[k] EXCEPT !.del = FALSE]]
    <2>1. Writes(h, Goes(h), new)
      BY <1>21 DEF Restore
    <2>2. Restorable(h) \subseteq Call(h).ids /\ \A k \in Restorable(h) : Current(h)[k] \in Row
      BY <1>7 DEF Restorable
    <2>3. \A k \in Restorable(h) : [Current(h)[k] EXCEPT !.del = FALSE] # None
      BY <1>7, <2>2 DEF Row
    <2>4. DOMAIN new = Restorable(h) /\ \A k \in Restorable(h) : new[k] = [Current(h)[k] EXCEPT !.del = FALSE]
      OBVIOUS
    <2> HIDE DEF new
    <2> QED
      BY <1>5, <1>7, <2>1, <2>2, <2>3, <2>4
  <1>22. CASE Where(h)
    <2>1. \E kept : Writes(h, kept, [k \in Filtered(h, Current(h)) |-> Touched(h, Current(h)[k])])
      BY <1>22 DEF Where
    <2>2. Filtered(h, Current(h)) \subseteq Call(h).ids /\ \A k \in Filtered(h, Current(h)) : Current(h)[k] # None
      BY DEF Filtered, Matches, Asked
    <2> QED
      BY <1>12, <2>1, <2>2
  <1>23. CASE Columns(h)
    <2>1. \E kept : Writes(h, kept, [k \in Updatable(h, Batch(h)) |-> Touched(h, Current(h)[k])])
      BY <1>23 DEF Columns
    <2>2. Updatable(h, Batch(h)) \subseteq Call(h).ids /\ \A k \in Updatable(h, Batch(h)) : Current(h)[k] # None
      BY <1>8 DEF Updatable
    <2> QED
      BY <1>12, <2>1, <2>2
  <1>24. CASE Merge(h)
    <2> DEFINE now == Current(h)
               hit == {k \in Call(h).ids : now[k] = None \/ (Call(h).cond => now[k].val = Seed)}
               new == [k \in hit |-> IF now[k] = None THEN Fresh(h, k) ELSE Touched(h, now[k])]
    <2>1. Writes(h, Goes(h), new)
      BY <1>24 DEF Merge
    <2>2. \A k \in Call(h).ids : Fresh(h, k) \in Row
      BY FreshIsRow
    <2>3. hit \subseteq Call(h).ids /\ \A k \in hit : now[k] = None \/ now[k] \in Row
      BY <1>7
    <2>4. DOMAIN new = hit /\ \A k \in hit : new[k] = IF now[k] = None THEN Fresh(h, k) ELSE Touched(h, now[k])
      OBVIOUS
    <2>5. \A k \in hit : now[k] \in Row => Touched(h, now[k]) # None
      BY ParentsTouched
    <2> HIDE DEF new, hit, now
    <2>6. \A k \in hit : new[k] # None
      BY <1>7, <2>2, <2>3, <2>4, <2>5
    <2> QED
      BY <1>5, <1>7, <2>1, <2>3, <2>4, <2>6
  <1> QED
    BY <1>9, <1>10, <1>11, <1>14, <1>15, <1>16, <1>17, <1>18, <1>19, <1>20, <1>21, <1>22, <1>23, <1>24 DEF Statement

\* What a step does to the rows, and of which statement: as `StepKinds`.
LEMMA FamilyKinds ==
    ASSUME WriteInv, NEW h \in Flow, Write(h)
    PROVE  \/ Statement(h) /\ Passing(h)
           \/ Begin(h) \/ Commit(h) \/ Rollback(h)
           \/ rows' = rows /\ base' = base /\ lock' = lock
  <1>1. CASE Statement(h)
    BY <1>1, StatementPasses DEF Throwing, Throw, store
  <1>2. CASE Hook(h) \/ HookThrows(h) \/ Refused(h) \/ Deadlocked(h) \/ Racer(h)
    BY <1>2 DEF Hook, HookThrows, Refused, Deadlocked, Racer, Throw, store
  <1> QED
    BY <1>1, <1>2 DEF Write, Proceeds

\* A statement that goes through has what it needs for itself, and its flow sees what it wrote.
LEMMA FamilyStep ==
    ASSUME WriteInv, NEW h \in Flow, Passing(h), NEW k \in Key
    PROVE  /\ lock'[k] = lock[k] \/ (fl[h].inTx /\ lock[k] = None /\ lock'[k] = h /\ k \in Needs(h))
           /\ k \in Needs(h) => lock[k] \in {None, h} /\ \A g \in Flow : g # h => ~Holds(g, k)
           /\ Changed(k) => /\ k \in Needs(h)
                            /\ fl[h].inTx => lock'[k] = h /\ base'[k] = base[k]
                            /\ ~fl[h].inTx => lock[k] = None /\ lock'[k] = None /\ base'[k] = rows'[k]
           /\ Current(h)'[k] = IF Changed(k) THEN rows'[k] ELSE Current(h)[k]
           /\ ~fl[h].inTx => base'[k] = Current(h)'[k]
  <1>1. PICK kept, new, locked : Passes(h, kept, new, locked)
    BY DEF Passing
  <1>2. PassesInto(h, new, locked)
    BY <1>1, PassesIntoTables
  <1>3. /\ rows'[k] = IF k \in DOMAIN new THEN new[k] ELSE rows[k]
        /\ base'[k] = IF ~fl[h].inTx /\ k \in DOMAIN new THEN new[k] ELSE base[k]
        /\ lock'[k] = IF fl[h].inTx /\ k \in locked THEN h ELSE lock[k]
        /\ k \in Needs(h) => lock[k] \in {None, h}
        /\ \A g \in Flow : g # h /\ k \in Needs(h) => ~Holds(g, k)
        /\ k \in DOMAIN new => k \in Needs(h)
        /\ locked \subseteq Needs(h) /\ (fl[h].inTx => DOMAIN new \subseteq locked)
    BY <1>2 DEF PassesInto
  <1>4. /\ Current(h)[k] = IF lock[k] = h THEN rows[k] ELSE base[k]
        /\ Current(h)'[k] = IF lock'[k] = h THEN rows'[k] ELSE base'[k]
    BY DEF Current
  <1>5. /\ lock[k] = None => rows[k] = base[k]
        /\ ~fl[h].inTx => lock[k] # h
        /\ h # None
    BY WriterAssumption DEF WriteInv, Tables
  <1>6. Changed(k) => k \in DOMAIN new
    BY <1>3 DEF Changed
  <1>7. CASE k \in DOMAIN new
    BY <1>3, <1>4, <1>5, <1>6, <1>7 DEF Changed
  <1>8. CASE k \notin DOMAIN new
    BY <1>3, <1>4, <1>5, <1>6, <1>8
  <1> QED
    BY <1>7, <1>8

LEMMA UnmovedStays ==
    ASSUME WriteInv, Unmoved, NEW h \in Flow, Write(h)
    PROVE  Unmoved'
  <1> SUFFICES ASSUME NEW f \in Flow, NEW g \in Flow, NEW p \in Parent, NEW c \in Child,
                      f # g, lock'[p] = f, lock'[c] = g, rows'[c] # None, rows'[c].par = p
               PROVE  base'[c] # None /\ base'[c].par = p /\ (base'[c].del => rows'[c].del)
    BY DEF Unmoved
  <1>1. f # None /\ g # None /\ h # None /\ p \in Key /\ c \in Key /\ p # None
    BY WriterAssumption, KeyAssumption DEF Key
  <1>2. lock[p] = f /\ lock[c] = g /\ rows[c] # None /\ rows[c].par = p
        => base[c] # None /\ base[c].par = p /\ (base[c].del => rows[c].del)
    BY DEF Unmoved
  <1>3. /\ lock[c] # None => fl[lock[c]].inTx
        /\ lock[c] = None => rows[c] = base[c]
    BY <1>1 DEF WriteInv, Tables
  <1>4. CASE Statement(h) /\ Passing(h)
    <2>1. CASE Changed(c)
      <3>1. g = h /\ lock'[c] = h /\ base'[c] = base[c] /\ lock[c] \in {None, h}
        BY <1>1, <1>4, <2>1, FamilyStep
      <3>2. lock[p] = f /\ p \notin Needs(h)
        BY <1>1, <1>4, <3>1, FamilyStep
      <3>3. ChildLeft(h, c, rows'[c])
        BY <1>4, <2>1, FamilyChange DEF FamilyLeft
      <3>4. Current(h)[c] # None /\ Current(h)[c].par = p /\ (Current(h)[c].del => rows'[c].del)
        BY <3>2, <3>3 DEF ChildLeft
      <3>5. Current(h)[c] = IF lock[c] = h THEN rows[c] ELSE base[c]
        BY <1>1, AtRow
      <3> QED
        BY <1>2, <3>1, <3>2, <3>4, <3>5
    <2>2. CASE ~Changed(c)
      <3>1. rows'[c] = rows[c] /\ base'[c] = base[c]
        BY <2>2 DEF Changed
      <3>2. CASE lock[c] # g
        BY <1>1, <1>3, <1>4, <3>1, <3>2, FamilyStep
      <3>3. CASE lock[c] = g /\ lock[p] = f
        BY <1>2, <3>1, <3>3
      <3>4. CASE lock[c] = g /\ lock[p] # f
        <4>1. f = h /\ p \in Needs(h)
          BY <1>1, <1>4, <3>4, FamilyStep
        <4>2. ~Holds(g, p)
          BY <1>1, <1>4, <4>1, FamilyStep
        <4> QED
          BY <3>1, <3>4, <4>2 DEF Holds
      <3> QED
        BY <3>2, <3>3, <3>4
    <2> QED
      BY <2>1, <2>2
  <1>5. CASE Begin(h)
    BY <1>1, <1>2, <1>5 DEF Begin
  <1>6. CASE Commit(h)
    <2>1. lock[c] = g /\ g # h /\ lock[p] = f /\ rows'[c] = rows[c] /\ base' = Current(h)
      BY <1>1, <1>6 DEF Commit
    <2> QED
      BY <1>1, <1>2, <2>1, AtRow
  <1>7. CASE Rollback(h)
    <2>1. lock[c] = g /\ g # h /\ lock[p] = f /\ rows'[c] = rows[c] /\ base' = base
      BY <1>1, <1>7 DEF Rollback
    <2> QED
      BY <1>2, <2>1
  <1>8. CASE rows' = rows /\ base' = base /\ lock' = lock
    BY <1>2, <1>8
  <1> QED
    BY <1>4, <1>5, <1>6, <1>7, <1>8, FamilyKinds

\* Nobody commits a child under a row that is held, nor brings one back there.
LEMMA ChildStays ==
    ASSUME WriteInv, Unmoved, NEW h \in Flow, Write(h), NEW g \in Flow \ {h}, NEW p \in Parent, lock[p] = g,
           NEW c \in Child, lock[c] # g, base'[c] # None, base'[c].par = p
    PROVE  base[c] # None /\ base[c].par = p /\ (base[c].del => base'[c].del)
  <1>1. g # None /\ h # None /\ p \in Key /\ c \in Key /\ p # None
    BY WriterAssumption, KeyAssumption DEF Key
  <1>2. Current(h)[c] = IF lock[c] = h THEN rows[c] ELSE base[c]
    BY <1>1, AtRow
  <1>3. CASE base' = base
    BY <1>3
  <1>4. CASE Statement(h) /\ Passing(h) /\ Changed(c)
    <2>1. CASE fl[h].inTx
      BY <1>1, <1>4, <2>1, FamilyStep
    <2>2. CASE ~fl[h].inTx
      <3>1. lock[c] = None /\ base'[c] = rows'[c] /\ p \notin Needs(h)
        BY <1>1, <1>4, <2>2, FamilyStep
      <3>2. ChildLeft(h, c, rows'[c])
        BY <1>4, FamilyChange DEF FamilyLeft
      <3> QED
        BY <1>1, <1>2, <3>1, <3>2 DEF ChildLeft
    <2> QED
      BY <2>1, <2>2
  <1>5. CASE Statement(h) /\ Passing(h) /\ ~Changed(c)
    BY <1>5 DEF Changed
  <1>6. CASE Commit(h)
    <2>1. base'[c] = Current(h)[c]
      BY <1>6 DEF Commit
    <2>2. CASE lock[c] = h
      <3>1. rows[c] # None /\ rows[c].par = p /\ base'[c] = rows[c]
        BY <1>2, <2>1, <2>2
      <3> QED
        BY <2>2, <3>1 DEF Unmoved
    <2> QED
      BY <1>2, <2>1, <2>2
  <1> QED
    BY <1>3, <1>4, <1>5, <1>6, FamilyKinds DEF Begin, Rollback

\* A flow's own step leaves no child it sees without its parent.
LEMMA OwnReferred ==
    ASSUME WriteInv, Owned, NEW h \in Flow, Write(h)
    PROVE  Referred(Current(h)')
  <1>1. \A k \in Key : Current(h)'[k] = IF lock'[k] = h THEN rows'[k] ELSE base'[k]
    BY DEF Current
  <1>2. \A k \in Key : Current(h)[k] = IF lock[k] = h THEN rows[k] ELSE base[k]
    BY AtRow
  <1>3. /\ Child \subseteq Key /\ Parent \subseteq Key
        /\ \A c \in Child : Current(h)[c] # None => Current(h)[c].par \in Parent \cup {None}
        /\ \A k \in Key : lock[k] = None => rows[k] = base[k]
        /\ h # None /\ Referred(base) /\ Referred(Current(h))
    BY AtRow, WriterAssumption DEF Key, Row, WriteInv, Tables, Owned
  <1>4. \A c \in Child : base[c] # None => base[c].par \in Parent \cup {None}
    BY <1>3 DEF WriteInv, Tables, Row
  <1>5. CASE \A k \in Key : Current(h)'[k] = Current(h)[k]
    BY <1>3, <1>5 DEF Referred
  <1>6. CASE \A k \in Key : Current(h)'[k] = base[k]
    BY <1>3, <1>4, <1>6 DEF Referred
  <1>7. CASE Statement(h) /\ Passing(h)
    <2> SUFFICES ASSUME NEW c \in Child, Current(h)'[c] # None, Current(h)'[c].par # None
                 PROVE  Current(h)'[Current(h)'[c].par] # None
      BY DEF Referred
    <2> DEFINE p == Current(h)'[c].par
    <2>1. FamilyLeft(h)
      BY <1>7, FamilyChange
    <2>2. \A k \in Key : Current(h)'[k] = IF Changed(k) THEN rows'[k] ELSE Current(h)[k]
      BY <1>7, FamilyStep
    <2>3. p \in Parent
      <3>1. Current(h)'[c] \in Row \cup {None}
        <4>1. WriteInv'
          BY NextKeeps DEF Next
        <4>2. rows' \in [Key -> Row \cup {None}] /\ base' \in [Key -> Row \cup {None}]
          BY <4>1 DEF WriteInv, Tables
        <4> QED
          BY <1>1, <1>3, <4>2
      <3> QED
        BY <3>1 DEF Row
    <2>4. Current(h)[p] # None
      <3>1. CASE Changed(c)
        <4>1. ChildLeft(h, c, rows'[c]) /\ Current(h)'[c] = rows'[c]
          BY <1>3, <2>1, <2>2, <3>1 DEF FamilyLeft
        <4> QED
          BY <1>3, <4>1 DEF ChildLeft, Referred
      <3>2. CASE ~Changed(c)
        <4>1. Current(h)'[c] = Current(h)[c]
          BY <1>3, <2>2, <3>2
        <4> QED
          BY <1>3, <4>1 DEF Referred
      <3> QED
        BY <3>1, <3>2
    <2>5. CASE ~Changed(p)
      BY <1>3, <2>2, <2>3, <2>4, <2>5
    <2>6. CASE Changed(p)
      <3>1. Current(h)'[p] = rows'[p]
        BY <1>3, <2>2, <2>3, <2>6
      <3>2. CASE rows'[p] # None
        BY <3>1, <3>2
      <3>3. CASE rows'[p] = None
        <4>1. ~Changed(c) /\ ChildrenOf(Current(h), {p}) = {}
          BY <2>1, <2>3, <2>6, <3>3 DEF FamilyLeft
        <4>2. Current(h)'[c] = Current(h)[c]
          BY <1>3, <2>2, <4>1
        <4>3. c \in ChildrenOf(Current(h), {p})
          BY <4>2 DEF ChildrenOf
        <4> QED
          BY <4>1, <4>3
      <3> QED
        BY <3>2, <3>3
    <2> QED
      BY <2>5, <2>6
  <1>8. CASE Begin(h)
    <2>1. rows' = rows /\ base' = base /\ \A k \in Key : lock'[k] \in {lock[k], h}
      BY <1>8 DEF Begin
    <2>2. \A k \in Key : lock'[k] # lock[k] => lock[k] \in {None, h}
      <3>1. \A k \in Key : lock'[k] # lock[k] => k \in Needs(h)
        BY <1>8 DEF Begin, Ready, At, Needs, Ended
      <3> QED
        BY <1>8, <3>1, FreeToHave DEF Begin, Ready
    <2>3. \A k \in Key : Current(h)'[k] = Current(h)[k]
      BY <1>1, <1>2, <1>3, <2>1, <2>2
    <2> QED
      BY <1>5, <2>3
  <1>9. CASE Commit(h)
    <2>1. base' = Current(h) /\ \A k \in Key : lock'[k] # h
      BY <1>3, <1>9 DEF Commit
    <2> QED
      BY <1>1, <1>5, <2>1
  <1>10. CASE Rollback(h)
    <2>1. base' = base /\ \A k \in Key : lock'[k] # h
      BY <1>3, <1>10 DEF Rollback
    <2> QED
      BY <1>1, <1>6, <2>1
  <1>11. CASE rows' = rows /\ base' = base /\ lock' = lock
    BY <1>1, <1>2, <1>5, <1>11
  <1> QED
    BY <1>7, <1>8, <1>9, <1>10, <1>11, FamilyKinds

\* What is committed leaves no child without its parent.
LEMMA BaseReferred ==
    ASSUME WriteInv, Owned, NEW h \in Flow, Write(h)
    PROVE  Referred(base')
  <1>1. Referred(base) /\ Referred(Current(h)) /\ Referred(Current(h)')
    BY OwnReferred DEF Owned
  <1>2. Child \subseteq Key /\ Parent \subseteq Key
    BY DEF Key
  <1>3. CASE base' = base
    BY <1>1, <1>3
  <1>4. CASE Statement(h) /\ Passing(h)
    <2>1. CASE fl[h].inTx
      <3>1. \A k \in Key : base'[k] = base[k]
        BY <1>4, <2>1, FamilyStep DEF Changed
      <3>2. \A c \in Child : base[c] # None => base[c].par \in Parent \cup {None}
        BY <1>2 DEF WriteInv, Tables, Row
      <3> QED
        BY <1>1, <1>2, <3>1, <3>2 DEF Referred
    <2>2. CASE ~fl[h].inTx
      <3>1. \A k \in Key : base'[k] = Current(h)'[k]
        BY <1>4, <2>2, FamilyStep
      <3>2. \A c \in Child : base'[c] # None => base'[c].par \in Parent \cup {None}
        <4>1. WriteInv'
          BY NextKeeps DEF Next
        <4>2. base' \in [Key -> Row \cup {None}]
          BY <4>1 DEF WriteInv, Tables
        <4> QED
          BY <1>2, <4>2 DEF Row
      <3> QED
        BY <1>1, <1>2, <3>1, <3>2 DEF Referred
    <2> QED
      BY <2>1, <2>2
  <1>5. CASE Commit(h)
    BY <1>1, <1>5 DEF Commit
  <1> QED
    BY <1>3, <1>4, <1>5, FamilyKinds DEF Begin, Rollback

\* Nor does it leave one to another flow.
LEMMA OthersReferred ==
    ASSUME WriteInv, Unmoved, Owned, NEW h \in Flow, Write(h), NEW g \in Flow \ {h}
    PROVE  Referred(Current(g)')
  <1> SUFFICES ASSUME NEW c \in Child, Current(g)'[c] # None, Current(g)'[c].par # None
               PROVE  Current(g)'[Current(g)'[c].par] # None
    BY DEF Referred
  <1> DEFINE p == Current(g)'[c].par
  <1>1. /\ Child \subseteq Key /\ Parent \subseteq Key /\ g # None /\ h # None /\ g \in Flow
        /\ Referred(base) /\ Referred(Current(g)) /\ Referred(base')
    BY BaseReferred, WriterAssumption DEF Key, Owned
  <1>2. \A k \in Key : /\ Current(g)'[k] = IF lock'[k] = g THEN rows'[k] ELSE base'[k]
                       /\ Current(g)[k] = IF lock[k] = g THEN rows[k] ELSE base[k]
                       /\ lock'[k] = g <=> lock[k] = g
                       /\ lock[k] = g => rows'[k] = rows[k] /\ base'[k] = base[k]
    <2>1. \A k \in Key : Current(g)'[k] = IF lock'[k] = g THEN rows'[k] ELSE base'[k]
      BY DEF Current
    <2> QED
      BY <2>1, AtRow, OthersLeave
  <1>3. p \in Parent /\ p \in Key
    <2>1. WriteInv'
      BY NextKeeps DEF Next
    <2>2. rows' \in [Key -> Row \cup {None}] /\ base' \in [Key -> Row \cup {None}]
      BY <2>1 DEF WriteInv, Tables
    <2>3. Current(g)'[c] \in Row
      BY <1>1, <1>2, <2>2
    <2> QED
      BY <1>1, <2>3 DEF Row
  <1> HIDE DEF p
  <1>4. CASE lock[c] = g
    <2>1. rows[c] # None /\ rows[c].par = p /\ base'[c] = base[c] /\ Current(g)[c] = rows[c]
      BY <1>1, <1>2, <1>4 DEF p
    <2>2. Current(g)[p] # None
      BY <1>1, <1>3, <2>1 DEF Referred, p
    <2>3. CASE lock[p] = g
      BY <1>2, <1>3, <2>2, <2>3 DEF p
    <2>4. CASE lock[p] # g
      <3>1. base[p] # None /\ Current(g)'[p] = base'[p]
        BY <1>2, <1>3, <2>2, <2>4
      <3>2. CASE base'[p] = base[p]
        BY <3>1, <3>2 DEF p
      <3>3. CASE base'[p] # base[p]
        <4>1. base[c] # None /\ base[c].par = p
          <5>1. CASE Statement(h) /\ Passing(h)
            <6>1. p \in Needs(h)
              BY <1>3, <3>3, <5>1, FamilyStep DEF Changed
            <6>2. ~Holds(g, p)
              BY <1>1, <1>3, <5>1, <6>1, FamilyStep
            <6> QED
              BY <1>4, <2>1, <6>2 DEF Holds
          <5>2. CASE Commit(h)
            <6>1. lock[p] = h
              <7>1. base'[p] = Current(h)[p]
                BY <5>2 DEF Commit
              <7>2. Current(h)[p] = IF lock[p] = h THEN rows[p] ELSE base[p]
                BY <1>3, AtRow
              <7> QED
                BY <3>3, <7>1, <7>2
            <6> QED
              BY <1>1, <1>3, <1>4, <2>1, <6>1 DEF Unmoved
          <5> QED
            BY <3>3, <5>1, <5>2, FamilyKinds DEF Begin, Rollback
        <4>2. base'[p] # None
          BY <1>1, <1>3, <2>1, <4>1 DEF Referred, p
        <4> QED
          BY <3>1, <4>2 DEF p
      <3> QED
        BY <3>2, <3>3
    <2> QED
      BY <2>3, <2>4
  <1>5. CASE lock[c] # g
    <2>1. base'[c] # None /\ base'[c].par = p /\ base'[c] = Current(g)'[c]
      BY <1>1, <1>2, <1>5 DEF p
    <2>2. CASE lock[p] # g
      <3>1. base'[p] # None
        BY <1>1, <2>1 DEF Referred, p
      <3> QED
        BY <1>2, <1>3, <2>2, <3>1 DEF p
    <2>3. CASE lock[p] = g
      <3>1. base[c] # None /\ base[c].par = p
        BY <1>3, <1>5, <2>1, <2>3, ChildStays
      <3>2. Current(g)[c] = base[c]
        BY <1>1, <1>2, <1>5
      <3>3. Current(g)[p] # None
        BY <1>1, <1>3, <3>1, <3>2 DEF Referred, p
      <3> QED
        BY <1>2, <1>3, <2>3, <3>3 DEF p
    <2> QED
      BY <2>2, <2>3
  <1> QED
    BY <1>4, <1>5

LEMMA OwnedStays ==
    ASSUME WriteInv, Unmoved, Owned, NEW h \in Flow, Write(h)
    PROVE  Owned'
  <1>1. \A f \in Flow : Referred(Current(f)')
    BY OwnReferred, OthersReferred
  <1> QED
    BY <1>1, BaseReferred DEF Owned, Referred
-----------------------------------------------------------------------------
\* What a call that replaces holds and sees: rows it read and did not write; the parents it writes; of their
\* children none but those it lists, or deleted ones; those it lists as its own under them.
Clean(f) == \A k \in Key : lock[k] = f => rows[k] = base[k]
HoldsOwners(f) == \A p \in Owners(f) : lock[p] = f
Only(f) ==
    /\ HoldsOwners(f)
    /\ \A c \in ChildrenOf(Current(f), Owners(f)) : Current(f)[c].del \/ c \in Call(f).list
Listed(f) == \A c \in Call(f).list : lock[c] = f /\ rows[c] # None /\ rows[c].par \in Owners(f) /\ rows[c].val = f
Spared(f) ==
    /\ fl[f].ids = {} /\ Call(f).op \in {"update", "upsert"}
    /\ \A k \in Call(f).ids : lock[k] = f => rows[k] = base[k]

\* Where it is: before it reads, before it inserts, refused, between what it settled and the children it deletes,
\* before those it saves, or past them.
ToRead(f) ==
    /\ \/ Leads(fl[f].todo, <<"settle">>) /\ ~plan.versioned /\ Call(f).op \in {"update", "upsert"}
       \/ Leads(fl[f].todo, <<"find">>) /\ Call(f).op = "upsert"
    /\ Clean(f)
ToInsert(f) == Leads(fl[f].todo, <<"insert", "save">>) /\ fl[f].ids = {} /\ Call(f).op \in {"upsert", "insert"}
ToRefuse(f) == Comes(fl[f].todo, <<"found">>) /\ plan.versioned
ToDrop(f) ==
    /\ Comes(fl[f].todo, <<"columns", "drop", "save">>) \/ Comes(fl[f].todo, <<"drop", "save">>)
    /\ fl[f].inTx /\ fl[f].ids # {} /\ (RowLocks => HoldsOwners(f))
ToSave(f) == Comes(fl[f].todo, <<"save">>) /\ fl[f].inTx /\ Only(f)
Closes(f) == fl[f].todo \in Seq(Closing) /\ (fl[f].inTx => (Only(f) /\ Listed(f)) \/ Spared(f))
Replacing(f) ==
    ToRead(f) \/ ToInsert(f) \/ ToRefuse(f) \/ ToDrop(f) \/ ToSave(f) \/ Closes(f) \/ fl[f].todo \in Over

\* A call that replaces sees nothing move while its own rows and locks stay.
LEMMA NothingMoves ==
    ASSUME NEW f \in Flow, plan' = plan, fl'[f].ids = fl[f].ids, rows' = rows, base' = base, lock' = lock
    PROVE  /\ Clean(f)' = Clean(f) /\ Only(f)' = Only(f) /\ Listed(f)' = Listed(f) /\ Spared(f)' = Spared(f)
           /\ HoldsOwners(f)' = HoldsOwners(f) /\ RowLocks' = RowLocks
  <1>1. Call(f)' = Call(f) /\ Current(f)' = Current(f)
    BY DEF Call, Current
  <1>2. Owners(f)' = Owners(f)
    BY <1>1 DEF Owners
  <1>3. HoldsOwners(f)' = HoldsOwners(f)
    BY <1>2 DEF HoldsOwners
  <1> QED
    BY <1>1, <1>2, <1>3 DEF Clean, Only, Listed, Spared, RowLocks, ChildrenOf

LEMMA IdsLeft ==
    ASSUME WriteInv, NEW f \in Flow, Write(f), fl[f].todo # <<>>, Head(fl[f].todo) \notin {"settle", "find", "doom"}
    PROVE  fl'[f].ids = fl[f].ids /\ plan' = plan
  BY StepLeaves, StepKinds DEF Settle, ReadThenUpsert, Doom, Ready, At

\* Up to its first statement it reads nothing it locks but what is committed.
LEMMA OpeningReplaces ==
    ASSUME WriteInv, NEW f \in Flow, Write(f), ~Faults(f), NEW s, fl[f].todo # <<>>, Head(fl[f].todo) \in Opening,
           Leads(Tail(fl[f].todo), s), plan.versioned => Call(f).op # "update"
    PROVE  /\ Leads(fl'[f].todo, s) /\ fl'[f].ids = fl[f].ids /\ plan' = plan
           /\ Clean(f) => Clean(f)'
  <1>1. Head(fl[f].todo) \in {"begin", "hook"} \/ (plan.versioned /\ Head(fl[f].todo) = "load")
    BY DEF Opening
  <1>2. fl'[f].ids = fl[f].ids /\ plan' = plan
    BY <1>1, IdsLeft
  <1>3. \A k \in Key : lock[k] = None => rows[k] = base[k]
    BY DEF WriteInv, Tables
  <1>4. CASE Head(fl[f].todo) = "begin"
    <2>1. /\ Begin(f) /\ rows' = rows /\ base' = base /\ \A k \in Key : lock'[k] \in {lock[k], f}
          /\ fl' = [fl EXCEPT ![f] = [Goes(f) EXCEPT !.inTx = TRUE]]
      BY <1>4, StepAt DEF Begin
    <2>2. fl'[f].todo = Tail(fl[f].todo)
      BY <2>1, GoesOn DEF Fields
    <2>3. \A k \in Key : lock'[k] # lock[k] => lock[k] \in {None, f}
      <3>1. \A k \in Key : lock'[k] # lock[k] => k \in Needs(f)
        BY <2>1 DEF Begin, Ready, At, Needs, Ended
      <3> QED
        BY <2>1, <3>1, FreeToHave DEF Begin, Ready
    <2>4. Clean(f) => Clean(f)'
      BY <1>3, <2>1, <2>3 DEF Clean
    <2> QED
      BY <1>2, <2>2, <2>4
  <1>5. CASE Head(fl[f].todo) = "hook"
    <2>1. Hook(f) /\ rows' = rows /\ base' = base /\ lock' = lock /\ fl' = [fl EXCEPT ![f] = Goes(f)]
      BY <1>5, StepAt DEF Hook, store
    <2>2. fl'[f].todo = Tail(fl[f].todo)
      BY <2>1, GoesOn
    <2> QED
      BY <1>2, <2>1, <2>2, NothingMoves
  <1>6. CASE plan.versioned /\ Head(fl[f].todo) = "load"
    <2>1. Load(f)
      BY <1>6, StepAt
    <2>2. rows' = rows /\ base' = base /\ lock' = lock /\ fl'[f].todo = Tail(fl[f].todo)
      BY <1>6, <2>1, LoadLeaves
    <2> QED
      BY <1>2, <2>2, NothingMoves
  <1> QED
    BY <1>1, <1>4, <1>5, <1>6

\* A read that locks rows, as it leaves them.
LEMMA ReadsLeave ==
    ASSUME WriteInv, NEW f \in Flow, Free(f), fl[f].inTx, NEW kept, NEW held, Reads(f, kept, held),
           Needs(f) = Held(f, held), DOMAIN kept = Fields
    PROVE  /\ fl'[f].todo = kept.todo /\ fl'[f].ids = kept.ids /\ fl'[f].inTx = kept.inTx /\ plan' = plan
           /\ Clean(f) => Clean(f)'
           /\ RowLocks => \A k \in Key : k \in held => lock'[k] = f
  <1> DEFINE after == [kept EXCEPT !.snap = Snapshot(f, ~Locking(f))]
  <1>1. /\ \A k \in Key : rows'[k] = rows[k]
        /\ base' = base /\ plan' = plan
        /\ lock' = [k \in Key |-> IF k \in Held(f, held) THEN f ELSE lock[k]]
        /\ fl' = [fl EXCEPT ![f] = after]
    <2>1. DOMAIN <<>> = {}
      OBVIOUS
    <2> QED
      BY <2>1 DEF Reads, Sends, Put
  <1>2. after.todo = kept.todo /\ after.ids = kept.ids /\ after.inTx = kept.inTx
    BY DEF Fields
  <1> HIDE DEF after
  <1>3. fl'[f] = after
    BY <1>1, NowKept
  <1>4. \A k \in Key : k \in Held(f, held) => lock[k] \in {None, f}
    BY FreeToHave
  <1>5. \A k \in Key : lock[k] = None => rows[k] = base[k]
    BY DEF WriteInv, Tables
  <1>6. Clean(f) => Clean(f)'
    BY <1>1, <1>4, <1>5 DEF Clean
  <1>7. RowLocks => \A k \in Key : k \in held => lock'[k] = f
    BY <1>1 DEF Held, Locking
  <1> QED
    BY <1>1, <1>2, <1>3, <1>6, <1>7

\* What a read leaves of a call: what it goes on with and the rows it names.
KeptAs(kept, f, todo, ids) == DOMAIN kept = Fields /\ kept.todo = todo /\ kept.ids = ids /\ kept.inTx = fl[f].inTx

LEMMA ThenKeeps ==
    ASSUME WriteInv, NEW f \in Flow, NEW next, NEW ids, NEW queue
    PROVE  KeptAs([Then(f, next) EXCEPT !.ids = ids, !.queue = queue], f, next \o Tail(fl[f].todo), ids)
  <1>1. DOMAIN fl[f] = Fields
    BY DEF WriteInv, Keeps
  <1> DEFINE todo == next \o Tail(fl[f].todo)
  <1>2. DOMAIN Then(f, next) = Fields /\ Then(f, next).todo = todo /\ Then(f, next).inTx = fl[f].inTx
    BY <1>1 DEF Then, Fields
  <1> HIDE DEF todo
  <1>3. KeptAs([Then(f, next) EXCEPT !.ids = ids, !.queue = queue], f, todo, ids)
    BY <1>2 DEF KeptAs, Fields
  <1> QED
    BY <1>3 DEF todo

\* What it settles it has for itself; where it settles none its relations stay as they are.
LEMMA SettleReplaces ==
    ASSUME WriteInv, NEW f \in Flow, Replaces(Call(f)), Settle(f), Comes(fl[f].todo, <<"settle">>), ToRead(f),
           ~plan.versioned, Call(f).op \in {"update", "upsert"}
    PROVE  Replacing(f)'
  <1> DEFINE ids == SettleIds(f)
             writes == IF ids = {} \/ plan.versioned THEN <<>> ELSE SettledWrite(Call(f))
             kept == [Then(f, writes) EXCEPT !.ids = ids, !.queue = Chunks(ids)]
  <1>1. "settle" \in Together /\ At(f, "settle") /\ Free(f) /\ Reads(f, kept, ids) /\ fl[f].todo # <<>>
    BY DEF Together, Settle, Ready, At
  <1>2. Needs(f) = Held(f, ids) /\ fl[f].inTx
    BY <1>1, IsSending, NeedsAt DEF Sending
  <1>3. Tail(fl[f].todo) \in Seq(Closing)
    <2>1. Tail(<<"settle">>) = <<>>
      OBVIOUS
    <2> QED
      BY <2>1, StepsNamed, ComesOn
  <1>4. ids \subseteq Call(f).ids /\ Call(f).ids \subseteq Key
    <2>1. ids \subseteq Call(f).ids
      BY DEF SettleIds, FirstOf, Filtered
    <2> QED
      BY <2>1, CallTyped DEF WriteInv
  <1>5. KeptAs(kept, f, writes \o Tail(fl[f].todo), ids)
    BY ThenKeeps
  <1>w. /\ ids = {} => writes = <<>>
        /\ ids # {} => writes = SettledWrite(Call(f))
    OBVIOUS
  <1>c. Clean(f)
    BY DEF ToRead
  <1> HIDE DEF ids, kept, writes
  <1>k. DOMAIN kept = Fields /\ kept.todo = writes \o Tail(fl[f].todo) /\ kept.ids = ids /\ kept.inTx = fl[f].inTx
    BY <1>5 DEF KeptAs
  <1>6. /\ fl'[f].todo = writes \o Tail(fl[f].todo) /\ fl'[f].ids = ids /\ fl'[f].inTx /\ plan' = plan
        /\ Clean(f)' /\ (RowLocks => \A k \in Key : k \in ids => lock'[k] = f)
    <2>1. Free(f) /\ fl[f].inTx /\ Reads(f, kept, ids) /\ Needs(f) = Held(f, ids) /\ DOMAIN kept = Fields
      BY <1>1, <1>2, <1>k
    <2>2. /\ fl'[f].todo = kept.todo /\ fl'[f].ids = kept.ids /\ fl'[f].inTx = kept.inTx /\ plan' = plan
          /\ Clean(f) => Clean(f)'
          /\ RowLocks => \A k \in Key : k \in ids => lock'[k] = f
      BY <2>1, ReadsLeave
    <2> QED
      BY <1>2, <1>c, <1>k, <2>2
  <1>7. Call(f)' = Call(f) /\ RowLocks' = RowLocks
    BY <1>6 DEF Call, RowLocks
  <1>8. CASE ids = {}
    <2>1. fl'[f].todo = Tail(fl[f].todo)
      BY <1>1, <1>6, <1>8, <1>w, GoesOn
    <2>2. Spared(f)'
      BY <1>4, <1>6, <1>7, <1>8 DEF Spared, Clean
    <2> QED
      BY <1>3, <2>1, <2>2 DEF Replacing, Closes
  <1>9. CASE ids # {}
    <2>1. SettledWrite(Call(f)) \in {<<"columns", "drop", "save">>, <<"drop", "save">>}
      <3>1. SettledWrite(Call(f)) = (IF Call(f).columns THEN <<"columns">> ELSE <<>>) \o <<"drop", "save">>
        BY DEF SettledWrite, WritesRelations, Replaces
      <3>2. <<"columns">> \o <<"drop", "save">> = <<"columns", "drop", "save">>
        BY FrontOfTuple
      <3>3. <<>> \o <<"drop", "save">> = <<"drop", "save">>
        BY StepsNamed, ConcatEmptySeq
      <3> QED
        BY <3>1, <3>2, <3>3
    <2>2. (Comes(fl[f].todo, <<"columns", "drop", "save">>) \/ Comes(fl[f].todo, <<"drop", "save">>))'
      BY <1>3, <1>6, <1>9, <1>w, <2>1 DEF Comes
    <2>3. RowLocks' => HoldsOwners(f)'
      BY <1>4, <1>6, <1>7, <1>9 DEF HoldsOwners, Owners
    <2> QED
      BY <1>6, <1>9, <2>2, <2>3 DEF Replacing, ToDrop
  <1> QED
    BY <1>8, <1>9

LEMMA ComesLeads ==
    ASSUME NEW todo, NEW s \in Seq(Named), Comes(todo, s)
    PROVE  Leads(todo, s)
  <1>1. PICK t \in Seq(Closing) : todo = s \o t
    BY DEF Comes
  <1>2. t \in Seq(Named) /\ <<>> \in Seq(Opening)
    BY ListsNamed
  <1>3. s \o t \in Seq(Named)
    BY <1>2, ConcatProperties
  <1>4. todo = <<>> \o (s \o t)
    BY <1>1, <1>3, ConcatEmptySeq
  <1> QED
    BY <1>2, <1>4 DEF Leads

LEMMA StepsGoOn ==
    ASSUME NEW todo
    PROVE  /\ \A s \in {"settle", "find", "found", "save"} :
                 Comes(todo, <<s>>) => todo # <<>> /\ Head(todo) = s /\ Tail(todo) \in Seq(Closing)
           /\ Comes(todo, <<"insert", "save">>) => todo # <<>> /\ Head(todo) = "insert" /\ Comes(Tail(todo), <<"save">>)
           /\ Comes(todo, <<"drop", "save">>) => todo # <<>> /\ Head(todo) = "drop" /\ Comes(Tail(todo), <<"save">>)
           /\ Comes(todo, <<"columns", "drop", "save">>) =>
                 todo # <<>> /\ Head(todo) = "columns" /\ Comes(Tail(todo), <<"drop", "save">>)
  <1>1. ASSUME NEW s \in Seq(Named), s # <<>>, NEW h, NEW t, Head(s) = h, Tail(s) = t, Comes(todo, s)
        PROVE  todo # <<>> /\ Head(todo) = h /\ Comes(Tail(todo), t) /\ (t = <<>> => Tail(todo) \in Seq(Closing))
    BY <1>1, ComesOn
  <1>2. ASSUME NEW s \in {"settle", "find", "found", "save"}, Comes(todo, <<s>>)
        PROVE  todo # <<>> /\ Head(todo) = s /\ Tail(todo) \in Seq(Closing)
    <2>1. <<s>> \in Seq(Named) /\ <<s>> # <<>> /\ Head(<<s>>) = s /\ Tail(<<s>>) = <<>>
      BY DEF Named
    <2> QED
      BY <1>1, <1>2, <2>1, Zenon
  <1>3. /\ <<"insert", "save">> # <<>> /\ Head(<<"insert", "save">>) = "insert" /\ Tail(<<"insert", "save">>) = <<"save">>
        /\ <<"drop", "save">> # <<>> /\ Head(<<"drop", "save">>) = "drop" /\ Tail(<<"drop", "save">>) = <<"save">>
    OBVIOUS
  <1>4. /\ <<"columns", "drop", "save">> # <<>> /\ Head(<<"columns", "drop", "save">>) = "columns"
        /\ Tail(<<"columns", "drop", "save">>) = <<"drop", "save">>
    OBVIOUS
  <1>5. Comes(todo, <<"insert", "save">>) => todo # <<>> /\ Head(todo) = "insert" /\ Comes(Tail(todo), <<"save">>)
    BY <1>1, <1>3, StepsNamed, Zenon
  <1>6. Comes(todo, <<"drop", "save">>) => todo # <<>> /\ Head(todo) = "drop" /\ Comes(Tail(todo), <<"save">>)
    BY <1>1, <1>3, StepsNamed, Zenon
  <1>7. Comes(todo, <<"columns", "drop", "save">>) =>
            todo # <<>> /\ Head(todo) = "columns" /\ Comes(Tail(todo), <<"drop", "save">>)
    BY <1>1, <1>4, StepsNamed, Zenon
  <1> QED
    BY <1>2, <1>5, <1>6, <1>7

LEMMA ReadOnce ==
    ASSUME NEW update
    PROVE  [i \in 1..0 |-> update] = <<>> /\ [i \in 1..1 |-> update] = <<update>>
  <1>1. [i \in 1..0 |-> update] = <<>>
    OBVIOUS
  <1>2. [i \in 1..1 |-> update] = <<update>>
    OBVIOUS
  <1> QED
    BY <1>1, <1>2

\* The one row an upsert of relations names is there, and read, or to be inserted.
LEMMA FindNames ==
    ASSUME WriteInv, NEW f \in Flow, Call(f).list # None, Call(f).op = "upsert"
    PROVE  LET found == RowsByConflict(f)
               update == IF WritesRelations(Call(f)) /\ ~plan.versioned THEN "settle" ELSE "found"
               updates == [i \in 1..Cardinality(found) |-> update]
               inserts == IF found = Call(f).ids THEN <<>>
                          ELSE <<"insert">> \o (IF WritesRelations(Call(f)) THEN <<"save">> ELSE <<>>)
           IN  \/ found = {} /\ updates \o inserts = <<"insert", "save">>
               \/ found = Call(f).ids /\ updates \o inserts = <<update>>
  <1> DEFINE found == RowsByConflict(f)
             update == IF WritesRelations(Call(f)) /\ ~plan.versioned THEN "settle" ELSE "found"
             updates == [i \in 1..Cardinality(found) |-> update]
             inserts == IF found = Call(f).ids THEN <<>>
                        ELSE <<"insert">> \o (IF WritesRelations(Call(f)) THEN <<"save">> ELSE <<>>)
  <1>1. IsFiniteSet(Call(f).ids) /\ Cardinality(Call(f).ids) = 1
    BY PlanAssumption DEF WriteInv, Call
  <1>2. PICK x : Call(f).ids = {x}
    BY <1>1, FS_Singleton
  <1>3. found \subseteq Call(f).ids
    BY DEF RowsByConflict
  <1>4. Cardinality({}) = 0 /\ Cardinality({x}) = 1
    BY FS_EmptySet, FS_Singleton
  <1>5. WritesRelations(Call(f))
    BY DEF WritesRelations
  <1> HIDE DEF found
  <1>6. CASE found = {}
    <2>1. updates = <<>>
      BY <1>4, <1>6, ReadOnce
    <2>2. inserts = <<"insert", "save">>
      BY <1>2, <1>5, <1>6, Pair
    <2> HIDE DEF updates, inserts
    <2>3. updates \o inserts = <<"insert", "save">>
      BY <2>1, <2>2, StepsNamed, ConcatEmptySeq
    <2> QED
      BY <1>6, <2>3 DEF found, updates, inserts
  <1>7. CASE found = Call(f).ids
    <2> HIDE DEF update
    <2>1. updates = <<update>> /\ inserts = <<>>
      BY <1>2, <1>4, <1>7, ReadOnce
    <2> HIDE DEF updates, inserts
    <2>2. <<update>> \in Seq({update})
      OBVIOUS
    <2>3. updates \o inserts = <<update>>
      BY <2>1, <2>2, ConcatEmptySeq
    <2> QED
      BY <1>7, <2>3 DEF found, updates, inserts, update
  <1> QED
    BY <1>2, <1>3, <1>6, <1>7

\* The row it found it settles next, or inserts what it did not find.
LEMMA FindReplaces ==
    ASSUME WriteInv, NEW f \in Flow, Replaces(Call(f)), ReadThenUpsert(f), Comes(fl[f].todo, <<"find">>), Clean(f),
           Call(f).op = "upsert"
    PROVE  Replacing(f)'
  <1> DEFINE found == RowsByConflict(f)
             update == IF WritesRelations(Call(f)) /\ ~plan.versioned THEN "settle" ELSE "found"
             updates == [i \in 1..Cardinality(found) |-> update]
             inserts == IF found = Call(f).ids THEN <<>>
                        ELSE <<"insert">> \o (IF WritesRelations(Call(f)) THEN <<"save">> ELSE <<>>)
             next == updates \o inserts
             kept == [Then(f, next) EXCEPT !.ids = found, !.queue = InLists(found, 1)]
  <1>1. "find" \in Together /\ At(f, "find") /\ Free(f) /\ Reads(f, kept, found) /\ fl[f].todo # <<>>
    BY DEF Together, ReadThenUpsert, Ready, At
  <1>2. Needs(f) = Held(f, found) /\ fl[f].inTx
    BY <1>1, IsSending, NeedsAt DEF Sending
  <1>3. Tail(fl[f].todo) \in Seq(Closing)
    BY StepsGoOn
  <1>4. Call(f).list # None /\ WritesRelations(Call(f))
    BY DEF Replaces, WritesRelations
  <1>5. (found = {} /\ next = <<"insert", "save">>) \/ next = <<update>>
    BY <1>4, FindNames
  <1>6. KeptAs(kept, f, next \o Tail(fl[f].todo), found)
    BY ThenKeeps
  <1> HIDE DEF found, next, kept
  <1>7. DOMAIN kept = Fields /\ kept.todo = next \o Tail(fl[f].todo) /\ kept.ids = found /\ kept.inTx = fl[f].inTx
    BY <1>6 DEF KeptAs
  <1>8. fl'[f].todo = next \o Tail(fl[f].todo) /\ fl'[f].ids = found /\ plan' = plan /\ Clean(f)'
    <2>1. Free(f) /\ fl[f].inTx /\ Reads(f, kept, found) /\ Needs(f) = Held(f, found) /\ DOMAIN kept = Fields
      BY <1>1, <1>2, <1>7
    <2>2. /\ fl'[f].todo = kept.todo /\ fl'[f].ids = kept.ids /\ plan' = plan
          /\ Clean(f) => Clean(f)'
      BY <2>1, ReadsLeave
    <2> QED
      BY <1>7, <2>2
  <1>9. Call(f)' = Call(f)
    BY <1>8 DEF Call
  <1>10. Comes(fl'[f].todo, next)
    BY <1>3, <1>8 DEF Comes
  <1>11. CASE found = {} /\ next = <<"insert", "save">>
    <2>1. Leads(fl'[f].todo, <<"insert", "save">>)
      BY <1>10, <1>11, StepsNamed, ComesLeads
    <2>2. Leads(fl[f].todo, <<"insert", "save">>)'
      BY <1>8, <2>1 DEF Leads, Opening
    <2> QED
      BY <1>8, <1>9, <1>11, <2>2 DEF Replacing, ToInsert
  <1>12. CASE next = <<"settle">> /\ ~plan.versioned
    <2>1. Leads(fl'[f].todo, <<"settle">>)
      BY <1>10, <1>12, StepsNamed, ComesLeads
    <2>2. Leads(fl[f].todo, <<"settle">>)'
      BY <1>8, <2>1 DEF Leads, Opening
    <2> QED
      BY <1>8, <1>9, <1>12, <2>2 DEF Replacing, ToRead
  <1>13. CASE next = <<"found">> /\ plan.versioned
    <2>1. Comes(fl[f].todo, <<"found">>)'
      BY <1>10, <1>13 DEF Comes
    <2> QED
      BY <1>8, <1>13, <2>1 DEF Replacing, ToRefuse
  <1> QED
    BY <1>4, <1>5, <1>11, <1>12, <1>13

\* No relation is written at a version.
LEMMA FoundRefuses ==
    ASSUME WriteInv, NEW f \in Flow, Call(f).list # None, Found(f), plan.versioned
    PROVE  fl'[f].todo \in Over
  <1>1. Throw(f, "unversioned")
    BY DEF Found, WritesRelations
  <1> QED
    BY <1>1, FaultsEnd DEF Throw

LEMMA OwnersAre ==
    ASSUME WriteInv, NEW f \in Flow
    PROVE  Owners(f) \subseteq Call(f).ids /\ Owners(f) \subseteq Parent /\ Owners(f) \subseteq Key
  <1>1. fl[f].ids \subseteq Call(f).ids
    BY DEF WriteInv, Keeps
  <1>2. Call(f).ids \subseteq Parent /\ Call(f).ids \subseteq Key
    BY CallTyped DEF WriteInv
  <1> QED
    BY <1>1, <1>2 DEF Owners

\* What a write of its transaction leaves a call that replaces.
WroteOn(f, todo, new) ==
    /\ fl'[f].todo = todo /\ fl'[f].ids = fl[f].ids /\ fl'[f].inTx
    /\ plan' = plan /\ Call(f)' = Call(f) /\ Owners(f)' = Owners(f) /\ RowLocks' = RowLocks
    /\ \A k \in Key : lock[k] = f \/ k \in DOMAIN new \/ ~RowLocks => lock'[k] = f
    /\ \A k \in Key : Current(f)'[k] = IF k \in DOMAIN new THEN new[k] ELSE Current(f)[k]
    /\ HoldsOwners(f) \/ ~RowLocks => HoldsOwners(f)'

LEMMA WritesOn ==
    ASSUME WriteInv, NEW f \in Flow, Write(f), fl[f].todo # <<>>,
           Head(fl[f].todo) \in {"columns", "drop", "insert", "save"}, fl[f].inTx, Free(f),
           NEW kept, NEW new, NEW S, Writes(f, kept, new), NEW todo, NEW queue, SameBut(kept, f, todo, queue),
           Needs(f) = Written(S), DOMAIN new \subseteq S
    PROVE  WroteOn(f, todo, new)
  <1>1. OwnSees(f, todo, queue, new)
    BY OwnWrite
  <1>2. fl'[f].ids = fl[f].ids /\ plan' = plan
    BY IdsLeft
  <1>3. Call(f)' = Call(f) /\ RowLocks' = RowLocks
    BY <1>2 DEF Call, RowLocks
  <1>4. Owners(f)' = Owners(f)
    BY <1>2, <1>3 DEF Owners
  <1>5. \A k \in Key : lock[k] = f \/ k \in DOMAIN new \/ ~RowLocks => lock'[k] = f
    BY <1>1 DEF OwnSees, Written
  <1>6. HoldsOwners(f) \/ ~RowLocks => HoldsOwners(f)'
    BY <1>4, <1>5, OwnersAre DEF HoldsOwners
  <1> QED
    BY <1>1, <1>2, <1>3, <1>4, <1>5, <1>6 DEF WroteOn, OwnSees

\* The rows it inserts are its own, and nothing could point at them before.
LEMMA InsertReplaces ==
    ASSUME WriteInv, Owned, NEW f \in Flow, Replaces(Call(f)), InsertRows(f),
           Comes(fl[f].todo, <<"insert", "save">>), fl[f].ids = {}, Call(f).op \in {"upsert", "insert"}
    PROVE  Replacing(f)'
  <1> DEFINE new == [k \in Missing(f) |-> Fresh(f, k)]
             todo == Tail(fl[f].todo)
  <1>1. "insert" \in Alone /\ At(f, "insert") /\ Free(f) /\ fl[f].todo # <<>> /\ Head(fl[f].todo) = "insert"
    BY DEF Alone, InsertRows, Ready, At
  <1>2. Comes(todo, <<"save">>) /\ todo # <<>> /\ Head(todo) = "save"
    BY StepsGoOn
  <1>3. fl[f].inTx
    <2>1. Shape(fl[f].todo, fl[f].inTx, Call(f)) /\ fl[f].inTx \in BOOLEAN
      BY DEF WriteInv, Keeps
    <2>2. todo # <<"hook">>
      <3>1. Head(<<"hook">>) = "hook"
        OBVIOUS
      <3> QED
        BY <1>2, <3>1
    <2> QED
      BY <1>1, <1>2, <2>1, <2>2, HeadOfShape
  <1>4. Missing(f) = Call(f).ids /\ Owners(f) = Call(f).ids /\ Call(f).ids \subseteq Parent /\ Call(f).ids \subseteq Key
    BY OwnersAre, CallTyped DEF WriteInv, Missing, Owners
  <1>5. CASE \E k \in Missing(f) : Current(f)[k] # None
    BY <1>5, FaultsEnd DEF InsertRows, Throw, Replacing
  <1>6. CASE ~\E k \in Missing(f) : Current(f)[k] # None
    <2>1. Writes(f, Goes(f), new) /\ Needs(f) = Written(Missing(f)) /\ DOMAIN new = Missing(f)
      BY <1>1, <1>6, NeedsAt DEF InsertRows
    <2>2. SameBut(Goes(f), f, todo, fl[f].queue)
      BY <1>1, GoesOn, ThenSame DEF Goes
    <2>3. Write(f)
      BY DEF Write, Proceeds, Statement
    <2> HIDE DEF new, todo
    <2>4. WroteOn(f, todo, new)
      BY <1>1, <1>3, <2>1, <2>2, <2>3, WritesOn
    <2>5. HoldsOwners(f)'
      BY <1>4, <2>1, <2>4 DEF HoldsOwners, WroteOn
    <2>6. ASSUME NEW c \in Child, Current(f)'[c] # None, Current(f)'[c].par \in Owners(f) PROVE FALSE
      <3>1. c \in Key /\ c \notin Missing(f)
        BY <1>4, KeyAssumption DEF Key
      <3>2. Current(f)'[c] = Current(f)[c]
        BY <2>1, <2>4, <3>1 DEF WroteOn
      <3>3. Current(f)[c].par \in Missing(f) /\ Current(f)[c].par # None
        BY <1>4, <2>6, <3>2, KeyAssumption
      <3>4. Current(f)[Current(f)[c].par] # None
        BY <2>6, <3>2, <3>3 DEF Owned, Referred
      <3> QED
        BY <1>6, <3>3, <3>4
    <2>7. Only(f)'
      BY <2>4, <2>5, <2>6 DEF Only, ChildrenOf, WroteOn
    <2>8. Comes(fl[f].todo, <<"save">>)'
      BY <1>2, <2>4 DEF Comes, WroteOn
    <2> QED
      BY <2>4, <2>7, <2>8 DEF Replacing, ToSave, WroteOn
  <1> QED
    BY <1>5, <1>6

\* A batch of columns leaves the rows held.
LEMMA ColumnsReplace ==
    ASSUME WriteInv, NEW f \in Flow, Columns(f), Comes(fl[f].todo, <<"columns", "drop", "save">>), ToDrop(f)
    PROVE  Replacing(f)'
  <1> DEFINE hit == Updatable(f, Batch(f))
             new == [k \in hit |-> Touched(f, Current(f)[k])]
             more == Len(fl[f].queue) > 1
             before == IF more THEN fl[f] ELSE Goes(f)
             todo == IF more THEN fl[f].todo ELSE Tail(fl[f].todo)
             queue == Behind(f)
             kept == [before EXCEPT !.queue = queue]
  <1>1. /\ "columns" \in Together /\ At(f, "columns") /\ Free(f) /\ Writes(f, kept, new)
        /\ fl[f].todo # <<>> /\ Head(fl[f].todo) = "columns"
    BY DEF Together, Columns, Ready, At
  <1>2. Needs(f) = Written(hit) /\ fl[f].inTx /\ Write(f)
    BY <1>1, IsSending, NeedsAt DEF Sending, Write, Proceeds, Statement
  <1>3. DOMAIN new \subseteq hit
    OBVIOUS
  <1>4. SameBut(kept, f, todo, queue)
    <2>1. SameBut(before, f, todo, fl[f].queue)
      <3>1. Goes(f).out = fl[f].out
        BY GoesOn, <1>1 DEF Goes, Then, Fields
      <3> QED
        BY <1>1, <3>1, GoesOn DEF SameBut
    <2> QED
      BY <2>1, SameThrough
  <1>5. Comes(todo, <<"columns", "drop", "save">>) \/ Comes(todo, <<"drop", "save">>)
    BY StepsGoOn
  <1> HIDE DEF kept, new, before, todo, queue
  <1>6. WroteOn(f, todo, new)
    BY <1>1, <1>2, <1>3, <1>4, WritesOn
  <1>7. (Comes(fl[f].todo, <<"columns", "drop", "save">>) \/ Comes(fl[f].todo, <<"drop", "save">>))'
    BY <1>5, <1>6 DEF Comes, WroteOn
  <1>8. ToDrop(f)'
    BY <1>6, <1>7 DEF ToDrop, WroteOn
  <1> QED
    BY <1>8 DEF Replacing

\* The children it does not list are gone, or deleted.
LEMMA DropReplaces ==
    ASSUME WriteInv, NEW f \in Flow, DropUnlisted(f), Comes(fl[f].todo, <<"drop", "save">>), ToDrop(f)
    PROVE  Replacing(f)'
  <1> DEFINE new == [c \in Unlisted(f) |-> IF plan.childSoft THEN [Current(f)[c] EXCEPT !.del = TRUE] ELSE None]
             todo == Tail(fl[f].todo)
  <1>1. /\ "drop" \in Together /\ At(f, "drop") /\ Free(f) /\ Writes(f, Goes(f), new)
        /\ fl[f].todo # <<>> /\ Head(fl[f].todo) = "drop"
    BY DEF Together, DropUnlisted, Ready, At
  <1>2. Needs(f) = Written(Unlisted(f)) /\ fl[f].inTx /\ Write(f) /\ Current(f) \in [Key -> Row \cup {None}]
    BY <1>1, IsSending, NeedsAt DEF Sending, Write, Proceeds, Statement
  <1>3. /\ DOMAIN new = Unlisted(f)
        /\ \A c \in Unlisted(f) : new[c] = IF plan.childSoft THEN [Current(f)[c] EXCEPT !.del = TRUE] ELSE None
    OBVIOUS
  <1>4. SameBut(Goes(f), f, todo, fl[f].queue)
    BY <1>1, GoesOn, ThenSame DEF Goes
  <1>5. Comes(todo, <<"save">>)
    BY StepsGoOn
  <1> HIDE DEF new, todo
  <1>6. WroteOn(f, todo, new)
    BY <1>1, <1>2, <1>3, <1>4, WritesOn
  <1>7. HoldsOwners(f)'
    BY <1>6 DEF ToDrop, WroteOn
  <1>8. ASSUME NEW c \in Child, Current(f)'[c] # None, Current(f)'[c].par \in Owners(f)
        PROVE  Current(f)'[c].del \/ c \in Call(f).list
    <2>1. c \in Key
      BY DEF Key
    <2>2. CASE c \in Unlisted(f)
      <3>1. Current(f)'[c] = [Current(f)[c] EXCEPT !.del = TRUE]
        BY <1>3, <1>6, <1>8, <2>1, <2>2 DEF WroteOn
      <3>2. Current(f)[c] \in Row
        BY <1>2, <2>1, <2>2 DEF Unlisted, ChildrenOf
      <3> QED
        BY <3>1, <3>2 DEF Row
    <2>3. CASE c \notin Unlisted(f)
      <3>1. Current(f)'[c] = Current(f)[c]
        BY <1>3, <1>6, <2>1, <2>3 DEF WroteOn
      <3>2. Owners(f) = fl[f].ids
        BY DEF Owners, ToDrop
      <3> QED
        BY <1>8, <2>3, <3>1, <3>2 DEF Unlisted, ChildrenOf
    <2> QED
      BY <2>2, <2>3
  <1>9. Only(f)'
    BY <1>6, <1>7, <1>8 DEF Only, ChildrenOf, WroteOn
  <1>10. Comes(fl[f].todo, <<"save">>)'
    BY <1>5, <1>6 DEF Comes, WroteOn
  <1> QED
    BY <1>6, <1>9, <1>10 DEF Replacing, ToSave, WroteOn

\* The children it lists are its own, under its parents.
LEMMA SaveReplaces ==
    ASSUME WriteInv, NEW f \in Flow, SaveChildren(f), ToSave(f)
    PROVE  Replacing(f)'
  <1> DEFINE owner == CHOOSE p \in Owners(f) : TRUE
             now == Current(f)
             list == Call(f).list
             saved(c) == [val |-> f, ver |-> 1, par |-> owner, del |-> now[c] # None /\ now[c].del]
             new == [c \in list |-> saved(c)]
             todo == Tail(fl[f].todo)
  <1>1. "save" \in Alone /\ At(f, "save") /\ Free(f) /\ fl[f].todo # <<>> /\ Head(fl[f].todo) = "save" /\ Write(f)
    BY DEF Alone, SaveChildren, Ready, At, Write, Proceeds, Statement
  <1>2. fl[f].inTx /\ Only(f) /\ todo \in Seq(Closing)
    BY StepsGoOn DEF ToSave
  <1>3. list \subseteq Child /\ owner \in Owners(f) /\ owner \in Parent
    <2>1. list # None /\ Call(f).ids # {} /\ plan \in Plan
      BY <1>1, IsSending DEF WriteInv
    <2>2. list \subseteq Child
      BY <2>1, CallTyped
    <2>3. Owners(f) # {}
      BY <2>1 DEF Owners
    <2> QED
      BY <2>2, <2>3, OwnersAre
  <1>4. CASE Throw(f, "foreignKey")
    BY <1>4, FaultsEnd DEF Throw, Replacing
  <1>5. CASE ~Throw(f, "foreignKey")
    <2>1. Writes(f, Goes(f), new) /\ Needs(f) = Written(list \cup Owners(f))
      BY <1>1, <1>5, NeedsAt DEF SaveChildren
    <2>2. /\ DOMAIN new = list
          /\ \A c \in list : new[c].val = f /\ new[c].par = owner /\ new[c] \in Row
      <3>1. \A c \in list : saved(c).val = f /\ saved(c).par = owner
        OBVIOUS
      <3>2. \A c \in list : saved(c) \in Row
        BY <1>3 DEF Row
      <3> HIDE DEF saved
      <3> QED
        BY <3>1, <3>2
    <2>3. SameBut(Goes(f), f, todo, fl[f].queue)
      BY <1>1, GoesOn, ThenSame DEF Goes
    <2> HIDE DEF new, todo, owner
    <2>4. WroteOn(f, todo, new)
      BY <1>1, <1>2, <2>1, <2>2, <2>3, WritesOn
    <2>5. HoldsOwners(f)'
      BY <1>2, <2>4 DEF Only, WroteOn
    <2>6. ASSUME NEW c \in Child, Current(f)'[c] # None, Current(f)'[c].par \in Owners(f), c \notin list
          PROVE  Current(f)'[c].del
      <3>1. Current(f)'[c] = Current(f)[c]
        BY <2>2, <2>4, <2>6 DEF WroteOn, Key
      <3> QED
        BY <1>2, <2>6, <3>1 DEF Only, ChildrenOf
    <2>7. Only(f)'
      BY <2>4, <2>5, <2>6 DEF Only, ChildrenOf, WroteOn
    <2>8. ASSUME NEW c \in list
          PROVE  lock'[c] = f /\ rows'[c] # None /\ rows'[c].par \in Owners(f) /\ rows'[c].val = f
      <3>1. c \in Key
        BY <1>3 DEF Key
      <3>2. lock'[c] = f /\ Current(f)'[c] = new[c]
        BY <2>2, <2>4, <3>1 DEF WroteOn
      <3>3. Current(f)'[c] = rows'[c]
        BY <3>1, <3>2 DEF Current
      <3> QED
        BY <1>3, <2>2, <3>2, <3>3, KeyAssumption
    <2>9. Listed(f)'
      BY <2>4, <2>8 DEF Listed, WroteOn
    <2> QED
      BY <1>2, <2>4, <2>7, <2>9 DEF Replacing, Closes, WroteOn
  <1> QED
    BY <1>4, <1>5

LEMMA ClosedIs ==
    ASSUME WriteInv, NEW f \in Flow, fl' = [fl EXCEPT ![f] = Closed(f)]
    PROVE  fl'[f].todo = Tail(fl[f].todo) /\ ~fl'[f].inTx
  <1>1. fl'[f] = Closed(f) /\ DOMAIN fl[f] = Fields
    BY NowKept
  <1>2. Closed(f).todo = Tail(fl[f].todo) /\ ~Closed(f).inTx
    BY <1>1 DEF Closed, Fields
  <1> QED
    BY <1>1, <1>2

\* Past its writes it has nothing left to change, and once it is committed nothing to hold.
LEMMA ClosingReplaces ==
    ASSUME WriteInv, NEW f \in Flow, Write(f), ~Faults(f), Closes(f), fl[f].todo # <<>>
    PROVE  Replacing(f)'
  <1>1. Head(fl[f].todo) \in Closing /\ Tail(fl[f].todo) \in Seq(Closing)
    BY HeadTailProperties DEF Closes
  <1>2. fl'[f].ids = fl[f].ids /\ plan' = plan
    BY <1>1, IdsLeft DEF Closing
  <1>3. ASSUME fl'[f].todo = Tail(fl[f].todo), fl'[f].inTx => fl[f].inTx /\ rows' = rows /\ base' = base /\ lock' = lock
        PROVE  Replacing(f)'
    <2>1. fl'[f].inTx => (Only(f) /\ Listed(f))' \/ Spared(f)'
      <3> SUFFICES ASSUME fl'[f].inTx PROVE (Only(f) /\ Listed(f))' \/ Spared(f)'
        OBVIOUS
      <3>1. (Only(f) /\ Listed(f)) \/ Spared(f)
        BY <1>3 DEF Closes
      <3>2. Only(f)' = Only(f) /\ Listed(f)' = Listed(f) /\ Spared(f)' = Spared(f)
        BY <1>2, <1>3, NothingMoves
      <3> QED
        BY <3>1, <3>2
    <2>2. Closes(f)'
      BY <1>1, <1>3, <2>1 DEF Closes
    <2> QED
      BY <2>2 DEF Replacing
  <1>4. CASE Head(fl[f].todo) = "commit"
    <2>1. fl' = [fl EXCEPT ![f] = Closed(f)]
      BY <1>4, StepAt DEF Commit
    <2>2. fl'[f].todo = Tail(fl[f].todo) /\ ~fl'[f].inTx
      BY <2>1, ClosedIs
    <2> QED
      BY <1>3, <2>2
  <1>5. CASE Head(fl[f].todo) = "hook"
    <2>1. rows' = rows /\ base' = base /\ lock' = lock /\ fl' = [fl EXCEPT ![f] = Goes(f)]
      BY <1>5, StepAt DEF Hook, store
    <2>2. fl'[f].todo = Tail(fl[f].todo) /\ fl'[f].inTx = fl[f].inTx
      BY <2>1, GoesOn
    <2> QED
      BY <1>3, <2>1, <2>2
  <1>6. CASE Head(fl[f].todo) = "readBack"
    <2> DEFINE told == {<<k, View(f)[k]>> : k \in WrittenIds(f)}
               kept == [Goes(f) EXCEPT !.told = told]
               after == [kept EXCEPT !.snap = Snapshot(f, TRUE)]
    <2>1. Sends(f, [Goes(f) EXCEPT !.told = told, !.snap = Snapshot(f, TRUE)], <<>>, {})
      BY <1>6, StepAt DEF ReadBack
    <2>2. after.todo = Tail(fl[f].todo) /\ after.inTx = fl[f].inTx
      <3>1. kept.todo = Tail(fl[f].todo) /\ kept.inTx = fl[f].inTx /\ DOMAIN kept = Fields
        BY GoesOn DEF Fields
      <3> HIDE DEF kept
      <3> QED
        BY <3>1 DEF Fields
    <2>3. fl' = [fl EXCEPT ![f] = after]
      BY <2>1 DEF Sends
    <2>4. rows' = rows /\ base' = base /\ lock' = lock
      <3>1. DOMAIN <<>> = {}
        OBVIOUS
      <3> HIDE DEF told
      <3> QED
        BY <2>1, <3>1 DEF Sends, Put, WriteInv, Tables
    <2> HIDE DEF after
    <2>5. fl'[f] = after
      BY <2>3, NowKept
    <2> QED
      BY <1>3, <2>2, <2>4, <2>5
  <1> QED
    BY <1>1, <1>4, <1>5, <1>6 DEF Closing

LEMMA OverStays ==
    ASSUME WriteInv, NEW f \in Flow, Write(f), ~Faults(f), fl[f].todo \in Over
    PROVE  fl'[f].todo \in Over
  <1>1. fl[f].todo = <<"rollback">> /\ Head(<<"rollback">>) = "rollback" /\ Tail(<<"rollback">>) = <<>>
    BY StepAt DEF Over
  <1>2. fl' = [fl EXCEPT ![f] = Closed(f)]
    BY <1>1, StepAt DEF Rollback
  <1>3. fl'[f].todo = <<>>
    BY <1>1, <1>2, ClosedIs
  <1> QED
    BY <1>3 DEF Over

\* Before its first statement a call only gets nearer to it.
LEMMA AheadReplaces ==
    ASSUME WriteInv, Owned, NEW f \in Flow, Replaces(Call(f)), Write(f), ~Faults(f), ToRead(f) \/ ToInsert(f)
    PROVE  Replacing(f)'
  <1>1. plan.versioned => Call(f).op # "update"
    BY LockableAssumption DEF WriteInv, Call, Replaces
  <1>2. ASSUME NEW s \in Seq(Named), s # <<>>, Leads(fl[f].todo, s), ~Comes(fl[f].todo, s)
        PROVE  /\ Leads(fl[f].todo, s)' /\ fl'[f].ids = fl[f].ids /\ plan' = plan
               /\ Clean(f) => Clean(f)'
    <2>1. fl[f].todo # <<>> /\ Head(fl[f].todo) \in Opening /\ Leads(Tail(fl[f].todo), s)
      BY <1>2, LeadsOn
    <2>2. /\ Leads(fl'[f].todo, s) /\ fl'[f].ids = fl[f].ids /\ plan' = plan
          /\ Clean(f) => Clean(f)'
      BY <1>1, <2>1, OpeningReplaces
    <2>3. s' = s => Leads(fl[f].todo, s)'
      BY <2>2 DEF Leads, Opening
    <2> QED
      BY <2>2, <2>3
  <1>3. Call(f).list # None
    BY DEF Replaces
  <1>4. CASE ToRead(f) /\ Leads(fl[f].todo, <<"settle">>) /\ ~plan.versioned /\ Call(f).op \in {"update", "upsert"}
    <2>1. CASE Comes(fl[f].todo, <<"settle">>)
      <3>1. Settle(f)
        BY <2>1, StepsGoOn, StepAt
      <3> QED
        BY <1>4, <2>1, <3>1, SettleReplaces
    <2>2. CASE ~Comes(fl[f].todo, <<"settle">>)
      <3>1. <<"settle">> \in Seq(Named) /\ <<"settle">> # <<>>
        BY StepsNamed
      <3>2. Leads(fl[f].todo, <<"settle">>)' /\ plan' = plan /\ (Clean(f) => Clean(f)')
        BY <1>2, <1>4, <2>2, <3>1
      <3>3. ToRead(f)'
        BY <1>4, <3>2 DEF ToRead, Call
      <3> QED
        BY <3>3 DEF Replacing
    <2> QED
      BY <2>1, <2>2
  <1>5. CASE ToRead(f) /\ Leads(fl[f].todo, <<"find">>) /\ Call(f).op = "upsert"
    <2>1. CASE Comes(fl[f].todo, <<"find">>)
      <3>1. ReadThenUpsert(f) /\ Clean(f)
        BY <1>5, <2>1, StepsGoOn, StepAt DEF ToRead
      <3> QED
        BY <1>5, <2>1, <3>1, FindReplaces
    <2>2. CASE ~Comes(fl[f].todo, <<"find">>)
      <3>1. <<"find">> \in Seq(Named) /\ <<"find">> # <<>>
        BY StepsNamed
      <3>2. Leads(fl[f].todo, <<"find">>)' /\ plan' = plan /\ (Clean(f) => Clean(f)')
        BY <1>2, <1>5, <2>2, <3>1
      <3>3. ToRead(f)'
        BY <1>5, <3>2 DEF ToRead, Call
      <3> QED
        BY <3>3 DEF Replacing
    <2> QED
      BY <2>1, <2>2
  <1>6. CASE ToInsert(f)
    <2>1. CASE Comes(fl[f].todo, <<"insert", "save">>)
      <3>1. InsertRows(f) /\ fl[f].ids = {} /\ Call(f).op \in {"upsert", "insert"}
        BY <1>6, <2>1, StepsGoOn, StepAt DEF ToInsert
      <3> QED
        BY <2>1, <3>1, InsertReplaces
    <2>2. CASE ~Comes(fl[f].todo, <<"insert", "save">>)
      <3> DEFINE s == <<"insert", "save">>
      <3>1. s \in Seq(Named) /\ s # <<>> /\ Leads(fl[f].todo, s)
        BY <1>6, StepsNamed DEF ToInsert
      <3>2. Leads(fl[f].todo, s)' /\ fl'[f].ids = fl[f].ids /\ plan' = plan
        BY <1>2, <2>2, <3>1
      <3> HIDE DEF s
      <3>3. ToInsert(f)'
        BY <1>6, <3>2 DEF ToInsert, Call, s
      <3> QED
        BY <3>3 DEF Replacing
    <2> QED
      BY <2>1, <2>2
  <1> QED
    BY <1>4, <1>5, <1>6 DEF ToRead

LEMMA OwnStepReplaces ==
    ASSUME WriteInv, Owned, NEW f \in Flow, Replaces(Call(f)), Replacing(f), Write(f)
    PROVE  Replacing(f)'
  <1>1. CASE Faults(f)
    BY <1>1, FaultsEnd DEF Faults, Replacing
  <1>2. CASE ~Faults(f)
    <2>1. fl[f].todo # <<>> /\ Call(f).list # None
      BY <1>2, StepAt DEF Replaces
    <2>2. CASE ToRead(f) \/ ToInsert(f)
      BY <1>2, <2>2, AheadReplaces
    <2>3. CASE ToRefuse(f)
      <3>1. Found(f) /\ plan.versioned
        BY <1>2, <2>3, StepsGoOn, StepAt DEF ToRefuse
      <3>2. fl'[f].todo \in Over
        BY <2>1, <3>1, FoundRefuses
      <3> QED
        BY <3>2 DEF Replacing
    <2>4. CASE ToDrop(f) /\ Comes(fl[f].todo, <<"columns", "drop", "save">>)
      <3>1. Columns(f)
        BY <1>2, <2>4, StepsGoOn, StepAt
      <3> QED
        BY <2>4, <3>1, ColumnsReplace
    <2>5. CASE ToDrop(f) /\ Comes(fl[f].todo, <<"drop", "save">>)
      <3>1. DropUnlisted(f)
        BY <1>2, <2>5, StepsGoOn, StepAt
      <3> QED
        BY <2>5, <3>1, DropReplaces
    <2>6. CASE ToSave(f)
      <3>1. SaveChildren(f)
        BY <1>2, <2>6, StepsGoOn, StepAt DEF ToSave
      <3> QED
        BY <2>6, <3>1, SaveReplaces
    <2>7. CASE Closes(f)
      BY <1>2, <2>1, <2>7, ClosingReplaces
    <2>8. CASE fl[f].todo \in Over
      BY <1>2, <2>8, OverStays DEF Replacing
    <2> QED
      BY <2>2, <2>3, <2>4, <2>5, <2>6, <2>7, <2>8 DEF Replacing, ToDrop
  <1> QED
    BY <1>1, <1>2

\* No other call brings a child under the parents it holds, or changes one that is there.
LEMMA OthersLetReplace ==
    ASSUME WriteInv, Unmoved, NEW h \in Flow, NEW f \in Flow \ {h}, Write(h), Replaces(Call(f)), Replacing(f)
    PROVE  Replacing(f)'
  <1>1. /\ plan' = plan /\ fl'[f] = fl[f]
        /\ \A k \in Key : /\ lock'[k] = f <=> lock[k] = f
                          /\ lock[k] = f => rows'[k] = rows[k] /\ base'[k] = base[k]
    BY OthersLeave
  <1>2. Call(f)' = Call(f) /\ Owners(f)' = Owners(f) /\ RowLocks' = RowLocks
    BY <1>1 DEF Call, Owners, RowLocks
  <1>3. \A s : (Leads(fl[f].todo, s)' <=> Leads(fl[f].todo, s)) /\ (Comes(fl[f].todo, s)' <=> Comes(fl[f].todo, s))
    BY <1>1 DEF Leads, Comes, Opening
  <1>4. Owners(f) \subseteq Parent /\ Owners(f) \subseteq Key /\ Call(f).ids \subseteq Key
    BY OwnersAre, CallTyped DEF WriteInv
  <1>5. Call(f).list \subseteq Child /\ Child \subseteq Key
    BY CallTyped DEF WriteInv, Replaces, Key
  <1>6. (Clean(f) => Clean(f)') /\ (Listed(f) => Listed(f)') /\ (Spared(f) => Spared(f)')
    <2>1. Clean(f) => Clean(f)'
      BY <1>1 DEF Clean
    <2>2. Listed(f) => Listed(f)'
      BY <1>1, <1>2, <1>5 DEF Listed
    <2>3. Spared(f) => Spared(f)'
      BY <1>1, <1>2, <1>4 DEF Spared
    <2> QED
      BY <2>1, <2>2, <2>3
  <1>7. HoldsOwners(f) => HoldsOwners(f)'
    BY <1>1, <1>2, <1>4 DEF HoldsOwners
  <1>8. ASSUME Only(f) PROVE Only(f)'
    <2>1. ASSUME NEW c \in Child, Current(f)'[c] # None, Current(f)'[c].par \in Owners(f)
          PROVE  Current(f)'[c].del \/ c \in Call(f).list
      <3>1. c \in Key /\ Current(f)[c] = IF lock[c] = f THEN rows[c] ELSE base[c]
        BY <1>5 DEF Current
      <3>2. Current(f)'[c] = IF lock[c] = f THEN rows[c] ELSE base'[c]
        BY <1>1, <3>1 DEF Current
      <3>3. CASE lock[c] = f
        <4>1. Current(f)'[c] = Current(f)[c]
          BY <3>1, <3>2, <3>3
        <4> QED
          BY <1>8, <2>1, <4>1 DEF Only, ChildrenOf
      <3>4. CASE lock[c] # f
        <4> DEFINE p == base'[c].par
        <4>1. Current(f)[c] = base[c] /\ Current(f)'[c] = base'[c]
          BY <3>1, <3>2, <3>4
        <4>2. base'[c] # None /\ p \in Owners(f) /\ p \in Parent /\ lock[p] = f
          BY <1>4, <1>8, <2>1, <4>1 DEF Only, HoldsOwners
        <4>3. base[c] # None /\ base[c].par = p /\ (base[c].del => base'[c].del)
          BY <3>4, <4>2, ChildStays
        <4> QED
          BY <1>8, <4>1, <4>2, <4>3 DEF Only, ChildrenOf
      <3> QED
        BY <3>3, <3>4
    <2> QED
      BY <1>2, <1>7, <1>8, <2>1 DEF Only, ChildrenOf
  <1>9. ToRead(f) => ToRead(f)'
    BY <1>1, <1>2, <1>3, <1>6 DEF ToRead
  <1>10. (ToInsert(f) => ToInsert(f)') /\ (ToRefuse(f) => ToRefuse(f)')
    BY <1>1, <1>2, <1>3 DEF ToInsert, ToRefuse
  <1>11. (ToDrop(f) => ToDrop(f)') /\ (ToSave(f) => ToSave(f)')
    BY <1>1, <1>2, <1>3, <1>7, <1>8 DEF ToDrop, ToSave
  <1>12. Closes(f) => Closes(f)'
    BY <1>1, <1>6, <1>8 DEF Closes
  <1> QED
    BY <1>1, <1>9, <1>10, <1>11, <1>12 DEF Replacing

FamilyInv == WriteInv /\ Unmoved /\ Owned /\ \A f \in Flow : Replaces(Call(f)) => Replacing(f)

LEMMA FamilyStarts == Init => FamilyInv
  <1> SUFFICES ASSUME Init PROVE FamilyInv
    OBVIOUS
  <1>1. WriteInv
    BY WritesStart
  <1>2. \A k \in Key : lock[k] = None
    BY DEF Init
  <1>3. Unmoved
    BY <1>2, WriterAssumption DEF Unmoved, Key
  <1>4. Owned
    <2>1. Referred(base)
      BY OwnerAssumption DEF Init, Referred
    <2>2. ASSUME NEW f \in Flow PROVE Current(f) = base
      <3>1. base \in [Key -> Row \cup {None}] /\ rows = base
        BY <1>1 DEF WriteInv, Tables, Init
      <3>2. Current(f) = [k \in Key |-> base[k]]
        BY <3>1 DEF Current
      <3> QED
        BY <3>1, <3>2
    <2> QED
      BY <2>1, <2>2 DEF Owned
  <1>5. ASSUME NEW f \in Flow, Replaces(Call(f)) PROVE Replacing(f)
    <2>1. fl[f].todo = Program(Call(f)) /\ fl[f].ids = {}
      BY DEF Init, Idle
    <2>2. plan.versioned => Call(f).op # "update"
      BY <1>1, <1>5, LockableAssumption DEF WriteInv, Call, Replaces
    <2>3. Leads(fl[f].todo, Starts(Call(f)))
      BY <1>5, <2>1, <2>2, ReplaceStarts
    <2>4. Clean(f)
      BY <1>2, WriterAssumption DEF Clean
    <2>5. plan.versioned \in BOOLEAN /\ Call(f).op \in {"update", "upsert", "insert"}
      BY <1>1, <1>5, PlanAssumption DEF WriteInv, Replaces
    <2> QED
      BY <2>1, <2>2, <2>3, <2>4, <2>5 DEF Replacing, ToRead, ToInsert, Starts
  <1> QED
    BY <1>1, <1>3, <1>4, <1>5 DEF FamilyInv

LEMMA FamilyStays == FamilyInv /\ [Next]_vars => FamilyInv'
  <1> SUFFICES ASSUME FamilyInv, [Next]_vars PROVE FamilyInv'
    OBVIOUS
  <1>1. WriteInv /\ Unmoved /\ Owned /\ WriteInv'
    BY NextKeeps DEF FamilyInv
  <1>2. CASE UNCHANGED vars
    <2>1. plan' = plan /\ rows' = rows /\ base' = base /\ lock' = lock /\ fl' = fl
      BY <1>2 DEF vars
    <2>2. Unmoved' /\ Owned'
      BY <1>1, <2>1 DEF Unmoved, Owned, Referred, Current
    <2>3. ASSUME NEW f \in Flow, Replaces(Call(f)') PROVE Replacing(f)'
      <3>1. Call(f)' = Call(f) /\ Replacing(f)
        BY <2>1, <2>3 DEF Call, FamilyInv
      <3>2. /\ Clean(f)' = Clean(f) /\ Only(f)' = Only(f) /\ Listed(f)' = Listed(f) /\ Spared(f)' = Spared(f)
            /\ HoldsOwners(f)' = HoldsOwners(f) /\ RowLocks' = RowLocks
        BY <2>1, NothingMoves
      <3>3. \A s : (Leads(fl[f].todo, s)' <=> Leads(fl[f].todo, s)) /\ (Comes(fl[f].todo, s)' <=> Comes(fl[f].todo, s))
        BY <2>1 DEF Leads, Comes, Opening
      <3> QED
        BY <2>1, <3>1, <3>2, <3>3 DEF Replacing, ToRead, ToInsert, ToRefuse, ToDrop, ToSave, Closes
    <2> QED
      BY <1>1, <2>2, <2>3 DEF FamilyInv, Replaces
  <1>3. ASSUME NEW h \in Flow, Write(h) PROVE FamilyInv'
    <2>1. Unmoved' /\ Owned' /\ plan' = plan
      BY <1>1, <1>3, UnmovedStays, OwnedStays, StepKinds
    <2>2. ASSUME NEW f \in Flow, Replaces(Call(f)') PROVE Replacing(f)'
      <3>1. Replaces(Call(f)) /\ Replacing(f)
        BY <2>1, <2>2 DEF FamilyInv, Call
      <3> QED
        BY <1>1, <1>3, <3>1, OwnStepReplaces, OthersLetReplace
    <2> QED
      BY <1>1, <2>1, <2>2 DEF FamilyInv, Replaces
  <1> QED
    BY <1>2, <1>3 DEF Next

\* What it commits is the list it was called with.
LEMMA CommitReplaces ==
    ASSUME FamilyInv, [Next]_vars, NEW f \in Flow, Commits(f), WritesRelations(Call(f)), WritesParents(f)
    PROVE  LET children == ChildrenOf(base', Owners(f))
           IN  /\ {c \in children : ~base'[c].del} \subseteq Call(f).list
               /\ Call(f).list \subseteq children
               /\ \A c \in Call(f).list : base'[c].val = f
  <1>1. WriteInv /\ Replaces(Call(f)) /\ Replacing(f)
    BY DEF FamilyInv, Replaces, WritesRelations, WritesParents
  <1>2. Commit(f) /\ fl[f].inTx /\ fl[f].todo # <<>> /\ Head(fl[f].todo) = "commit"
    BY <1>1, CommitIs
  <1>3. base' = Current(f) /\ \A k \in Key : base'[k] = IF lock[k] = f THEN rows[k] ELSE base[k]
    BY <1>2 DEF Commit, Current
  <1>4. Closes(f)
    <2>1. ASSUME NEW s \in {"settle", "find"}, Leads(fl[f].todo, <<s>>) PROVE FALSE
      <3>1. <<s>> \in Seq(Named) /\ <<s>> # <<>> /\ "commit" \notin Opening
        BY DEF Named, Opening
      <3>2. Comes(fl[f].todo, <<s>>)
        BY <1>2, <2>1, <3>1, LeadsOn
      <3> QED
        BY <1>2, <3>2, StepsGoOn
    <2>2. ~Leads(fl[f].todo, <<"insert", "save">>)
      <3> SUFFICES ASSUME Leads(fl[f].todo, <<"insert", "save">>) PROVE FALSE
        OBVIOUS
      <3> DEFINE s == <<"insert", "save">>
      <3>1. s \in Seq(Named) /\ s # <<>> /\ "commit" \notin Opening /\ Leads(fl[f].todo, s)
        BY StepsNamed DEF Opening
      <3> HIDE DEF s
      <3>2. Comes(fl[f].todo, s)
        BY <1>2, <3>1, LeadsOn
      <3> QED
        BY <1>2, <3>2, StepsGoOn DEF s
    <2>3. ~ToRead(f) /\ ~ToInsert(f)
      BY <2>1, <2>2 DEF ToRead, ToInsert
    <2>4. ~ToRefuse(f) /\ ~ToDrop(f) /\ ~ToSave(f)
      BY <1>2, StepsGoOn DEF ToRefuse, ToDrop, ToSave
    <2>5. fl[f].todo \notin Over
      <3>1. Head(<<"rollback">>) = "rollback"
        OBVIOUS
      <3> QED
        BY <1>2, <3>1 DEF Over
    <2> QED
      BY <1>1, <2>3, <2>4, <2>5 DEF Replacing
  <1>5. Only(f) /\ Listed(f)
    <2> SUFFICES ASSUME Spared(f) PROVE FALSE
      BY <1>2, <1>4 DEF Closes
    <2>1. PICK k \in Call(f).ids : base[k] = None /\ base'[k] # None
      BY DEF Spared, WritesParents
    <2>2. k \in Key
      BY <1>1, CallTyped DEF WriteInv
    <2> QED
      BY <1>3, <2>1, <2>2 DEF Spared
  <1>6. Call(f).list \subseteq Child /\ Child \subseteq Key
    BY <1>1, CallTyped DEF WriteInv, Replaces, Key
  <1>7. \A c \in Call(f).list : base'[c] = rows[c]
    BY <1>3, <1>5, <1>6 DEF Listed
  <1>8. \A c \in ChildrenOf(base', Owners(f)) : base'[c].del \/ c \in Call(f).list
    BY <1>3, <1>5 DEF Only
  <1>9. Call(f).list \subseteq ChildrenOf(base', Owners(f))
    BY <1>5, <1>6, <1>7 DEF Listed, ChildrenOf
  <1> QED
    BY <1>5, <1>7, <1>8, <1>9 DEF Listed

\* A call that writes a parent's relation commits it with exactly the children it lists, its own, or ones that are
\* deleted, whatever other calls ran meanwhile: it holds the parent from before it deletes those it does not list,
\* and a statement that would put a child under a parent another call holds waits (`replaceChildren`), as on each
\* engine of `Engine`, and not on SQL Server, whose update lock lets the check of a foreign key by.
THEOREM ReplaceIsWholeAlways == Spec => ReplaceIsWhole
  <1>1. FamilyInv /\ [Next]_vars =>
          [\A f \in Flow :
              Commits(f) /\ WritesRelations(Call(f)) /\ WritesParents(f)
              => LET children == ChildrenOf(base', Owners(f))
                 IN  /\ {c \in children : ~base'[c].del} \subseteq Call(f).list
                     /\ Call(f).list \subseteq children
                     /\ \A c \in Call(f).list : base'[c].val = f]_vars
    BY CommitReplaces
  <1> QED
    BY <1>1, FamilyStarts, FamilyStays, PTL DEF Spec, ReplaceIsWhole
=============================================================================
