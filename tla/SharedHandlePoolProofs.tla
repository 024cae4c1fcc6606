----------------------- MODULE SharedHandlePoolProofs -----------------------
(***************************************************************************)
(* For any callers, opens and number of calls: the types of the pool of    *)
(* one handle, that no handle is left that nothing will close, and that    *)
(* without an `end` every querier is on the same handle.                   *)
(***************************************************************************)
EXTENDS SharedHandlePool, TLAPS

(***************************************************************************)
(* What a flow awaits was opened; an `end` awaits one the pool has         *)
(* forgotten, so closing it takes nothing from the pool.                   *)
(***************************************************************************)
Awaited ==
    /\ \A f \in Flow : awaits[f] # NoOpen => handle[awaits[f]] # "unused"
    /\ \A f \in Ender : awaits[f] # NoOpen => awaits[f] # opening

TypeInv == TypeOK /\ Awaited

LEMMA NextOpenIsUnused ==
    ASSUME Unused # {}
    PROVE  NextOpen \in Open /\ handle[NextOpen] = "unused"
BY DEF Unused, NextOpen

LEMMA ModeIsChosenOnce == [Next]_vars => mode' = mode
<1>1. ASSUME NEW o \in Open, OpenDb(o) \/ Catch(o) PROVE mode' = mode
      BY <1>1 DEF OpenDb, Catch
<1>2. ASSUME NEW f \in Caller, GetQuerier(f) \/ Acquired(f) PROVE mode' = mode
      BY <1>2 DEF GetQuerier, Acquired
<1>3. ASSUME NEW f \in Ender, End(f) \/ Close(f) PROVE mode' = mode
      BY <1>3 DEF End, Close
<1> QED BY <1>1, <1>2, <1>3 DEF Next, Settling, vars

LEMMA TypeInit == Init => TypeInv
BY OpenAssumption, BoundAssumption DEF Init, TypeInv, TypeOK, Awaited, Flow

LEMMA TypeStep == TypeInv /\ [Next]_vars => TypeInv'
<1> SUFFICES ASSUME TypeInv, [Next]_vars PROVE TypeInv'
    OBVIOUS
<1> USE OpenAssumption, BoundAssumption DEF TypeInv, TypeOK, Awaited, Flow
<1>1. ASSUME NEW o \in Open, OpenDb(o) PROVE TypeInv'
      BY <1>1 DEF OpenDb
<1>2. ASSUME NEW o \in Open, Catch(o) PROVE TypeInv'
      BY <1>2 DEF Catch
<1>3. ASSUME NEW f \in Caller, GetQuerier(f) PROVE TypeInv'
  <2>1. calls' \in [Flow -> 0..MaxCalls]
        BY <1>3 DEF GetQuerier, CanCall, Count
  <2>2. CASE opening # NoOpen
        BY <1>3, <2>1, <2>2 DEF GetQuerier, CanCall
  <2>3. CASE opening = NoOpen
        BY <1>3, <2>1, <2>3, NextOpenIsUnused DEF GetQuerier, CanCall
  <2> QED BY <2>2, <2>3
<1>4. ASSUME NEW f \in Caller, Acquired(f) PROVE TypeInv'
      BY <1>4 DEF Acquired
<1>5. ASSUME NEW f \in Ender, End(f) PROVE TypeInv'
  <2>1. calls' \in [Flow -> 0..MaxCalls]
        BY <1>5 DEF End, CanCall, Count
  <2> QED BY <1>5, <2>1 DEF End, CanCall
<1>6. ASSUME NEW f \in Ender, Close(f) PROVE TypeInv'
      BY <1>6 DEF Close
<1>7. CASE UNCHANGED vars
      BY <1>7 DEF vars
<1> QED BY <1>1, <1>2, <1>3, <1>4, <1>5, <1>6, <1>7 DEF Next, Settling

\* Every variable of the pool keeps its type, and the pool knows of no open that failed or was closed.
THEOREM TypeCorrect == Spec => []TypeOK
<1>1. TypeInv => TypeOK
      BY DEF TypeInv
<1> QED BY TypeInit, TypeStep, <1>1, PTL DEF Spec

-----------------------------------------------------------------------------
(***************************************************************************)
(* With no `end`: the pool knows of every open not over, and each querier  *)
(* is on one that opened.                                                  *)
(***************************************************************************)
Kept ==
    "ends" \notin mode =>
        /\ \A f \in Ender : awaits[f] = NoOpen
        /\ \A o \in Open : handle[o] # "closed"
        /\ \A o \in Open : handle[o] \in {"pending", "opened", "failed"} => opening = o
        /\ \A f \in Caller : querier[f] # NoOpen => handle[querier[f]] = "opened"

LEMMA KeptInit == Init => Kept
BY OpenAssumption DEF Init, Kept, Flow

LEMMA KeptStep == TypeInv /\ Kept /\ [Next]_vars => Kept'
<1> SUFFICES ASSUME TypeInv, Kept, [Next]_vars PROVE Kept'
    OBVIOUS
<1>0. SUFFICES ASSUME "ends" \notin mode PROVE Kept'
      BY ModeIsChosenOnce DEF Kept
<1> USE <1>0, OpenAssumption DEF TypeInv, TypeOK, Kept, Flow
<1>1. ASSUME NEW o \in Open, OpenDb(o) PROVE Kept'
      BY <1>1 DEF OpenDb
<1>2. ASSUME NEW o \in Open, Catch(o) PROVE Kept'
      BY <1>2 DEF Catch
<1>3. ASSUME NEW f \in Caller, GetQuerier(f) PROVE Kept'
  <2>1. CASE opening # NoOpen
        BY <1>3, <2>1 DEF GetQuerier, CanCall
  <2>2. CASE opening = NoOpen
        BY <1>3, <2>2, NextOpenIsUnused DEF GetQuerier, CanCall
  <2> QED BY <2>1, <2>2
<1>4. ASSUME NEW f \in Caller, Acquired(f) PROVE Kept'
      BY <1>4 DEF Acquired
<1>5. ASSUME NEW f \in Ender, End(f) \/ Close(f) PROVE Kept'
      BY <1>5 DEF End, Close
<1>6. CASE UNCHANGED vars
      BY <1>6 DEF vars
<1> QED BY <1>1, <1>2, <1>3, <1>4, <1>5, <1>6 DEF Next, Settling

\* While nothing ends the pool, all its queriers are on one handle, however many opens failed before it.
THEOREM QueriersShareHandle == Spec => []OneDatabase
<1>1. TypeInv /\ Kept => OneDatabase
      BY DEF TypeInv, TypeOK, Kept, OneDatabase
<1> QED BY TypeInit, TypeStep, KeptInit, KeptStep, <1>1, PTL DEF Spec

-----------------------------------------------------------------------------
(***************************************************************************)
(* With no open that fails, no `catch` runs late and forgets the open of   *)
(* another: each open the pool forgets is one an `end` awaits.             *)
(***************************************************************************)
Closable ==
    "fails" \notin mode =>
        /\ \A o \in Open : handle[o] \notin {"failed", "settled"}
        /\ NoHandleLeaks

LEMMA ClosableInit == Init => Closable
BY DEF Init, Closable, NoHandleLeaks

LEMMA ClosableStep == TypeInv /\ Closable /\ [Next]_vars => Closable'
<1> SUFFICES ASSUME TypeInv, Closable, [Next]_vars PROVE Closable'
    OBVIOUS
<1>0. SUFFICES ASSUME "fails" \notin mode PROVE Closable'
      BY ModeIsChosenOnce DEF Closable
<1> USE <1>0, OpenAssumption DEF TypeInv, TypeOK, Closable, NoHandleLeaks, Flow
<1>1. ASSUME NEW o \in Open, OpenDb(o) PROVE Closable'
      BY <1>1 DEF OpenDb
<1>2. ASSUME NEW o \in Open, Catch(o) PROVE Closable'
      BY <1>2 DEF Catch
<1>3. ASSUME NEW f \in Caller, GetQuerier(f) PROVE Closable'
  <2>1. CASE opening # NoOpen
        BY <1>3, <2>1 DEF GetQuerier, CanCall
  <2>2. CASE opening = NoOpen
        BY <1>3, <2>2, NextOpenIsUnused DEF GetQuerier, CanCall
  <2> QED BY <2>1, <2>2
<1>4. ASSUME NEW f \in Caller, Acquired(f) PROVE Closable'
      BY <1>4 DEF Acquired
<1>5. ASSUME NEW f \in Ender, End(f) PROVE Closable'
      BY <1>5 DEF End, CanCall
<1>6. ASSUME NEW f \in Ender, Close(f) PROVE Closable'
      BY <1>6 DEF Close
<1>7. CASE UNCHANGED vars
      BY <1>7 DEF vars
<1> QED BY <1>1, <1>2, <1>3, <1>4, <1>5, <1>6, <1>7 DEF Next, Settling

\* Where opens may fail or the pool may end, and not both, every handle open or opening is one the pool knows
\* of or one an `end` closes. Where both happen it is not so: a late `catch` forgets the open of another.
THEOREM EveryHandleIsClosed ==
    ASSUME \A m \in Mode : ~ Happening \subseteq m
    PROVE  Spec => []NoHandleLeaks
<1>1. TypeInv /\ Kept /\ Closable => NoHandleLeaks
      BY DEF TypeInv, TypeOK, Kept, Closable, NoHandleLeaks, Happening
<1> QED BY TypeInit, TypeStep, KeptInit, KeptStep, ClosableInit, ClosableStep, <1>1, PTL DEF Spec
=============================================================================
