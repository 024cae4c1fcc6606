---------------------------- MODULE Transactions ----------------------------
(***************************************************************************)
(* The transactions of the queriers of one process: who holds a            *)
(* connection, who waits, what is queued behind what, and what of it the   *)
(* database keeps.                                                         *)
(*                                                                         *)
(* A flow is a chain of awaits: a request, a promise started beside        *)
(* another, a timer.  The process runs one flow at a time and switches     *)
(* only at an await, so an action is the code between two awaits.  A       *)
(* querier runs its statements through a queue of its own (`taskQueue`);   *)
(* a connection has one slot (`TransactionSlot`), shared by every querier  *)
(* on it, which says whose transaction it is in.  The database's side of a *)
(* connection is `engine`: the open transaction, the writes in it and its  *)
(* savepoints.                                                             *)
(*                                                                         *)
(* src/packages/orm/src/querier/transaction.ts, abstractQuerier.ts,        *)
(* abstractSqlQuerier.ts, abstractPoolQuerier.ts.                          *)
(***************************************************************************)
EXTENDS Naturals, Sequences, FiniteSets

CONSTANTS
    Flow,           \* every flow of the process
    NoFlow,
    Querier,
    NoQuerier,
    Connection,
    ConnectionOf,   \* [Querier -> Connection]: the getter `connection`
    Scope,          \* the TransactionScope objects an instance may create
    NoScope,
    Plan,           \* the ways the flows may use the queriers, one chosen per behaviour
    MaxFaults       \* commands the database refuses, over a behaviour

CallKind == {"statement", "transaction", "begin", "commit", "rollback",
             "onCommit", "stream", "release"}

\* Which querier each flow was handed, which calls it makes and how many, and which flows another one
\* starts from inside its callback.
PlanRecord == [querier : [Flow -> Querier],
               calls : [Flow -> [kinds : SUBSET CallKind, left : Nat]],
               branches : SUBSET Flow]

ASSUME FlowAssumption ==
    /\ NoFlow \notin Flow
    /\ ConnectionOf \in [Querier -> Connection]
    /\ NoQuerier \notin Querier
    /\ NoScope \notin Scope
ASSUME PlanAssumption == Plan \subseteq PlanRecord
ASSUME BoundAssumption == MaxFaults \in Nat

VARIABLES
    \* The connection's slot and what the scopes are.
    held,         \* [Connection -> Scope or NoScope]: `slot.held`
    scope,        \* [Scope -> ScopeRecord]: what each TransactionScope is
    nested,       \* [Scope -> Scope or NoScope]: `parent.nested`, the last transaction queued in it
    settled,      \* the nested transactions that ended, whose promise the next one waits for
    onCommit,     \* [Scope -> SUBSET Scope]: whose callbacks it gathered
    \* The querier.
    queue,        \* [Querier -> Seq(Task)]: `taskQueue`
    stream,       \* [Querier -> Flow or NoFlow]: `#stream`, by the flow reading it
    hasOpen,      \* [Querier -> BOOLEAN]: `hasOpenTransaction`
    unusable,     \* [Querier -> BOOLEAN]: `#unusable`
    released,     \* [Querier -> BOOLEAN]: `#released`
    conn,         \* [Querier -> {"mine", "kept", "discarded"}]: its connection, once handed back
    \* The flows.
    pc,
    job,          \* what it awaits, or is about to ask for
    ctx,          \* the scope its AsyncLocalStorage holds
    on,           \* the querier it was handed
    calls,        \* the calls it has left to make
    \* The database, and what happened.
    engine,       \* [Connection -> [tx, writes, saves]]
    faults,
    committed,    \* the roots the database committed
    undone,       \* the scopes the database rolled back
    aborted,      \* the connections in a transaction that takes nothing more: Postgres, once it refused a command
    spoiled,      \* the roots given up at a refused command, and the nested ones it would not roll back to
    dirty,        \* the connections where a ROLLBACK or the close of a stream failed: nobody knows what is left
    ran           \* the scopes whose onCommit callbacks ran

slotVars == <<held, scope, nested, settled, onCommit>>
querierVars == <<queue, stream, hasOpen, unusable, released, conn>>
flowVars == <<pc, job, ctx, on, calls>>
engineVars == <<engine, faults, committed, undone, aborted, spoiled, dirty>>
vars == <<slotVars, querierVars, flowVars, engineVars, ran>>

(***************************************************************************)
(* Types.  A scope's root, depth and lineage are computed once, as it is    *)
(* created: its parent is readonly, so `rootOf` and `depthOf` never change. *)
(***************************************************************************)
JobKind == {"statement", "begin", "commit", "rollback", "check", "handback",
            "savepoint", "releaseSavepoint", "rollbackTo", "none"}
NeedsScope == {"begin", "commit", "savepoint", "releaseSavepoint", "rollbackTo"}
Job == {j \in [kind : JobKind, scope : Scope \cup {NoScope}] : j.kind \in NeedsScope => j.scope # NoScope}
Idle == [kind |-> "none", scope |-> NoScope]
Task == {t \in [flow : Flow, kind : JobKind, scope : Scope \cup {NoScope}, within : Scope \cup {NoScope}] :
            t.kind \in NeedsScope => t.scope # NoScope}
ScopeRecord == [querier : Querier \cup {NoQuerier}, parent : Scope \cup {NoScope},
                root : Scope \cup {NoScope}, depth : Nat, lineage : SUBSET Scope, manual : BOOLEAN,
                flow : Flow \cup {NoFlow}, outer : Scope \cup {NoScope}, after : Scope \cup {NoScope}]
Unused == [querier |-> NoQuerier, parent |-> NoScope, root |-> NoScope, depth |-> 0, lineage |-> {},
           manual |-> FALSE, flow |-> NoFlow, outer |-> NoScope, after |-> NoScope]
Savepoint == [depth : Nat, writes : Seq(Scope \cup {NoScope})]
Session == [tx : Scope \cup {NoScope}, writes : Seq(Scope \cup {NoScope}), saves : Seq(Savepoint)]
NoTransaction == [tx |-> NoScope, writes |-> <<>>, saves |-> <<>>]
Place == {"idle", "run", "claim", "call", "queued", "nest", "stream", "returning",
          "checked", "abort", "callbacks"}

TypeOK ==
    /\ held \in [Connection -> Scope \cup {NoScope}]
    /\ scope \in [Scope -> ScopeRecord]
    /\ nested \in [Scope -> Scope \cup {NoScope}]
    /\ settled \subseteq Scope
    /\ onCommit \in [Scope -> SUBSET Scope]
    /\ queue \in [Querier -> Seq(Task)]
    /\ stream \in [Querier -> Flow \cup {NoFlow}]
    /\ hasOpen \in [Querier -> BOOLEAN]
    /\ unusable \in [Querier -> BOOLEAN]
    /\ released \in [Querier -> BOOLEAN]
    /\ conn \in [Querier -> {"mine", "kept", "discarded"}]
    /\ pc \in [Flow -> Place]
    /\ job \in [Flow -> Job]
    /\ ctx \in [Flow -> Scope \cup {NoScope}]
    /\ on \in [Flow -> Querier]
    /\ calls \in [Flow -> [kinds : SUBSET CallKind, left : Nat]]
    /\ engine \in [Connection -> Session]
    /\ faults \in 0..MaxFaults
    /\ committed \subseteq Scope
    /\ undone \subseteq Scope
    /\ aborted \subseteq Connection
    /\ spoiled \subseteq Scope
    /\ dirty \subseteq Connection
    /\ ran \subseteq Scope

Init ==
    /\ held = [c \in Connection |-> NoScope]
    /\ scope = [s \in Scope |-> Unused]
    /\ nested = [s \in Scope |-> NoScope]
    /\ settled = {}
    /\ onCommit = [s \in Scope |-> {}]
    /\ queue = [q \in Querier |-> <<>>]
    /\ stream = [q \in Querier |-> NoFlow]
    /\ hasOpen = [q \in Querier |-> FALSE]
    /\ unusable = [q \in Querier |-> FALSE]
    /\ released = [q \in Querier |-> FALSE]
    /\ conn = [q \in Querier |-> "mine"]
    /\ \E plan \in Plan :
          /\ pc = [f \in Flow |-> IF f \in plan.branches THEN "idle" ELSE "run"]
          /\ on = plan.querier
          /\ calls = plan.calls
    /\ job = [f \in Flow |-> Idle]
    /\ ctx = [f \in Flow |-> NoScope]
    /\ engine = [c \in Connection |-> NoTransaction]
    /\ faults = 0
    /\ committed = {}
    /\ undone = {}
    /\ aborted = {}
    /\ spoiled = {}
    /\ dirty = {}
    /\ ran = {}

-----------------------------------------------------------------------------
(***************************************************************************)
(* Reading the slot.                                                       *)
(***************************************************************************)
SlotOf(q) == ConnectionOf[q]
Shared(c) == \E p, q \in Querier : p # q /\ ConnectionOf[p] = c /\ ConnectionOf[q] = c
RootOf(s) == scope[s].root
Root(s) == IF s = NoScope THEN NoScope ELSE RootOf(s)

\* A scope and every one it is nested in.
Lineage(s) == IF s = NoScope THEN {} ELSE scope[s].lineage

\* A variation that forgets the transaction may have ended.
CurrentTransaction_Stale(f, c) ==
    IF ctx[f] # NoScope /\ SlotOf(scope[ctx[f]].querier) = c THEN ctx[f] ELSE NoScope

\* The flow's AsyncLocalStorage scope, where it belongs to this connection and its root still holds it.
CurrentTransaction(f, c) ==
    IF /\ ctx[f] # NoScope
       /\ SlotOf(scope[ctx[f]].querier) = c
       /\ held[c] = RootOf(ctx[f])
    THEN ctx[f]
    ELSE NoScope

ScopeHere(f) ==
    LET q == on[f]
        h == held[SlotOf(q)]
        current == CurrentTransaction(f, SlotOf(q))
    IN  CASE h # NoScope /\ current # NoScope -> current
          [] h # NoScope /\ current = NoScope /\ scope[h].manual /\ scope[h].querier = q -> h
          [] OTHER -> NoScope

\* A variation where nothing waits for another flow's transaction.
Blocked_Never(f) == FALSE

\* A transaction another flow holds on the connection: what `serialize` and a stream wait for.
Blocked(f) == held[SlotOf(on[f])] # NoScope /\ ScopeHere(f) = NoScope

Holds(q) == held[SlotOf(q)] # NoScope /\ scope[held[SlotOf(q)]].querier = q

\* The flow runs the callback of a transaction of its own.
InCallback(f) == ctx[f] # NoScope /\ scope[ctx[f]].flow = f

Fresh == {s \in Scope : scope[s] = Unused}
NextScope == CHOOSE s \in Fresh : TRUE
NewScope(f, parent, manual) ==
    [scope EXCEPT ![NextScope] =
       [querier |-> on[f], parent |-> parent, manual |-> manual, flow |-> f, outer |-> ctx[f],
        after |-> IF parent = NoScope THEN NoScope ELSE nested[parent],
        root |-> IF parent = NoScope THEN NextScope ELSE RootOf(parent),
        depth |-> IF parent = NoScope THEN 0 ELSE scope[parent].depth + 1,
        lineage |-> {NextScope} \cup Lineage(parent)]]

CanCall(f, kind) == pc[f] = "run" /\ kind \in calls[f].kinds /\ calls[f].left > 0
Count(f) == calls' = [calls EXCEPT ![f].left = @ - 1]
Go(f, place, kind, s) ==
    /\ pc' = [pc EXCEPT ![f] = place]
    /\ job' = [job EXCEPT ![f] = [kind |-> kind, scope |-> s]]

-----------------------------------------------------------------------------
(***************************************************************************)
(* What a call does once the task it awaits answers, or is refused: the    *)
(* continuation of each `await this.serialize(...)`.                       *)
(***************************************************************************)
OwnTransaction(j) == j.scope # NoScope /\ ~scope[j.scope].manual

\* The answers that end a callback's transaction, or its savepoint, and leave its context.
Ends(j, ok) ==
    /\ OwnTransaction(j)
    /\ \/ j.kind \in {"rollback", "rollbackTo"}
       \/ ok /\ j.kind \in {"commit", "releaseSavepoint"}
       \/ ~ok /\ j.kind \in {"begin", "savepoint"}

\* A variation where a nested transaction ends and the next one is not told.
EndsNested_Never(j, ok) == FALSE

EndsNested(j, ok) == Ends(j, ok) /\ scope[j.scope].parent # NoScope

\* Variations: a commit taken for done whatever it answers; a refusal nobody handles.
NextPlace_AnyCommit(j, ok) == IF j.kind = "commit" THEN "callbacks" ELSE IF j.kind = "check" THEN "checked" ELSE "run"
NextPlace_Unhandled(j, ok) == IF ok THEN NextPlace_AnyCommit(j, ok) ELSE "rejected"

NextPlace(j, ok) ==
    CASE j.kind = "check" -> "checked"
      [] j.kind = "commit" /\ ok -> "callbacks"
      [] ~ok /\ OwnTransaction(j) /\ j.kind \in {"commit", "releaseSavepoint"} -> "abort"
      [] OTHER -> "run"

\* A variation where a nested transaction that succeeded does not hand its callbacks to its parent.
Settle_KeepsCallbacks(f, ok) ==
    LET j == job[f]
        parent == scope[j.scope].parent
    IN  /\ pc' = [pc EXCEPT ![f] = NextPlace(j, ok)]
        /\ job' = IF NextPlace(j, ok) = "callbacks" THEN job ELSE [job EXCEPT ![f] = Idle]
        /\ ctx' = IF Ends(j, ok) THEN [ctx EXCEPT ![f] = scope[j.scope].outer] ELSE ctx
        /\ settled' = IF EndsNested(j, ok) THEN settled \cup {j.scope} ELSE settled
        /\ UNCHANGED <<on, calls, scope, nested, onCommit>>

Settle(f, ok) ==
    LET j == job[f]
        parent == scope[j.scope].parent
    IN  /\ pc' = [pc EXCEPT ![f] = NextPlace(j, ok)]
        /\ job' = IF NextPlace(j, ok) = "callbacks" THEN job ELSE [job EXCEPT ![f] = Idle]
        /\ ctx' = IF Ends(j, ok) THEN [ctx EXCEPT ![f] = scope[j.scope].outer] ELSE ctx
        /\ settled' = IF EndsNested(j, ok) THEN settled \cup {j.scope} ELSE settled
        /\ onCommit' = IF Ends(j, ok) /\ j.kind = "releaseSavepoint"
                       THEN [onCommit EXCEPT ![parent] = @ \cup onCommit[j.scope]]
                       ELSE onCommit
        /\ UNCHANGED <<on, calls, scope, nested>>

Free(q) == held' = [held EXCEPT ![SlotOf(q)] = NoScope]

\* The connection still answers this querier's commands; a shared handle is never handed back.
Connected(q) == conn[q] = "mine"
Spill(q) == dirty' = IF Connected(q) THEN dirty \cup {SlotOf(q)} ELSE dirty

-----------------------------------------------------------------------------
(***************************************************************************)
(* The calls a flow makes.                                                 *)
(***************************************************************************)
\* Any statement: a read or a write run through `serialize`.
Statement(f) ==
    /\ CanCall(f, "statement")
    /\ Count(f)
    /\ Go(f, "call", "statement", NoScope)
    /\ UNCHANGED <<slotVars, querierVars, ctx, on, engineVars, ran>>

\* A variation that takes the slot without looking at it again.
ClaimNow_NoWait(f, s) ==
    /\ held' = [held EXCEPT ![SlotOf(on[f])] = s]
    /\ Go(f, "call", "begin", s)

\* `claim`: the slot is taken in the turn that found it free, or waited for.
ClaimNow(f, s) ==
    IF held[SlotOf(on[f])] = NoScope
    THEN /\ held' = [held EXCEPT ![SlotOf(on[f])] = s]
         /\ Go(f, "call", "begin", s)
    ELSE /\ UNCHANGED held
         /\ Go(f, "claim", "begin", s)

Transaction(f) ==
    /\ CanCall(f, "transaction")
    /\ ScopeHere(f) = NoScope
    /\ Fresh # {}
    /\ Count(f)
    /\ scope' = NewScope(f, NoScope, FALSE)
    /\ ctx' = [ctx EXCEPT ![f] = NextScope]
    /\ ClaimNow(f, NextScope)
    /\ UNCHANGED <<nested, settled, onCommit, querierVars, on, engineVars, ran>>

\* `nested`: a transaction inside the one this flow runs in, after any other its parent runs.
Nested(f) ==
    /\ CanCall(f, "transaction")
    /\ ScopeHere(f) # NoScope
    /\ Fresh # {}
    /\ Count(f)
    /\ scope' = NewScope(f, ScopeHere(f), FALSE)
    /\ nested' = [nested EXCEPT ![ScopeHere(f)] = NextScope]
    /\ Go(f, "nest", "savepoint", NextScope)
    /\ UNCHANGED <<held, settled, onCommit, querierVars, ctx, on, engineVars, ran>>

NestedTurn(f) ==
    /\ pc[f] = "nest"
    /\ scope[job[f].scope].after \in settled \cup {NoScope}
    /\ ctx' = [ctx EXCEPT ![f] = job[f].scope]
    /\ pc' = [pc EXCEPT ![f] = "call"]
    /\ UNCHANGED <<slotVars, querierVars, job, on, calls, engineVars, ran>>

BeginTransaction(f) ==
    /\ CanCall(f, "begin")
    /\ Count(f)
    /\ IF ScopeHere(f) # NoScope
       THEN UNCHANGED <<held, scope, pc, job>>     \* 'pending transaction'
       ELSE /\ Fresh # {}
            /\ scope' = NewScope(f, NoScope, TRUE)
            /\ ClaimNow(f, NextScope)
    /\ UNCHANGED <<nested, settled, onCommit, querierVars, ctx, on, engineVars, ran>>

Claim(f) ==
    /\ pc[f] = "claim"
    /\ held[SlotOf(on[f])] = NoScope
    /\ held' = [held EXCEPT ![SlotOf(on[f])] = job[f].scope]
    /\ pc' = [pc EXCEPT ![f] = "call"]
    /\ UNCHANGED <<scope, nested, settled, onCommit, querierVars, job, ctx, on, calls, engineVars, ran>>

CommitTransaction(f) ==
    LET h == held[SlotOf(on[f])]
    IN  /\ CanCall(f, "commit")
        /\ Count(f)
        /\ IF h # NoScope /\ scope[h].manual /\ scope[h].querier = on[f]
           THEN Go(f, "call", "commit", h)
           ELSE UNCHANGED <<pc, job>>              \* 'not a pending transaction'
        /\ UNCHANGED <<slotVars, querierVars, ctx, on, engineVars, ran>>

RollbackTransaction(f) ==
    /\ CanCall(f, "rollback")
    /\ Count(f)
    /\ Go(f, "call", "rollback", NoScope)
    /\ UNCHANGED <<slotVars, querierVars, ctx, on, engineVars, ran>>

\* A variation that hands the callback straight to the outermost transaction.
OnCommit_Root(f) ==
    /\ CanCall(f, "onCommit")
    /\ ScopeHere(f) # NoScope
    /\ Count(f)
    /\ onCommit' = [onCommit EXCEPT ![RootOf(ScopeHere(f))] = @ \cup {ScopeHere(f)}]
    /\ UNCHANGED <<held, scope, nested, settled, querierVars, pc, job, ctx, on, engineVars, ran>>

\* `onCommit` inside a transaction; outside one the callback runs at once, and nothing is kept.
OnCommit(f) ==
    /\ CanCall(f, "onCommit")
    /\ ScopeHere(f) # NoScope
    /\ Count(f)
    /\ onCommit' = [onCommit EXCEPT ![ScopeHere(f)] = @ \cup {ScopeHere(f)}]
    /\ UNCHANGED <<held, scope, nested, settled, querierVars, pc, job, ctx, on, engineVars, ran>>

\* A stream's first `next()`: it holds the querier before it waits for its turn on the connection.
StreamNext(f) ==
    /\ CanCall(f, "stream")
    /\ Count(f)
    /\ IF stream[on[f]] # NoFlow
       THEN UNCHANGED <<stream, pc>>               \* a stream is reading on this querier
       ELSE /\ stream' = [stream EXCEPT ![on[f]] = f]
            /\ pc' = [pc EXCEPT ![f] = "stream"]
    /\ UNCHANGED <<slotVars, queue, hasOpen, unusable, released, conn, job, ctx, on, engineVars, ran>>

\* The tasks queued before it ran, and no other flow's transaction holds the connection.  A released
\* querier is refused as the read connects, which closes the stream.
StreamTurn(f) ==
    /\ pc[f] = "stream"
    /\ queue[on[f]] = <<>>
    /\ ~Blocked(f)
    /\ pc' = [pc EXCEPT ![f] = "run"]
    /\ stream' = IF released[on[f]] THEN [stream EXCEPT ![on[f]] = NoFlow] ELSE stream
    /\ UNCHANGED <<slotVars, queue, hasOpen, unusable, released, conn, job, ctx, on, calls, engineVars, ran>>

\* The loop ends: its last row, a break or a throw.
StreamEnd(f) ==
    /\ pc[f] = "run"
    /\ stream[on[f]] = f
    /\ stream' = [stream EXCEPT ![on[f]] = NoFlow]
    /\ UNCHANGED <<slotVars, queue, hasOpen, unusable, released, conn, flowVars, engineVars, ran>>

\* A variation that skips the rollback of what is left open.
Release_NoRollback(f) ==
    /\ CanCall(f, "release")
    /\ Count(f)
    /\ Go(f, "checked", "check", NoScope)
    /\ UNCHANGED <<slotVars, querierVars, ctx, on, engineVars, ran>>

\* `release` closes an open stream first, then asks for its turn to roll back what is left open.
Release(f) ==
    /\ CanCall(f, "release")
    /\ Count(f)
    /\ IF stream[on[f]] = NoFlow
       THEN Go(f, "call", "check", NoScope)
       ELSE Go(f, "returning", "check", NoScope)
    /\ UNCHANGED <<slotVars, querierVars, ctx, on, engineVars, ran>>

\* `#stream.return()` answers once the stream is between two rows; closing it may fail.
StreamReturned(f) ==
    LET q == on[f] IN
    /\ pc[f] = "returning"
    /\ stream[q] # NoFlow => pc[stream[q]] # "stream"
    /\ stream' = [stream EXCEPT ![q] = NoFlow]
    /\ \/ UNCHANGED <<unusable, faults, dirty>>
       \/ /\ stream[q] # NoFlow
          /\ faults < MaxFaults
          /\ faults' = faults + 1
          /\ unusable' = [unusable EXCEPT ![q] = TRUE]
          /\ Spill(q)
    /\ pc' = [pc EXCEPT ![f] = "call"]
    /\ UNCHANGED <<slotVars, queue, hasOpen, released, conn, job, ctx, on, calls,
                   engine, committed, undone, aborted, spoiled, ran>>

\* The callback of the flow's own transaction, or nested one, returns.
Return(f) ==
    /\ pc[f] = "run"
    /\ InCallback(f)
    /\ Go(f, "call", IF scope[ctx[f]].parent = NoScope THEN "commit" ELSE "releaseSavepoint", ctx[f])
    /\ UNCHANGED <<slotVars, querierVars, ctx, on, calls, engineVars, ran>>

\* A variation that rolls back to the savepoint of the transaction around it.
Throw_Parent(f) ==
    /\ pc[f] \in {"run", "abort"}
    /\ InCallback(f)
    /\ Go(f, "call", IF scope[ctx[f]].depth < 2 THEN "rollback" ELSE "rollbackTo",
          IF scope[ctx[f]].depth < 2 THEN ctx[f] ELSE scope[ctx[f]].parent)
    /\ UNCHANGED <<slotVars, querierVars, ctx, on, calls, engineVars, ran>>

\* It throws, or its commit did: what it wrote is undone, and the failure of that only logged.
Throw(f) ==
    /\ pc[f] \in {"run", "abort"}
    /\ InCallback(f)
    /\ Go(f, "call", IF scope[ctx[f]].parent = NoScope THEN "rollback" ELSE "rollbackTo", ctx[f])
    /\ UNCHANGED <<slotVars, querierVars, ctx, on, calls, engineVars, ran>>

\* A callback starts another flow, which inherits its context: a branch of a Promise.all, a timer, a
\* promise it does not await.
Start(f, g) ==
    /\ pc[f] = "run"
    /\ InCallback(f)
    /\ pc[g] = "idle"
    /\ pc' = [pc EXCEPT ![g] = "run"]
    /\ ctx' = [ctx EXCEPT ![g] = ctx[f]]
    /\ on' = [on EXCEPT ![g] = on[f]]
    /\ UNCHANGED <<slotVars, querierVars, job, calls, engineVars, ran>>

\* `serialize`: once no transaction of another flow holds the connection, the task joins the querier's queue.
Serialize(f) ==
    /\ pc[f] = "call"
    /\ ~Blocked(f)
    /\ stream[on[f]] = NoFlow
    /\ queue' = [queue EXCEPT ![on[f]] =
         Append(@, [flow |-> f, kind |-> job[f].kind, scope |-> job[f].scope, within |-> ScopeHere(f)])]
    /\ pc' = [pc EXCEPT ![f] = "queued"]
    /\ UNCHANGED <<slotVars, stream, hasOpen, unusable, released, conn, job, ctx, on, calls, engineVars, ran>>

\* `serialize` while a stream holds the querier: the call is refused.
Refuse(f) ==
    /\ pc[f] = "call"
    /\ ~Blocked(f)
    /\ stream[on[f]] # NoFlow
    /\ IF job[f].kind = "begin" THEN Free(on[f]) ELSE UNCHANGED held
    /\ Settle(f, FALSE)
    /\ UNCHANGED <<querierVars, engineVars, ran>>

\* `release` after its rollback: from here each call is refused, then the connection goes back.
Released(f) ==
    /\ pc[f] = "checked"
    /\ released' = [released EXCEPT ![on[f]] = TRUE]
    /\ queue' = [queue EXCEPT ![on[f]] =
         Append(@, [flow |-> f, kind |-> "handback", scope |-> NoScope, within |-> NoScope])]
    /\ Go(f, "queued", "handback", NoScope)
    /\ UNCHANGED <<slotVars, stream, hasOpen, unusable, conn, ctx, on, calls, engineVars, ran>>

\* `runCallbacks`, outside the transaction.
RunCallbacks(f) ==
    /\ pc[f] = "callbacks"
    /\ ran' = ran \cup onCommit[job[f].scope]
    /\ Go(f, "run", "none", NoScope)
    /\ UNCHANGED <<slotVars, querierVars, ctx, on, calls, engineVars>>

-----------------------------------------------------------------------------
(***************************************************************************)
(* The task at the head of a querier's queue.                              *)
(***************************************************************************)
Running(q, kinds) == queue[q] # <<>> /\ Head(queue[q]).kind \in kinds
Pop(q) == queue' = [queue EXCEPT ![q] = Tail(@)]
Caller(q) == Head(queue[q]).flow
Fault == faults < MaxFaults /\ faults' = faults + 1

\* The savepoint a name names: the last one opened with it.
Named(c, s) ==
    LET saves == engine[c].saves
        I == {i \in DOMAIN saves : saves[i].depth = scope[s].depth}
    IN  {i \in I : \A k \in I : k <= i}

Commands == {"statement", "savepoint", "releaseSavepoint", "rollbackTo"}
Reached(q) == Connected(q) /\ (Running(q, {"statement"}) => ~released[q])

\* What the database takes: in an aborted transaction, only the way back to a savepoint.
Taken(q) ==
    LET c == SlotOf(q)
        t == Head(queue[q])
    IN  /\ Reached(q)
        /\ c \in aborted => t.kind = "rollbackTo"
        /\ t.kind \in {"releaseSavepoint", "rollbackTo"} => Named(c, t.scope) # {}

\* Where its transaction ended without it, one engine takes the next command and another refuses it.
Expected(q) ==
    /\ Taken(q)
    /\ engine[SlotOf(q)].tx = NoScope => Running(q, {"statement"}) /\ ~hasOpen[q]

\* A command that fails.  The transaction goes on (MySQL, SQLite), takes nothing more (Postgres), or is
\* gone, its flow not told (a deadlock victim of InnoDB or SQL Server).
CommandFails(q) ==
    LET c == SlotOf(q)
        tx == engine[c].tx
        t == Head(queue[q])
        abandoned == IF t.kind = "rollbackTo" THEN {t.scope} ELSE {}
    IN
    /\ Running(q, Commands)
    /\ Pop(q)
    /\ IF Expected(q) THEN Fault ELSE UNCHANGED faults
    /\ \/ /\ spoiled' = spoiled \cup abandoned
          /\ UNCHANGED <<engine, undone, aborted>>
       \/ /\ Reached(q) /\ tx # NoScope
          /\ spoiled' = spoiled \cup abandoned \cup {tx}
          /\ \/ /\ aborted' = aborted \cup {c}
                /\ UNCHANGED <<engine, undone>>
             \/ /\ aborted' = aborted \ {c}
                /\ engine' = [engine EXCEPT ![c] = NoTransaction]
                /\ undone' = undone \cup {tx}
    /\ Settle(Caller(q), FALSE)
    /\ UNCHANGED <<held, stream, hasOpen, unusable, released, conn, committed, dirty, ran>>

RunStatement(q) ==
    LET c == SlotOf(q) IN
    /\ Running(q, {"statement"})
    /\ Taken(q)
    /\ Pop(q)
    /\ Settle(Caller(q), TRUE)
    /\ IF engine[c].tx = NoScope
       THEN UNCHANGED engine
       ELSE engine' = [engine EXCEPT ![c].writes = Append(@, Head(queue[q]).within)]
    /\ UNCHANGED <<held, stream, hasOpen, unusable, released, conn,
                   faults, committed, undone, aborted, spoiled, dirty, ran>>

\* A variation that keeps the slot when the BEGIN is refused.
RunBegin_KeepsSlot(q) ==
    LET c == SlotOf(q)
        can == ~released[q] /\ engine[c].tx = NoScope
    IN
    /\ Running(q, {"begin"})
    /\ Pop(q)
    /\ \/ /\ can
          /\ engine' = [engine EXCEPT ![c] = [NoTransaction EXCEPT !.tx = Head(queue[q]).scope]]
          /\ hasOpen' = [hasOpen EXCEPT ![q] = TRUE]
          /\ Settle(Caller(q), TRUE)
          /\ UNCHANGED faults
       \/ /\ IF can THEN Fault ELSE UNCHANGED faults
          /\ Settle(Caller(q), FALSE)
          /\ UNCHANGED <<engine, hasOpen>>
    /\ UNCHANGED <<held, stream, unusable, released, conn, committed, undone, aborted, spoiled, dirty, ran>>

\* `openTransaction`.  The database refuses a BEGIN inside a transaction; a refusal frees the slot.
RunBegin(q) ==
    LET c == SlotOf(q)
        s == Head(queue[q]).scope
        can == ~released[q] /\ engine[c].tx = NoScope
    IN
    /\ Running(q, {"begin"})
    /\ Pop(q)
    /\ \/ /\ can
          /\ engine' = [engine EXCEPT ![c] = [NoTransaction EXCEPT !.tx = s]]
          /\ hasOpen' = [hasOpen EXCEPT ![q] = TRUE]
          /\ Settle(Caller(q), TRUE)
          /\ UNCHANGED <<held, faults>>
       \/ /\ IF can THEN Fault ELSE UNCHANGED faults
          /\ Free(q)
          /\ Settle(Caller(q), FALSE)
          /\ UNCHANGED <<engine, hasOpen>>
    /\ UNCHANGED <<stream, unusable, released, conn, committed, undone, aborted, spoiled, dirty, ran>>

\* `close` where the querier holds nothing, or what it holds is not open: only a commit is refused.
CloseNothing(q) ==
    /\ Running(q, {"commit", "rollback", "check"})
    /\ ~(Holds(q) /\ hasOpen[q])
    /\ Pop(q)
    /\ IF Holds(q) THEN Free(q) ELSE UNCHANGED held
    /\ Settle(Caller(q), Holds(q) \/ Head(queue[q]).kind # "commit")
    /\ UNCHANGED <<stream, hasOpen, unusable, released, conn, engineVars, ran>>

Closing(q, kinds) ==
    /\ Running(q, kinds)
    /\ Holds(q)
    /\ hasOpen[q]
    /\ Pop(q)
    /\ UNCHANGED <<stream, released, conn, ran>>

\* A COMMIT the database answers.  An aborted transaction it rolls back, its tag unread by the code; with
\* none left open there is nothing to commit.
RunCommit(q) ==
    LET c == SlotOf(q)
        ends == {engine[c].tx} \ {NoScope}
    IN
    /\ Closing(q, {"commit"})
    /\ Connected(q)
    /\ IF c \in aborted
       THEN undone' = undone \cup ends /\ UNCHANGED committed
       ELSE committed' = committed \cup ends /\ UNCHANGED undone
    /\ engine' = [engine EXCEPT ![c] = NoTransaction]
    /\ aborted' = aborted \ {c}
    /\ hasOpen' = [hasOpen EXCEPT ![q] = FALSE]
    /\ Free(q)
    /\ Settle(Caller(q), TRUE)
    /\ UNCHANGED <<unusable, faults, spoiled, dirty>>

\* A command that ends a transaction fails by a fault, or where none is left to end (SQL Server's driver).
Unended(q) ==
    IF Connected(q) /\ engine[SlotOf(q)].tx # NoScope THEN Fault ELSE UNCHANGED faults

\* A variation that frees the slot though the transaction may still be open.
CommitFails_Frees(q) ==
    /\ Closing(q, {"commit"})
    /\ Fault
    /\ Free(q)
    /\ Settle(Caller(q), FALSE)
    /\ UNCHANGED <<engine, hasOpen, unusable, committed, undone, aborted, spoiled, dirty>>

\* A COMMIT that fails: the database keeps the transaction open (SQLITE_BUSY), or ended it.
CommitFails(q) ==
    LET c == SlotOf(q) IN
    /\ Closing(q, {"commit"})
    /\ \/ UNCHANGED <<engine, undone, aborted>>
       \/ /\ Connected(q)
          /\ undone' = undone \cup ({engine[c].tx} \ {NoScope})
          /\ engine' = [engine EXCEPT ![c] = NoTransaction]
          /\ aborted' = aborted \ {c}
    /\ Unended(q)
    /\ Settle(Caller(q), FALSE)
    /\ UNCHANGED <<held, hasOpen, unusable, committed, spoiled, dirty>>

\* A variation that takes a connection for usable though its ROLLBACK failed.
RunRollback_Usable(q) ==
    LET c == SlotOf(q) IN
    /\ Closing(q, {"rollback", "check"})
    /\ Connected(q)
    /\ undone' = undone \cup ({engine[c].tx} \ {NoScope})
    /\ engine' = [engine EXCEPT ![c] = NoTransaction]
    /\ aborted' = aborted \ {c}
    /\ hasOpen' = [hasOpen EXCEPT ![q] = FALSE]
    /\ Free(q)
    /\ \/ Settle(Caller(q), TRUE) /\ UNCHANGED <<faults, dirty>>
       \/ Unended(q) /\ Spill(q) /\ Settle(Caller(q), FALSE)
    /\ UNCHANGED <<unusable, committed, spoiled>>

\* A ROLLBACK, or one that fails: either way nothing is left open on the connection it reached, as
\* `endTransaction` has it, and after a failure `release` gives that connection to nobody.
RunRollback(q) ==
    LET c == SlotOf(q) IN
    /\ Closing(q, {"rollback", "check"})
    /\ IF Connected(q)
       THEN /\ undone' = undone \cup ({engine[c].tx} \ {NoScope})
            /\ engine' = [engine EXCEPT ![c] = NoTransaction]
            /\ aborted' = aborted \ {c}
       ELSE UNCHANGED <<engine, undone, aborted>>
    /\ hasOpen' = [hasOpen EXCEPT ![q] = FALSE]
    /\ Free(q)
    /\ \/ Connected(q) /\ Settle(Caller(q), TRUE) /\ UNCHANGED <<unusable, faults, dirty>>
       \/ /\ unusable' = [unusable EXCEPT ![q] = TRUE]
          /\ Unended(q)
          /\ Spill(q)
          /\ Settle(Caller(q), FALSE)
    /\ UNCHANGED <<committed, spoiled>>

\* Outside a transaction a savepoint is answered and not kept (MySQL).
RunSavepoint(q) ==
    LET c == SlotOf(q) IN
    /\ Running(q, {"savepoint"})
    /\ Taken(q)
    /\ Pop(q)
    /\ IF engine[c].tx = NoScope
       THEN UNCHANGED engine
       ELSE engine' = [engine EXCEPT ![c].saves =
              Append(@, [depth |-> scope[Head(queue[q]).scope].depth, writes |-> engine[c].writes])]
    /\ Settle(Caller(q), TRUE)
    /\ UNCHANGED <<held, stream, hasOpen, unusable, released, conn,
                   faults, committed, undone, aborted, spoiled, dirty, ran>>

\* RELEASE drops the savepoint and those after it.
RunReleaseSavepoint(q) ==
    LET c == SlotOf(q) IN
    /\ Running(q, {"releaseSavepoint"})
    /\ Taken(q)
    /\ Pop(q)
    /\ \E i \in Named(c, Head(queue[q]).scope) : engine' = [engine EXCEPT ![c].saves = SubSeq(@, 1, i - 1)]
    /\ Settle(Caller(q), TRUE)
    /\ UNCHANGED <<held, stream, hasOpen, unusable, released, conn,
                   faults, committed, undone, aborted, spoiled, dirty, ran>>

\* ROLLBACK TO undoes every write since the savepoint, which it keeps, and the transaction goes on.
RunRollbackTo(q) ==
    LET c == SlotOf(q)
        s == Head(queue[q]).scope
    IN
    /\ Running(q, {"rollbackTo"})
    /\ Taken(q)
    /\ Pop(q)
    /\ \E i \in Named(c, s) : engine' = [engine EXCEPT ![c].writes = engine[c].saves[i].writes,
                                                     ![c].saves = SubSeq(@, 1, i)]
    /\ undone' = undone \cup {s}
    /\ aborted' = aborted \ {c}
    /\ Settle(Caller(q), TRUE)
    /\ UNCHANGED <<held, stream, hasOpen, unusable, released, conn, faults, committed, spoiled, dirty, ran>>

\* `internalRelease`: a connection of its own goes back to its pool, once.
RunHandBack(q) ==
    /\ Running(q, {"handback"})
    /\ Pop(q)
    /\ conn' = IF Shared(SlotOf(q)) \/ conn[q] # "mine" THEN conn
               ELSE [conn EXCEPT ![q] = IF unusable[q] THEN "discarded" ELSE "kept"]
    /\ Settle(Caller(q), TRUE)
    /\ UNCHANGED <<held, stream, hasOpen, unusable, released, engineVars, ran>>

-----------------------------------------------------------------------------
\* What a flow does on its own: a call, or the end of a callback or a loop.
UserStep(f) ==
    \/ Statement(f) \/ Transaction(f) \/ Nested(f) \/ BeginTransaction(f)
    \/ CommitTransaction(f) \/ RollbackTransaction(f) \/ OnCommit(f)
    \/ StreamNext(f) \/ StreamEnd(f) \/ Release(f)
    \/ Return(f) \/ Throw(f)
    \/ \E g \in Flow : Start(f, g)

\* What the event loop owes a flow that awaits.
FlowStep(f) ==
    \/ Claim(f) \/ NestedTurn(f) \/ StreamTurn(f) \/ StreamReturned(f)
    \/ Serialize(f) \/ Refuse(f) \/ Released(f) \/ RunCallbacks(f)

QuerierStep(q) ==
    \/ RunStatement(q) \/ CommandFails(q) \/ RunBegin(q) \/ CloseNothing(q) \/ RunCommit(q) \/ CommitFails(q)
    \/ RunRollback(q) \/ RunSavepoint(q) \/ RunReleaseSavepoint(q) \/ RunRollbackTo(q)
    \/ RunHandBack(q)

Next ==
    \/ \E f \in Flow : UserStep(f) \/ FlowStep(f)
    \/ \E q \in Querier : QuerierStep(q)

Spec == Init /\ [][Next]_vars

(***************************************************************************)
(* Fairness.  The event loop runs every ready continuation and the         *)
(* database answers every command.  A callback returns or throws, and the  *)
(* loop over a stream ends: a flow that does neither may hold its          *)
(* connection for ever, as the code says.                                  *)
(***************************************************************************)
CallbackEnds(f) == Return(f) \/ Throw(f)
Fairness ==
    /\ \A f \in Flow : WF_vars(FlowStep(f)) /\ WF_vars(CallbackEnds(f)) /\ WF_vars(StreamEnd(f))
    /\ \A q \in Querier : WF_vars(QuerierStep(q))
FairSpec == Spec /\ Fairness

-----------------------------------------------------------------------------
(***************************************************************************)
(* Safety.                                                                 *)
(***************************************************************************)
\* The database is in a transaction only while the slot of that connection is held by it: `claim` and
\* `free` follow the BEGIN, COMMIT and ROLLBACK of every flow.
OpenIsHeld == \A c \in Connection : engine[c].tx # NoScope => held[c] = engine[c].tx

\* A statement from outside a transaction never lands in it, the promise of `serialize`: every write in
\* the open transaction was sent by a flow running in it.
OutsidersStayOut ==
    \A c \in Connection : \A i \in DOMAIN engine[c].writes : Root(engine[c].writes[i]) = engine[c].tx

\* A stream between two rows reads no other flow's open transaction: its next row is not one that
\* transaction may roll back.
StreamsReadCommitted ==
    \A q \in Querier :
        LET f == stream[q]
            tx == engine[SlotOf(q)].tx
        IN  (f # NoFlow /\ pc[f] = "run" /\ tx # NoScope) => scope[tx].flow = f \/ Root(ScopeHere(f)) = tx

\* A callback's transaction that resolves did commit on the database, whatever failed on the way, short of
\* one the database itself had given up at a refused command whose error the callback went on past: that
\* one it rolled back, and the COMMIT was answered none the less.
ResolvedIsCommitted ==
    \A f \in Flow : (pc[f] = "callbacks" /\ OwnTransaction(job[f])) =>
        job[f].scope \in committed \cup (spoiled \cap undone)

\* A root whose COMMIT is answered though it was rolled back: given up as above, or begun by hand and
\* committed once more after a COMMIT that failed.
AnsweredUndone(s) == s \in undone /\ (s \in spoiled \/ scope[s].manual)

\* An onCommit callback runs only if the outermost transaction it was registered in committed, short of
\* those whose COMMIT was answered over a rollback, and no savepoint around it was rolled back.
CallbacksAfterCommit ==
    \A s \in ran : /\ RootOf(s) \in committed \/ AnsweredUndone(RootOf(s))
                  /\ Lineage(s) \cap undone \subseteq {RootOf(s)}

\* With every flow between two calls, each callback registered in a transaction that committed, and in
\* no nested one that was rolled back or would not be, has run.
NoCallbackLost ==
    (\A f \in Flow : pc[f] \in {"idle", "run"} /\ ~InCallback(f)) =>
        \A s \in Scope : /\ s \in onCommit[s] /\ RootOf(s) \in committed
                        /\ Lineage(s) \cap (undone \cup spoiled) \subseteq {RootOf(s)}
                        => s \in ran

\* A callback's transaction holds its connection only while its flow still runs it.
HeldWhileRunning ==
    \A c \in Connection : LET s == held[c] IN
        (s # NoScope /\ ~scope[s].manual) => s \in Lineage(ctx[scope[s].flow])

\* The connection a released querier gives back to be used again is in no transaction, and no ROLLBACK or
\* close of a stream failed on it.
CleanHandBack ==
    \A q \in Querier : conn[q] = "kept" => engine[SlotOf(q)].tx = NoScope /\ SlotOf(q) \notin dirty

\* A nested transaction's failure undoes its own writes alone: ROLLBACK TO drops no write of the scope
\* around it.
SavepointUndoesItsOwn ==
    [][\A q \in Querier : RunRollbackTo(q) =>
          LET c == SlotOf(q)
              s == ctx[Caller(q)]
          IN  \A i \in DOMAIN engine[c].writes :
                i > Len(engine[c].writes') => s \in Lineage(engine[c].writes[i])]_vars

\* Every flow that awaits goes on: a transaction another flow holds is waited for, not for ever.
AwaitsEnd == \A f \in Flow : pc[f] # "run" /\ pc[f] # "idle" ~> pc[f] = "run"

-----------------------------------------------------------------------------
(***************************************************************************)
(* The connection as its flows may rely on it.  Only what a root scope     *)
(* ended as is its fate: a savepoint undone inside it is not.              *)
(***************************************************************************)
Promised == INSTANCE SerialSession WITH
    open <- [c \in Connection |-> engine[c].tx],
    writes <- [c \in Connection |-> engine[c].writes],
    fate <- [s \in Scope |-> IF s \in committed THEN "committed"
                             ELSE IF s \in undone /\ scope[s].parent = NoScope THEN "undone" ELSE "new"],
    lineage <- [s \in Scope |-> Lineage(s)]

\* Each connection is a serial session: one transaction at a time, written from inside alone, ended
\* once, a nested one undone by itself.
IsSerialSession == Promised!Spec
=============================================================================
