-------------------------- MODULE SharedHandlePool --------------------------
(***************************************************************************)
(* The pool of one handle (a local SQLite file, the embedded Turso engine, *)
(* PGlite, a libSQL client): callers acquire queriers while the handle     *)
(* opens, fails to open, or is closed by `end` and opened again.           *)
(*                                                                         *)
(* An open is a promise of the driver; every continuation of it (the       *)
(* `catch` of the call that started it, each caller's `await`, each        *)
(* `end`'s) runs in a turn of its own once it settles.  The `catch` is the *)
(* first, since the others await the promise it returns.                   *)
(*                                                                         *)
(* src/packages/orm/src/querier/abstractSharedHandleQuerierPool.ts.        *)
(***************************************************************************)
EXTENDS Naturals, FiniteSets

CONSTANTS
    Caller,     \* the flows that acquire a querier
    Ender,      \* the flows that end the pool
    Open,       \* the calls of `openDb` an instance may make
    NoOpen,
    Mode,       \* subsets of {"fails", "ends"}: what may happen, one chosen per behaviour
    MaxCalls    \* calls one flow makes

Happening == {"fails", "ends"}
ASSUME OpenAssumption == NoOpen \notin Open /\ Caller \cap Ender = {}
ASSUME ModeAssumption == Mode \subseteq SUBSET Happening
ASSUME BoundAssumption == MaxCalls \in Nat

VARIABLES
    opening,    \* the open the pool knows of, or NoOpen
    handle,     \* [Open -> {"unused", "pending", "opened", "failed", "settled", "closed"}]
    awaits,     \* [Caller \cup Ender -> Open or NoOpen]: what a flow awaits
    querier,    \* [Caller -> Open or NoOpen]: the handle of the querier it was given last
    calls,
    mode

vars == <<opening, handle, awaits, querier, calls, mode>>

Flow == Caller \cup Ender

\* The pool knows of no open that failed, so the next caller tries again, and of none that is closed.
TypeOK ==
    /\ opening \in {NoOpen} \cup {o \in Open : handle[o] \in {"pending", "opened", "failed"}}
    /\ handle \in [Open -> {"unused", "pending", "opened", "failed", "settled", "closed"}]
    /\ awaits \in [Flow -> Open \cup {NoOpen}]
    /\ querier \in [Caller -> Open \cup {NoOpen}]
    /\ calls \in [Flow -> 0..MaxCalls]
    /\ mode \in Mode

Init ==
    /\ opening = NoOpen
    /\ handle = [o \in Open |-> "unused"]
    /\ awaits = [f \in Flow |-> NoOpen]
    /\ querier = [f \in Caller |-> NoOpen]
    /\ calls = [f \in Flow |-> 0]
    /\ mode \in Mode

Unused == {o \in Open : handle[o] = "unused"}
NextOpen == CHOOSE o \in Unused : TRUE
CanCall(f) == awaits[f] = NoOpen /\ calls[f] < MaxCalls
Count(f) == calls' = [calls EXCEPT ![f] = @ + 1]

-----------------------------------------------------------------------------
\* A variation that keeps the handle and not its open: each caller of a pool not open yet opens one.
GetQuerier_PerCaller(f) ==
    /\ CanCall(f)
    /\ Count(f)
    /\ IF opening # NoOpen /\ handle[opening] = "opened"
       THEN /\ awaits' = [awaits EXCEPT ![f] = opening]
            /\ UNCHANGED <<opening, handle>>
       ELSE /\ Unused # {}
            /\ opening' = NextOpen
            /\ handle' = [handle EXCEPT ![NextOpen] = "pending"]
            /\ awaits' = [awaits EXCEPT ![f] = NextOpen]
    /\ UNCHANGED <<querier, mode>>

\* `getQuerier`: the open in flight, or a new one.
GetQuerier(f) ==
    /\ CanCall(f)
    /\ Count(f)
    /\ IF opening # NoOpen
       THEN /\ awaits' = [awaits EXCEPT ![f] = opening]
            /\ UNCHANGED <<opening, handle>>
       ELSE /\ Unused # {}
            /\ opening' = NextOpen
            /\ handle' = [handle EXCEPT ![NextOpen] = "pending"]
            /\ awaits' = [awaits EXCEPT ![f] = NextOpen]
    /\ UNCHANGED <<querier, mode>>

OpenDb(o) ==
    /\ handle[o] = "pending"
    /\ \/ handle' = [handle EXCEPT ![o] = "opened"]
       \/ "fails" \in mode /\ handle' = [handle EXCEPT ![o] = "failed"]
    /\ UNCHANGED <<opening, awaits, querier, calls, mode>>

\* A variation that remembers an open that failed.
Catch_Keeps(o) ==
    /\ handle[o] = "failed"
    /\ handle' = [handle EXCEPT ![o] = "settled"]
    /\ UNCHANGED <<opening, awaits, querier, calls, mode>>

\* The `catch` of a failed open: whatever the pool knows of by now is forgotten.
Catch(o) ==
    /\ handle[o] = "failed"
    /\ handle' = [handle EXCEPT ![o] = "settled"]
    /\ opening' = NoOpen
    /\ UNCHANGED <<awaits, querier, calls, mode>>

\* A variation where an open that failed leaves its callers waiting.
Acquired_OnlyOpened(f) ==
    /\ awaits[f] # NoOpen
    /\ handle[awaits[f]] \in {"opened", "closed"}
    /\ querier' = [querier EXCEPT ![f] = awaits[f]]
    /\ awaits' = [awaits EXCEPT ![f] = NoOpen]
    /\ UNCHANGED <<opening, handle, calls, mode>>

\* The caller goes on with a querier on the handle, or throws what the open threw.
Acquired(f) ==
    /\ awaits[f] # NoOpen
    /\ handle[awaits[f]] \in {"opened", "settled", "closed"}
    /\ querier' = IF handle[awaits[f]] = "settled" THEN querier ELSE [querier EXCEPT ![f] = awaits[f]]
    /\ awaits' = [awaits EXCEPT ![f] = NoOpen]
    /\ UNCHANGED <<opening, handle, calls, mode>>

\* A variation that closes only a handle already open.
End_Abandons(f) ==
    /\ "ends" \in mode
    /\ CanCall(f)
    /\ Count(f)
    /\ opening' = NoOpen
    /\ awaits' = IF opening = NoOpen \/ handle[opening] # "opened" THEN awaits ELSE [awaits EXCEPT ![f] = opening]
    /\ UNCHANGED <<handle, querier, mode>>

\* `end`: the pool forgets the open, which is awaited to be closed.
End(f) ==
    /\ "ends" \in mode
    /\ CanCall(f)
    /\ Count(f)
    /\ opening' = NoOpen
    /\ awaits' = [awaits EXCEPT ![f] = opening]
    /\ UNCHANGED <<handle, querier, mode>>

\* The handle is closed; one that failed to open leaves nothing to close.
Close(f) ==
    /\ awaits[f] # NoOpen
    /\ handle[awaits[f]] \in {"opened", "settled"}
    /\ handle' = [handle EXCEPT ![awaits[f]] = IF @ = "opened" THEN "closed" ELSE @]
    /\ awaits' = [awaits EXCEPT ![f] = NoOpen]
    /\ UNCHANGED <<opening, querier, calls, mode>>

Settling == \E o \in Open : OpenDb(o) \/ Catch(o)
Continue(f) == IF f \in Caller THEN Acquired(f) ELSE Close(f)

Next ==
    \/ Settling
    \/ \E f \in Caller : GetQuerier(f) \/ Acquired(f)
    \/ \E f \in Ender : End(f) \/ Close(f)

Spec == Init /\ [][Next]_vars

\* The driver settles every open, and the event loop runs every continuation.
FairSpec == Spec /\ WF_vars(Settling) /\ \A f \in Flow : WF_vars(Continue(f))

-----------------------------------------------------------------------------
\* A handle that is open, or may still open, is the one the pool knows of or one an `end` is about to
\* close: no other is left that nothing will ever close.
NoHandleLeaks ==
    \A o \in Open : handle[o] \in {"pending", "opened"} => opening = o \/ \E f \in Ender : awaits[f] = o

\* With no `end`, two queriers of the pool are on one handle: what one writes the other reads.
OneDatabase ==
    mode \cap {"ends"} = {} =>
        \A f, g \in Caller : querier[f] # NoOpen /\ querier[g] # NoOpen => querier[f] = querier[g]

\* Each caller is answered, and each `end` ends.
CallsEnd == \A f \in Flow : awaits[f] # NoOpen ~> awaits[f] = NoOpen
=============================================================================
