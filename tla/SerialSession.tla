---------------------------- MODULE SerialSession ----------------------------
(***************************************************************************)
(* What a connection promises the flows that use it: its transactions run  *)
(* one at a time, each written only from inside it, each ending once, a    *)
(* nested one undone alone; a write from outside commits by itself.        *)
(***************************************************************************)
EXTENDS Naturals, Sequences

CONSTANTS Connection, Scope, NoScope

VARIABLES
    open,       \* [Connection -> Scope or NoScope]: the root whose transaction is open
    writes,     \* [Connection -> Seq(Scope)]: by which scope each write in it was made
    fate,       \* [Scope -> {"new", "committed", "undone"}] of a root
    lineage     \* [Scope -> SUBSET Scope]: a scope and those it is nested in

svars == <<open, writes, fate, lineage>>

Init ==
    /\ open = [c \in Connection |-> NoScope]
    /\ writes = [c \in Connection |-> <<>>]
    /\ fate = [s \in Scope |-> "new"]
    /\ lineage = [s \in Scope |-> {}]

Open(c, s) ==
    /\ open[c] = NoScope
    /\ fate[s] = "new"
    /\ lineage[s] = {s}
    /\ open' = [open EXCEPT ![c] = s]
    /\ UNCHANGED <<writes, fate, lineage>>

Write(c, s) ==
    /\ open[c] \in lineage[s]
    /\ writes' = [writes EXCEPT ![c] = Append(@, s)]
    /\ UNCHANGED <<open, fate, lineage>>

\* A nested transaction undone: the last writes, every one its own.
UndoNested(c, s) ==
    /\ open[c] \in lineage[s] \ {s}
    /\ \E n \in 0..Len(writes[c]) :
          /\ \A i \in n+1..Len(writes[c]) : s \in lineage[writes[c][i]]
          /\ writes' = [writes EXCEPT ![c] = SubSeq(@, 1, n)]
    /\ UNCHANGED <<open, fate, lineage>>

End(c, how) ==
    /\ open[c] # NoScope
    /\ fate' = [fate EXCEPT ![open[c]] = how]
    /\ open' = [open EXCEPT ![c] = NoScope]
    /\ writes' = [writes EXCEPT ![c] = <<>>]
    /\ UNCHANGED lineage

\* A scope is created, outside any other or inside one.
Create(s) ==
    /\ lineage[s] = {}
    /\ \E t \in Scope \cup {NoScope} :
          lineage' = [lineage EXCEPT ![s] = {s} \cup IF t = NoScope THEN {} ELSE lineage[t]]
    /\ UNCHANGED <<open, writes, fate>>

Next ==
    \/ \E c \in Connection, s \in Scope : Open(c, s) \/ Write(c, s) \/ UndoNested(c, s)
    \/ \E c \in Connection, how \in {"committed", "undone"} : End(c, how)
    \/ \E s \in Scope : Create(s)

Spec == Init /\ [][Next]_svars
=============================================================================
