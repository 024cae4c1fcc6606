--------------------------- MODULE MCTransactions ---------------------------
(***************************************************************************)
(* Instances of Transactions.  Two queriers share the one handle of a pool *)
(* (SQLite, PGlite), a third owns its connection.  A plan says which       *)
(* querier each of two flows was handed and which calls it makes.          *)
(***************************************************************************)
EXTENDS Transactions

CONSTANTS f1, f2, q1, q2, q3, c1, c2, s1, s2, s3

Connections == [q \in Querier |-> IF q = q3 THEN c2 ELSE c1]

Flows(first, second, n) ==
    [f \in Flow |-> IF f = f1 THEN [kinds |-> first, left |-> n] ELSE [kinds |-> second, left |-> n]]
Own(first, second, n) ==
    [querier |-> [f \in Flow |-> q3], calls |-> Flows(first, second, n), branches |-> {}]
SharedHandle(first, second, n) ==
    [querier |-> [f \in Flow |-> IF f = f1 THEN q1 ELSE q2], calls |-> Flows(first, second, n), branches |-> {}]
Branching(kinds, n) == [Own(kinds, kinds, n) EXCEPT !.branches = {f2}]
Alone(kinds, n) == [Own(kinds, {}, n) EXCEPT !.branches = {f2}]

Writer == {"statement", "transaction"}
Registrar == Writer \cup {"onCommit"}
Manual == {"statement", "begin", "commit", "onCommit"}

\* Callbacks; a transaction by hand; a release; transactions on a shared handle.
SafePlans == {
    Own(Registrar, Registrar, 3),
    Own(Manual, {"statement"}, 3),
    SharedHandle({"begin", "commit"}, {"transaction"}, 3),
    Own(Writer \cup {"release"}, {"statement"}, 3),
    SharedHandle({"transaction"}, {"transaction"}, 3)}

\* Flows that wait for each other, and those a callback starts and may not await.
ProgressPlans == {Own(Writer, Writer, 2), SharedHandle(Writer, Writer, 2), Branching(Writer, 3)}

\* A stream beside transactions; one flow that makes any call, legal or not.
StreamPlans == {Own({"stream"}, {"transaction", "statement"}, 3), Alone(CallKind, 6)}

SharedOutsiderPlans == {SharedHandle(Writer, Writer, 2)}
StreamWaitsPlans == {Own({"stream"}, Writer, 2)}
StrayReleasePlans == {Own({"release"}, {"transaction"}, 2)}
LateCallbackPlans == {Branching({"transaction", "onCommit"}, 3)}
=============================================================================
