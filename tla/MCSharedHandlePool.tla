------------------------- MODULE MCSharedHandlePool -------------------------
(***************************************************************************)
(* Three callers and a flow that ends the pool, over up to four opens.     *)
(***************************************************************************)
EXTENDS SharedHandlePool

CONSTANTS f1, f2, f3, e1, o1, o2, o3, o4

\* A pool whose opens may fail, or that is ended and used again, and one where both happen.
OneAtATime == {{"fails"}, {"ends"}}
Both == {{"fails", "ends"}}
=============================================================================
