---------------------------- MODULE MCMigrations ----------------------------
(***************************************************************************)
(* Two processes, three migrations of which the second runs outside a      *)
(* transaction, on engines with each kind of lock.                         *)
(***************************************************************************)
EXTENDS Migrations

CONSTANTS r1, r2
=============================================================================
