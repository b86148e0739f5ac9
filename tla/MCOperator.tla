------------------------------ MODULE MCOperator ------------------------------
(* Constants of Operator's TLC runs. *)
EXTENDS Operator

Happening == {"VaultChange", "Delete", "Recreate"}
Elsewhere == {"Delete", "Create", "Crash"}
=============================================================================
