------------------------- MODULE MCSecretReconciler -------------------------
(* Constants of SecretReconciler's TLC runs. *)
EXTENDS SecretReconciler, TLC

AllListed == {Workloads}
Permuted  == Permutations(Workloads)
=============================================================================
