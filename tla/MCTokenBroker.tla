---------------------------- MODULE MCTokenBroker ----------------------------
(* Constants of TokenBroker's TLC runs. *)
EXTENDS TokenBroker, TLC

AnyWorker == Permutations(Workers)
=============================================================================
