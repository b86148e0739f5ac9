------------------------ MODULE MCConnectionReconciler ------------------------
(* Constants of ConnectionReconciler's TLC run. *)
EXTENDS ConnectionReconciler

(* What the vault, the token and the network may be like; the URL is valid. *)
ValidWorlds == WorldKinds \ {"invalid"}
=============================================================================
