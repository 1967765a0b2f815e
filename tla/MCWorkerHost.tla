---------------------------- MODULE MCWorkerHost ----------------------------
(***************************************************************************)
(* WorkerHost with what TLC may not tell apart: a warm-up is told from     *)
(* another only by having been started, a connection only by what it did.  *)
(* For runs without a liveness property.                                   *)
(***************************************************************************)
EXTENDS WorkerHost, TLC

Symmetry == Permutations(Background) \cup Permutations(Connections \ Warmers)
=============================================================================
