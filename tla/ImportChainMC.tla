--------------------------- MODULE ImportChainMC ----------------------------
(***************************************************************************)
(* ImportChain on small instances.  Workers are interchangeable: a token   *)
(* is the number of a claim, not the name of a worker.                     *)
(***************************************************************************)
EXTENDS ImportChain, TLC

WorkerSymmetry == Permutations(Workers)
=============================================================================
