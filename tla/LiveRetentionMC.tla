-------------------------- MODULE LiveRetentionMC ---------------------------
(* Small instances of LiveRetention.                                       *)
EXTENDS LiveRetention, TLC

CONSTANTS w1, w2

Symmetric == Permutations({w1, w2})
=============================================================================
