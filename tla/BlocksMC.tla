------------------------------ MODULE BlocksMC ------------------------------
(* Small instances of Blocks.                                              *)
EXTENDS Blocks, TLC

CONSTANTS t1, t2, x1, x2, r1, r2, r3

Symmetric == Permutations({t1, t2}) \union Permutations({x1, x2}) \union Permutations({r1, r2, r3})
=============================================================================
