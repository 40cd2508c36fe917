---------------------------- MODULE DeliveriesMC ----------------------------
(* Small instances of Deliveries: the timings of the code, in ticks.       *)
EXTENDS Deliveries, TLC

CONSTANTS w1, w2, a1, a2

\* 1, 5, 15 and 60 minutes, as two steps that grow.
Retries == <<1, 2>>

Symmetric == Permutations({w1, w2})
=============================================================================
