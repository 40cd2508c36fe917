--------------------------- MODULE DurablePrefix ----------------------------
(***************************************************************************)
(* What an import promises of the staged file, whatever happens to the     *)
(* workers, the leases and the requests of people: the stored lines are a  *)
(* prefix of the file, the prefix only grows, by at most one chunk at a    *)
(* time, and the import is announced complete only when all of it is       *)
(* stored.  An announcement may be withdrawn (a run that is opened again,  *)
(* a job that is cancelled late), the lines may not.                       *)
(***************************************************************************)
EXTENDS Naturals

CONSTANTS Total, ChunkSize

VARIABLES stored, announced

vars == <<stored, announced>>

Lines == 1 .. Total

Init == stored = {} /\ announced = FALSE

\* The lines after p up to n, when everything up to p is there.
Append ==
    /\ \E p \in 0 .. Total, n \in Lines :
          /\ p < n /\ n <= p + ChunkSize
          /\ 1 .. p \subseteq stored
          /\ stored' = stored \union (p + 1) .. n
    /\ UNCHANGED announced

Announce ==
    /\ stored = Lines
    /\ announced' \in BOOLEAN
    /\ UNCHANGED stored

Next == Append \/ Announce

Spec == Init /\ [][Next]_vars
=============================================================================
