----------------------------- MODULE ReleasesMC -----------------------------
(* A small instance of Releases: the second version has new packages, the   *)
(* third changes the database as well.                                      *)
EXTENDS Releases

CONSTANTS r1

Environments == <<1, 2, 2>>
Schemas      == <<1, 1, 2>>
=============================================================================
