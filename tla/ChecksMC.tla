------------------------------ MODULE ChecksMC ------------------------------
(* The instance of Checks that TLC checks; its values are in checks.cfg.    *)
EXTENDS Checks
=============================================================================
