----------------------------- MODULE NoticesMC ------------------------------
(* Small instances of Notices.                                             *)
EXTENDS Notices

CONSTANTS w1, w2, n1, n2, k1

\* Both places for alerts and a nap with one worker; one and none with two.
FewerForTwo ==
    [d \in Deployments |-> IF Cardinality(d) = 1 THEN Alerts ELSE {CHOOSE a \in Alerts : TRUE}]
OneIfAlone == [d \in Deployments |-> IF Cardinality(d) = 1 THEN 1 ELSE 0]
=============================================================================
