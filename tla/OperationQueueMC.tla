-------------------------- MODULE OperationQueueMC --------------------------
(* Small instances of OperationQueue. *)
EXTENDS OperationQueue

CONSTANTS w1, w2, c1, c2, k1

One == [engine |-> "sqlite", clients |-> {c1}, kinds |-> JobKind, ops |-> {"cancel", "write_off"},
        faults |-> {"late_lease"}, jobs |-> 1, mishaps |-> 1]

\* One job of any kind on SQLite, and with two workers on PostgreSQL; a job and
\* its retry; three imports of two clients, with leases that run out or with a
\* signal or a crash; two workers on SQLite.
QueueSettings ==
    {One,
     [One EXCEPT !.engine = "postgresql", !.ops = {"cancel"},
                 !.kinds = {"import_logs", "run_detection", "shadow_observation"}],
     [One EXCEPT !.kinds = {"run_detection", "export_report"}, !.ops = {"retry"},
                 !.jobs = 2],
     [One EXCEPT !.engine = "postgresql", !.clients = {c1, c2}, !.kinds = {"import_logs"},
                 !.ops = {}, !.jobs = 3, !.mishaps = 0],
     [One EXCEPT !.clients = {c1, c2}, !.kinds = {"import_logs"}, !.ops = {}, !.faults = {},
                 !.jobs = 3],
     [One EXCEPT !.kinds = {"export_report"}, !.ops = {"cancel"}, !.faults = FaultKinds]}
=============================================================================
