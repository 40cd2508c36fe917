----------------------------- MODULE JobStatus ------------------------------
(***************************************************************************)
(* The columns of a row of operation_jobs that decide who may work on it,  *)
(* as the job service reads and writes them: the status sets, the          *)
(* ownership test every fenced update starts with, and the outcomes of the *)
(* service functions that end or release a job.                            *)
(*                                                                         *)
(* A session reads a row into an object, assigns its columns, and at       *)
(* commit writes only the columns that differ from what it read.  Nothing  *)
(* in that UPDATE compares the row with what was read, so a column another *)
(* session wrote in between is overwritten exactly when it is one of the   *)
(* changed ones.  Flushed states this for one column.                      *)
(*                                                                         *)
(* lease_owner is left out: it is written with lease_token everywhere, and *)
(* a token belongs to one claim of one worker, so comparing the token      *)
(* compares both.  The token itself, a fresh random value for each claim,  *)
(* is the number of the claim (claim_generation); 0 is NULL.               *)
(***************************************************************************)
EXTENDS Naturals

ActiveStatus      == {"queued", "retry_wait", "running", "cancel_requested"}
HeldStatus        == {"running", "cancel_requested"}
TerminalStatus    == {"completed", "failed", "cancelled"}
CancellableStatus == {"queued", "retry_wait"}
RetryableStatus   == {"failed", "cancelled"}
StaleStatus       == {"queued", "running", "cancel_requested"}

\* "absent" is a row that is not inserted yet.
Status == {"absent", "queued", "retry_wait", "running", "cancel_requested",
           "completed", "failed", "cancelled"}

\* lease_expires_at: NULL, in the future, or in the past.
LeaseState == {"none", "live", "expired"}

NoToken == 0

\* One column after a commit of a session that read snap and assigned new,
\* when the row holds cur.
Flushed(cur, snap, new) == IF new # snap THEN new ELSE cur

\* _assert_owned_lease: the test that fences a worker whose job was taken away.
Owned(rowStatus, rowToken, token, statuses) ==
    /\ rowStatus \in statuses
    /\ rowToken # NoToken
    /\ rowToken = token

\* request_job_cancellation: the status it assigns to a job it read in status
\* s.  A request the code refuses, or has recorded already, assigns nothing.
CancelOutcome(s, cooperative) ==
    IF s \in CancellableStatus THEN "cancelled"
    ELSE IF s = "running" /\ cooperative THEN "cancel_requested"
    ELSE s

\* Mutations: a lease need not have run out; an import is retried by itself.
LeaseAny(s, l) == s \in HeldStatus /\ l # "none"
RecoverRetried(s, retry) == IF s = "cancel_requested" THEN "cancelled" ELSE "retry_wait"

\* recover_expired_leases: the rows it selects, and the status it gives one;
\* retry is whether the job's type may be retried and has an attempt left.
LeaseRanOut(s, l) == s \in HeldStatus /\ l = "expired"

RecoverOutcome(s, retry) ==
    IF s = "cancel_requested" THEN "cancelled"
    ELSE IF retry THEN "retry_wait"
    ELSE "failed"
=============================================================================
