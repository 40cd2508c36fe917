--------------------------- MODULE OperationQueue ---------------------------
(***************************************************************************)
(* The queue of operation jobs: requests that put work into it, cancel it, *)
(* retry it and write it off, the worker processes that carry it out, and  *)
(* the guard that lets one worker at a time use SQLite.                    *)
(*                                                                         *)
(* ImportChain has the import of one file in detail; here an import is     *)
(* what the queue sees of it: a job that renews its lease, looks for a     *)
(* cancellation and lets go of its job when the worker is told to stop.    *)
(* The other jobs do none of this or only a part of it.                    *)
(*                                                                         *)
(* PostgreSQL locks the rows a worker recovers or claims from the read to  *)
(* the commit; SQLite has no such lock, so what was read may be old when   *)
(* it is written.  Requests have no lock on either.                        *)
(***************************************************************************)
EXTENDS Naturals, FiniteSets, JobStatus

CONSTANTS
    Workers,        \* worker processes
    Clients,        \* request threads, one request at a time each
    Keys,           \* idempotency keys they send
    MaxQueued,      \* operation_max_queued_imports
    MaxAttempts,    \* max_attempts of every job
    MaxJobs,        \* bound on jobs
    Settings        \* where ATDR runs and what may happen: a set of Setting

OpKinds == {"cancel", "retry", "write_off"}
JobKind == {"import_logs", "run_detection", "export_report", "shadow_observation",
            "shadow_monitoring_cycle"}

\* A lease runs out under a live worker; two workers look for each other
\* before either wrote its heartbeat; a job, or a look between two passes,
\* goes on for longer than three heartbeats, in which nothing writes one.
FaultKinds == {"late_lease", "together", "slow"}

\* The database, who asks for what work and for what else, what goes wrong,
\* and bounds on the jobs and on crashes, failures and signals together.
Setting == [engine : {"sqlite", "postgresql"}, clients : SUBSET Clients,
            kinds : SUBSET JobKind, ops : SUBSET OpKinds, faults : SUBSET FaultKinds,
            jobs : 1 .. MaxJobs, mishaps : Nat]

ASSUME QueueAssumption ==
    /\ MaxQueued \in Nat \ {0} /\ MaxAttempts \in 1 .. 3 /\ MaxJobs \in Nat \ {0}
    /\ NoToken \notin Workers
    /\ IsFiniteSet(Clients)
    /\ \A s \in Settings : s \in Setting

AutoRetry   == {"export_report", "shadow_observation", "shadow_monitoring_cycle"}
Cooperative == {"import_logs", "shadow_observation", "shadow_monitoring_cycle"}

Jobs  == 1 .. MaxJobs
NoKey == "no key"

VARIABLES
    setting,        \* one of Settings, the same for a whole behaviour
    \* operation_jobs; the token of a claim is the worker that made it, which
    \* has forgotten its earlier claims
    kind, key, status, token, lease,
    due,            \* next_attempt_at has come
    attempts,
    done,           \* how often the work was carried out
    \* a worker process: where it is, its job, what it read, its stop event
    pc, wjob, wsaw, stop,
    beat,           \* its heartbeat is recent and says that it is active;
                    \* kept on SQLite, where workers look for it
    \* a request: where it is, what it asks for and what it read
    cpc, creq,
    mishaps

jobVars    == <<kind, key, status, token, lease, due, attempts, done>>
workerVars == <<pc, wjob, wsaw, stop, beat>>
clientVars == <<cpc, creq>>
vars == <<setting, jobVars, workerVars, clientVars, mishaps>>

Pc == {"off", "starting", "top", "recovering", "claim", "claiming", "work",
       "persist", "cancelling", "cancel", "releasing", "end", "finish",
       "failing", "again", "failed"}

NoRow   == [status |-> "absent", attempts |-> 0]
NoSnap  == [j \in Jobs |-> NoRow]
NoReq   == [job |-> 0, kind |-> "none", key |-> NoKey,
            status |-> "absent", token |-> NoToken, lease |-> "none"]
Request == [job : 0 .. MaxJobs, kind : JobKind \union {"none"}, key : Keys \union {NoKey},
            status : Status, token : Workers \union {NoToken}, lease : LeaseState]

TypeOK ==
    /\ setting \in Settings
    /\ kind \in [Jobs -> JobKind \union {"none"}]
    /\ key \in [Jobs -> Keys \union {NoKey}]
    /\ status \in [Jobs -> Status]
    /\ token \in [Jobs -> Workers \union {NoToken}]
    /\ lease \in [Jobs -> LeaseState]
    /\ due \in [Jobs -> BOOLEAN]
    /\ attempts \in [Jobs -> Nat] /\ done \in [Jobs -> Nat]
    /\ pc \in [Workers -> Pc]
    /\ wjob \in [Workers -> 0 .. MaxJobs]
    /\ wsaw \in [Workers -> [Jobs -> [status : Status, attempts : Nat]]]
    /\ stop \in [Workers -> BOOLEAN] /\ beat \in [Workers -> BOOLEAN]
    /\ cpc \in [Clients -> {"idle", "insert", "cancel", "write_off"}]
    /\ creq \in [Clients -> Request]
    /\ mishaps \in Nat

Init ==
    /\ setting \in Settings
    /\ kind = [j \in Jobs |-> "none"] /\ key = [j \in Jobs |-> NoKey]
    /\ status = [j \in Jobs |-> "absent"]
    /\ token = [j \in Jobs |-> NoToken] /\ lease = [j \in Jobs |-> "none"]
    /\ due = [j \in Jobs |-> TRUE]
    /\ attempts = [j \in Jobs |-> 0] /\ done = [j \in Jobs |-> 0]
    /\ pc = [w \in Workers |-> "off"] /\ wjob = [w \in Workers |-> 0]
    /\ wsaw = [w \in Workers |-> NoSnap]
    /\ stop = [w \in Workers |-> FALSE] /\ beat = [w \in Workers |-> FALSE]
    /\ cpc = [c \in Clients |-> "idle"] /\ creq = [c \in Clients |-> NoReq]
    /\ mishaps = 0

-----------------------------------------------------------------------------
(***************************************************************************)
(* Worker processes and their heartbeats.                                  *)
(***************************************************************************)

Working == {"work", "persist", "cancelling", "cancel", "releasing", "end", "finish",
            "failing", "again", "failed"}

Goto(w, p) == pc' = [pc EXCEPT ![w] = p]

\* record_worker_heartbeat.
Beat(w, active) ==
    beat' = IF setting.engine = "sqlite" THEN [beat EXCEPT ![w] = active] ELSE beat

Mishap == mishaps < setting.mishaps /\ mishaps' = mishaps + 1

\* Mutation: a worker without a job is none that the guard waits for.
GuardBusy(w) == \A v \in Workers \ {w} : ~(beat[v] /\ pc[v] \in Working)

\* enforce_worker_concurrency: every other recent heartbeat was left behind by
\* a process that is gone.  Where that cannot be said of one, the worker does
\* not start and is started again later.
Guard(w) == \A v \in Workers \ {w} : beat[v] => pc[v] = "off"

Start(w) ==
    /\ pc[w] = "off"
    /\ setting.engine = "sqlite" => Guard(w)
    /\ \/ setting.engine # "sqlite" \/ "together" \in setting.faults
       \/ \A v \in Workers : pc[v] # "starting"
    /\ beat' = [v \in Workers |-> beat[v] /\ v = w]
    /\ Goto(w, "starting")
    /\ UNCHANGED <<setting, jobVars, wjob, wsaw, stop, clientVars, mishaps>>

Started(w) ==
    /\ pc[w] = "starting"
    /\ Beat(w, TRUE)
    /\ Goto(w, "top")
    /\ UNCHANGED <<setting, jobVars, wjob, wsaw, stop, clientVars, mishaps>>

\* The process ends and says so.
Ends(w) ==
    /\ Goto(w, "off")
    /\ wjob' = [wjob EXCEPT ![w] = 0] /\ wsaw' = [wsaw EXCEPT ![w] = NoSnap]
    /\ stop' = [stop EXCEPT ![w] = FALSE]
    /\ Beat(w, FALSE)

Signal(w) ==
    /\ pc[w] # "off" /\ ~stop[w]
    /\ Mishap
    /\ stop' = [stop EXCEPT ![w] = TRUE]
    /\ UNCHANGED <<setting, jobVars, pc, wjob, wsaw, beat, clientVars>>

Stop(w) ==
    /\ pc[w] = "top" /\ stop[w]
    /\ Ends(w)
    /\ UNCHANGED <<setting, jobVars, clientVars, mishaps>>

\* The process is killed.  Its heartbeat stays, and so does its claim.
Crash(w) ==
    /\ pc[w] # "off"
    /\ Mishap
    /\ Goto(w, "off")
    /\ wjob' = [wjob EXCEPT ![w] = 0] /\ wsaw' = [wsaw EXCEPT ![w] = NoSnap]
    /\ stop' = [stop EXCEPT ![w] = FALSE]
    /\ UNCHANGED <<setting, jobVars, beat, clientVars>>

\* Three heartbeats went by.  A pass without a job writes one, and an import
\* one with every chunk.  The work of other jobs writes none, nor do the looks
\* at retention and housekeeping between two passes.
BeatOld(w) ==
    /\ beat[w]
    /\ pc[w] = "off" \/ ("slow" \in setting.faults /\ pc[w] \in Working \union {"top"})
    /\ beat' = [beat EXCEPT ![w] = FALSE]
    /\ UNCHANGED <<setting, jobVars, pc, wjob, wsaw, stop, clientVars, mishaps>>

-----------------------------------------------------------------------------
(***************************************************************************)
(* A pass: recover what ran out, then claim the oldest job that is due.    *)
(***************************************************************************)

\* Mutations: only running jobs are recovered; every job is tried again.
RanOutRunning == {j \in Jobs : status[j] = "running" /\ LeaseRanOut(status[j], lease[j])}
AgainAlways(j, tries) == tries < MaxAttempts

RanOut == {j \in Jobs : LeaseRanOut(status[j], lease[j])}

MayTryAgain(j, tries) == kind[j] \in AutoRetry /\ tries < MaxAttempts

\* recover_expired_leases, of the rows in snap as they were read.  The
\* heartbeats that name these jobs are no longer active.
Recovered(w, snap) ==
    LET S == {j \in Jobs : snap[j] # NoRow}
        outcome == [j \in S |-> RecoverOutcome(snap[j].status,
                                              MayTryAgain(j, snap[j].attempts))]
    IN /\ status' = [j \in Jobs |-> IF j \in S THEN outcome[j] ELSE status[j]]
       /\ token' = [j \in Jobs |-> IF j \in S THEN NoToken ELSE token[j]]
       /\ lease' = [j \in Jobs |-> IF j \in S THEN "none" ELSE lease[j]]
       /\ due' = [j \in Jobs |-> due[j] /\ ~(j \in S /\ outcome[j] = "retry_wait")]
       /\ beat' = [v \in Workers |-> IF v = w THEN setting.engine = "sqlite"
                                     ELSE beat[v] /\ wjob[v] \notin S]
       /\ Goto(w, "claim")
       /\ wsaw' = [wsaw EXCEPT ![w] = NoSnap]
       /\ UNCHANGED <<setting, kind, key, attempts, done, wjob, stop, clientVars, mishaps>>

\* What a session holds of the rows S.
Snap(S) == [j \in Jobs |-> IF j \in S THEN [status |-> status[j], attempts |-> attempts[j]]
                           ELSE NoRow]

\* One transaction with the rows locked; on SQLite only when there is nothing
\* to recover.
Recover(w) ==
    /\ pc[w] = "top" /\ ~stop[w]
    /\ setting.engine = "postgresql" \/ RanOut = {}
    /\ Recovered(w, Snap(RanOut))

RecoverRead(w) ==
    /\ pc[w] = "top" /\ ~stop[w]
    /\ setting.engine = "sqlite" /\ RanOut # {}
    /\ wsaw' = [wsaw EXCEPT ![w] = Snap(RanOut)]
    /\ Goto(w, "recovering")
    /\ UNCHANGED <<setting, jobVars, wjob, stop, beat, clientVars, mishaps>>

RecoverCommit(w) ==
    /\ pc[w] = "recovering"
    /\ Recovered(w, wsaw[w])

Waiting == {j \in Jobs : status[j] \in CancellableStatus /\ due[j]}

Oldest(j) == j \in Waiting /\ \A i \in Waiting : j <= i

\* claim_next_job, of a job that had been tried so often when it was read.
Claimed(w, j, tries) ==
    /\ status' = [status EXCEPT ![j] = "running"]
    /\ token' = [token EXCEPT ![j] = w] /\ lease' = [lease EXCEPT ![j] = "live"]
    /\ due' = [due EXCEPT ![j] = TRUE]
    /\ attempts' = [attempts EXCEPT ![j] = tries + 1]
    /\ wjob' = [wjob EXCEPT ![w] = j]
    /\ wsaw' = [wsaw EXCEPT ![w] = NoSnap]
    /\ Beat(w, TRUE)
    /\ Goto(w, "work")
    /\ UNCHANGED <<setting, kind, key, done, stop, clientVars, mishaps>>

Claim(w) ==
    /\ pc[w] = "claim" /\ setting.engine = "postgresql"
    /\ \E j \in Jobs : Oldest(j) /\ Claimed(w, j, attempts[j])

ClaimRead(w) ==
    /\ pc[w] = "claim" /\ setting.engine = "sqlite"
    /\ \E j \in Jobs : Oldest(j) /\ wsaw' = [wsaw EXCEPT ![w] = Snap({j})]
    /\ Goto(w, "claiming")
    /\ UNCHANGED <<setting, jobVars, wjob, stop, beat, clientVars, mishaps>>

ClaimCommit(w) ==
    /\ pc[w] = "claiming"
    /\ \E j \in Jobs : wsaw[w][j] # NoRow /\ Claimed(w, j, wsaw[w][j].attempts)

NothingToClaim(w) ==
    /\ pc[w] = "claim" /\ Waiting = {}
    /\ Goto(w, "top")
    /\ UNCHANGED <<setting, jobVars, wjob, wsaw, stop, beat, clientVars, mishaps>>

-----------------------------------------------------------------------------
(***************************************************************************)
(* The work.                                                               *)
(***************************************************************************)

Is(w, k) == kind[wjob[w]] = k

\* _assert_owned_lease, on the row as it is.
Owns(w, statuses) == Owned(status[wjob[w]], token[wjob[w]], w, statuses)

\* Back to the loop; the heartbeat says that the worker has no job.
Leaves(w) ==
    /\ Goto(w, "top")
    /\ wjob' = [wjob EXCEPT ![w] = 0]
    /\ Beat(w, TRUE)

Step(w, p) ==
    /\ Goto(w, p)
    /\ UNCHANGED <<setting, jobVars, wjob, wsaw, stop, beat, clientVars, mishaps>>

\* The work was carried out.  Two observations of one scope are one row.
Done(j) == done' = [done EXCEPT ![j] = IF kind[j] \in {"run_detection", "export_report"}
                                       THEN @ + 1 ELSE 1]

\* A detection run or a report: it does not look at its job meanwhile.
Carry(w) ==
    /\ pc[w] = "work" /\ kind[wjob[w]] \in {"run_detection", "export_report"}
    /\ Done(wjob[w])
    /\ Goto(w, "end")
    /\ UNCHANGED <<setting, kind, key, status, token, lease, due, attempts,
                   wjob, wsaw, stop, beat, clientVars, mishaps>>

\* An observation looks for a cancellation before it is stored; a monitoring
\* cycle looks whether its worker is to stop, and never at its job.
ToldToStop(w) ==
    \/ Is(w, "shadow_observation") /\ status[wjob[w]] = "cancel_requested"
    \/ Is(w, "shadow_monitoring_cycle") /\ stop[w]

Observe(w) ==
    /\ pc[w] = "work"
    /\ kind[wjob[w]] \in {"shadow_observation", "shadow_monitoring_cycle"}
    /\ Step(w, IF ToldToStop(w) THEN "cancelling" ELSE "persist")

\* The key of an observation is unique: a second try finds the first one's.
Persist(w) ==
    /\ pc[w] = "persist"
    /\ Done(wjob[w])
    /\ Goto(w, "end")
    /\ UNCHANGED <<setting, kind, key, status, token, lease, due, attempts,
                   wjob, wsaw, stop, beat, clientVars, mishaps>>

\* complete_cooperative_cancellation, after an observation stopped.
CancelLook(w) ==
    /\ pc[w] = "cancelling"
    /\ Owns(w, {"cancel_requested"})
    /\ Step(w, "cancel")

\* Its exceptions leave the handler they are raised in, and end the process:
\* the lease is lost, or nobody asked for a cancellation.
CancelRaises(w) ==
    /\ pc[w] = "cancelling"
    /\ ~Owns(w, {"cancel_requested"})
    /\ Ends(w)
    /\ UNCHANGED <<setting, jobVars, clientVars, mishaps>>

\* What a session that read its own claim writes.
GivesUp(w, s, d) ==
    LET j == wjob[w]
    IN /\ status' = [status EXCEPT ![j] = s]
       /\ token' = [token EXCEPT ![j] = NoToken] /\ lease' = [lease EXCEPT ![j] = "none"]
       /\ due' = [due EXCEPT ![j] = d]
       /\ Leaves(w)
       /\ UNCHANGED <<setting, kind, key, attempts, done, wsaw, stop, clientVars, mishaps>>

CancelCommit(w) == pc[w] = "cancel" /\ GivesUp(w, "cancelled", TRUE)

\* An import between two chunks: its lease is lost, it is to be cancelled, the
\* worker is to stop, or the next chunk renews the lease.
Boundary(w) ==
    /\ pc[w] = "work" /\ Is(w, "import_logs")
    /\ Owns(w, HeldStatus)
    /\ \/ /\ status[wjob[w]] = "cancel_requested"
          /\ Step(w, "cancel")
       \/ /\ status[wjob[w]] = "running" /\ stop[w]
          /\ Step(w, "releasing")
       \/ /\ status[wjob[w]] = "running" /\ ~stop[w]
          /\ lease' = [lease EXCEPT ![wjob[w]] = "live"]
          /\ Beat(w, TRUE)
          /\ UNCHANGED <<setting, kind, key, status, token, due, attempts, done,
                         pc, wjob, wsaw, stop, clientVars, mishaps>>

\* release_job_for_graceful_shutdown.
Release(w) == pc[w] = "releasing" /\ GivesUp(w, "queued", TRUE)

ImportEnds(w) ==
    /\ pc[w] = "work" /\ Is(w, "import_logs")
    /\ Owns(w, {"running"})
    /\ Done(wjob[w])
    /\ Goto(w, "end")
    /\ UNCHANGED <<setting, kind, key, status, token, lease, due, attempts,
                   wjob, wsaw, stop, beat, clientVars, mishaps>>

\* A handler found that the lease is lost.
LeaseLost(w) ==
    /\ \/ pc[w] = "work" /\ Is(w, "import_logs") /\ ~Owns(w, HeldStatus)
       \/ pc[w] = "end" /\ ~Owns(w, {"running"})
       \/ pc[w] = "failing" /\ ~Owns(w, HeldStatus)
    /\ Leaves(w)
    /\ UNCHANGED <<setting, jobVars, wsaw, stop, clientVars, mishaps>>

\* complete_queued_job: the row is read and tested, then written.
CompleteRead(w) ==
    /\ pc[w] = "end" /\ Owns(w, {"running"})
    /\ Step(w, "finish")

CompleteCommit(w) == pc[w] = "finish" /\ GivesUp(w, "completed", TRUE)

\* The work raises, before or after it did something.
Fail(w) ==
    /\ pc[w] \in {"work", "persist", "end"}
    /\ Mishap
    /\ Goto(w, "failing")
    /\ UNCHANGED <<setting, jobVars, wjob, wsaw, stop, beat, clientVars>>

\* fail_queued_job: a cancellation that was asked for is forgotten.
FailRead(w) ==
    /\ pc[w] = "failing" /\ Owns(w, HeldStatus)
    /\ Step(w, IF MayTryAgain(wjob[w], attempts[wjob[w]]) THEN "again" ELSE "failed")

FailCommit(w) ==
    \/ pc[w] = "again" /\ GivesUp(w, "retry_wait", FALSE)
    \/ pc[w] = "failed" /\ GivesUp(w, "failed", TRUE)

-----------------------------------------------------------------------------
(***************************************************************************)
(* Time.                                                                   *)
(***************************************************************************)

InHand(j) == \E w \in Workers : pc[w] \in Working /\ wjob[w] = j /\ token[j] = w

LapseLease(j) ==
    /\ lease[j] = "live"
    /\ "late_lease" \in setting.faults \/ ~InHand(j)
    /\ lease' = [lease EXCEPT ![j] = "expired"]
    /\ UNCHANGED <<setting, kind, key, status, token, due, attempts, done,
                   workerVars, clientVars, mishaps>>

FallsDue(j) ==
    /\ ~due[j]
    /\ due' = [due EXCEPT ![j] = TRUE]
    /\ UNCHANGED <<setting, kind, key, status, token, lease, attempts, done,
                   workerVars, clientVars, mishaps>>

-----------------------------------------------------------------------------
(***************************************************************************)
(* Requests.                                                               *)
(***************************************************************************)

\* Mutation: only imports that wait are counted.
WaitingImports ==
    Cardinality({j \in Jobs : kind[j] = "import_logs" /\ status[j] \in CancellableStatus})

ActiveImports ==
    Cardinality({j \in Jobs : kind[j] = "import_logs" /\ status[j] \in ActiveStatus})

\* The number of the next job, where there may be one more.
Free(j) ==
    /\ j <= setting.jobs
    /\ status[j] = "absent" /\ \A i \in Jobs : status[i] = "absent" => j <= i

Taken(k) == k # NoKey /\ \E j \in Jobs : key[j] = k

Ask(c, p, r) ==
    /\ cpc[c] = "idle" /\ c \in setting.clients
    /\ cpc' = [cpc EXCEPT ![c] = p]
    /\ creq' = [creq EXCEPT ![c] = r]
    /\ UNCHANGED <<setting, jobVars, workerVars, mishaps>>

Answered(c) ==
    /\ cpc' = [cpc EXCEPT ![c] = "idle"]
    /\ creq' = [creq EXCEPT ![c] = NoReq]

\* api_submit_job and api_enqueue_import up to the look for the key: a request
\* whose key is there is answered with the job it finds, or refused when that
\* is another user's.
SubmitLook(c, k, x) ==
    /\ k = "import_logs" => ActiveImports < MaxQueued
    /\ ~Taken(x)
    /\ \E j \in Jobs : Free(j)
    /\ Ask(c, "insert", [NoReq EXCEPT !.kind = k, !.key = x])

NewRow(j, k, x) ==
    /\ status' = [status EXCEPT ![j] = "queued"]
    /\ kind' = [kind EXCEPT ![j] = k] /\ key' = [key EXCEPT ![j] = x]
    /\ UNCHANGED <<setting, token, lease, due, attempts, done, workerVars, mishaps>>

\* The index of the keys decides which of two requests makes the job.
Insert(c) ==
    /\ cpc[c] = "insert"
    /\ ~Taken(creq[c].key)
    /\ \E j \in Jobs : Free(j) /\ NewRow(j, creq[c].kind, creq[c].key)
    /\ Answered(c)

\* The other one finds that job, or the bound on jobs is reached.
InsertRefused(c) ==
    /\ cpc[c] = "insert"
    /\ Taken(creq[c].key) \/ \A j \in Jobs : ~Free(j)
    /\ Answered(c)
    /\ UNCHANGED <<setting, jobVars, workerVars, mishaps>>

See(j) == [NoReq EXCEPT !.job = j, !.kind = kind[j], !.status = status[j],
                        !.token = token[j], !.lease = lease[j]]

CancelRead(c, j) ==
    /\ "cancel" \in setting.ops
    /\ CancelOutcome(status[j], kind[j] \in Cooperative) # status[j]
    /\ Ask(c, "cancel", See(j))

\* A commit of a request: the columns that differ from what it read.
Written(c, s, ends) ==
    LET j == creq[c].job
    IN /\ status' = [status EXCEPT ![j] = s]
       /\ token' = IF ends THEN [token EXCEPT ![j] = Flushed(@, creq[c].token, NoToken)]
                   ELSE token
       /\ lease' = IF ends THEN [lease EXCEPT ![j] = Flushed(@, creq[c].lease, "none")]
                   ELSE lease
       /\ Answered(c)
       /\ UNCHANGED <<setting, kind, key, due, attempts, done, workerVars, mishaps>>

CancelWrite(c) ==
    /\ cpc[c] = "cancel"
    /\ Written(c, CancelOutcome(creq[c].status, creq[c].kind \in Cooperative),
               creq[c].status \in CancellableStatus)

\* maintenance_jobs: a job untouched for an hour, which no live lease outlasts.
WriteOffRead(c, j) ==
    /\ "write_off" \in setting.ops
    /\ status[j] \in StaleStatus /\ lease[j] # "live"
    /\ Ask(c, "write_off", See(j))

WriteOffCommit(c) == cpc[c] = "write_off" /\ Written(c, "failed", TRUE)

\* retry_job: the work is put into the queue once more, under a key of its own.
Retry(c, j) ==
    /\ "retry" \in setting.ops /\ cpc[c] = "idle" /\ c \in setting.clients
    /\ status[j] \in RetryableStatus /\ kind[j] # "import_logs"
    /\ \E i \in Jobs : Free(i) /\ NewRow(i, kind[j], NoKey)
    /\ UNCHANGED clientVars

-----------------------------------------------------------------------------
Work(w) ==
    \/ Started(w) \/ Stop(w)
    \/ Recover(w) \/ RecoverRead(w) \/ RecoverCommit(w)
    \/ Claim(w) \/ ClaimRead(w) \/ ClaimCommit(w) \/ NothingToClaim(w)
    \/ Carry(w) \/ Observe(w) \/ Persist(w)
    \/ CancelLook(w) \/ CancelRaises(w) \/ CancelCommit(w)
    \/ Boundary(w) \/ ImportEnds(w) \/ Release(w) \/ LeaseLost(w)
    \/ CompleteRead(w) \/ CompleteCommit(w) \/ FailRead(w) \/ FailCommit(w)

Upset(w) == Signal(w) \/ Crash(w) \/ Fail(w)

Requests(c) ==
    \/ \E k \in setting.kinds, x \in Keys \union {NoKey} : SubmitLook(c, k, x)
    \/ Insert(c) \/ InsertRefused(c)
    \/ \E j \in Jobs : CancelRead(c, j) \/ WriteOffRead(c, j) \/ Retry(c, j)
    \/ CancelWrite(c) \/ WriteOffCommit(c)

Next ==
    \/ \E w \in Workers : Work(w) \/ Start(w) \/ BeatOld(w) \/ Upset(w)
    \/ \E j \in Jobs : LapseLease(j) \/ FallsDue(j)
    \/ \E c \in Clients : Requests(c)

Spec == Init /\ [][Next]_vars

\* A worker that is down is started again (by the supervisor of the processes)
\* and gets on with its passes, the work of a job comes to its end, and time
\* passes.
Fairness ==
    /\ \A w \in Workers : /\ WF_vars(Work(w)) /\ WF_vars(Start(w))
                          /\ WF_vars(BeatOld(w)) /\ WF_vars(ImportEnds(w))
    /\ \A j \in Jobs : WF_vars(LapseLease(j)) /\ WF_vars(FallsDue(j))

FairSpec == Spec /\ Fairness

-----------------------------------------------------------------------------
(***************************************************************************)
(* Properties.                                                             *)
(***************************************************************************)

\* One idempotency key makes one job, also for requests that come at the same
\* time (enqueue_job looks for the key, then inserts).
OneJobPerKey ==
    \A i, j \in Jobs : key[i] = key[j] /\ key[i] # NoKey => i = j

\* What the guard can see to: workers are not started at the same time, and no
\* job outlasts three heartbeats.
OneAtATime ==
    setting.engine = "sqlite" => setting.faults \intersect {"together", "slow"} = {}

\* What the limit can see to: nobody cancels a job or writes it off, workers keep
\* apart, and no lease runs out under a worker that may be told to stop.  Where
\* one of these happens, a worker that had its job before puts it back, or claims
\* it, when another import was let in for it.
Undisturbed ==
    /\ setting.ops \subseteq {"retry"} /\ OneAtATime
    /\ "late_lease" \in setting.faults => setting.mishaps = 0

\* The imports that wait or that a worker holds.
OpenImports == {j \in Jobs : /\ kind[j] = "import_logs"
                             /\ \/ status[j] \in CancellableStatus
                                \/ status[j] \in HeldStatus /\ token[j] # NoToken}

\* The limit on queued imports is counted before the job is made: requests at
\* the same time pass it, but by no more than their number less one.
ImportLimit ==
    Undisturbed => Cardinality(OpenImports) <= MaxQueued + Cardinality(setting.clients) - 1

\* The queue as requests leave it.
QueueSound == TypeOK /\ OneJobPerKey /\ ImportLimit

\* enforce_worker_concurrency, "Keep SQLite single-worker": on SQLite there is
\* one worker, also when one is killed or ends and another takes its place.
OneWorker ==
    setting.engine = "sqlite" /\ OneAtATime =>
    \A v, w \in Workers : pc[v] # "off" /\ pc[w] # "off" => v = w

\* recover_expired_leases, "all evidence-mutating work fails closed": no two
\* workers are at one job that is not safe to repeat, and a detection run is
\* carried out at most once, also when its lease runs out under it, its worker
\* is killed, or requests cancel, retry and write it off meanwhile.
EvidenceFailsClosed ==
    OneAtATime =>
    /\ \A v, w \in Workers :
          v # w /\ pc[v] \in Working /\ pc[w] \in Working /\ wjob[v] = wjob[w]
          => kind[wjob[w]] \in AutoRetry
    /\ \A j \in Jobs : kind[j] = "run_detection" => done[j] <= 1

\* Every job ends, whatever becomes of its worker and whoever else works, but
\* for one whose cancellation overtook its end (CompletedIsFinal of ImportChain):
\* nothing that ran out is left to lie, and no cancelled job starts anew for ever.
Overtaken(j) == status[j] = "cancel_requested" /\ token[j] = NoToken

EveryJobEnds ==
    \A j \in Jobs : status[j] \in {"queued", "retry_wait", "running"}
                    ~> status[j] \in TerminalStatus \/ Overtaken(j)
=============================================================================
