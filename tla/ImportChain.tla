---------------------------- MODULE ImportChain -----------------------------
(***************************************************************************)
(* The import of one staged upload: its operation job, the child jobs that *)
(* resume it, the workers that claim them, and the sessions of the people  *)
(* who cancel, resume or write off a job.                                  *)
(*                                                                         *)
(* A worker stores the file chunk by chunk.  The rows of a chunk, the      *)
(* counters of the ingestion run, the checkpoint of the job and the        *)
(* renewed lease commit in one transaction (run_resumable_import).  Every  *)
(* transaction is two steps here, the read its decision rests on and its   *)
(* commit, because nothing but the claim and the lease recovery locks the  *)
(* job's row (PostgreSQL: FOR UPDATE SKIP LOCKED); anything may happen in  *)
(* between.                                                                *)
(*                                                                         *)
(* A line of the file is its number.  Blank lines and the limit of a       *)
(* request are left out: Total is the number of lines the job will store,  *)
(* and checkpoint_line, checkpoint_bytes and progress_current are one      *)
(* position.  Parsing is left out but for the repeats it lets a profile    *)
(* skip.  An ingestion run is named by the job that created it.            *)
(***************************************************************************)
EXTENDS Naturals, FiniteSets, JobStatus

FaultKinds == {"crash",        \* a worker is killed
               "fail",         \* the import raises
               "signal",       \* a worker is told to stop
               "late_lease",   \* a lease runs out while its worker is alive
               "drop",         \* the server stops in the middle of a request
               "age"}          \* the staged file outlives its retention

CONSTANTS
    Workers,        \* worker processes
    Admins,         \* sessions of people, one request at a time each
    AdminOps,       \* what they ask for: a subset of {"cancel", "resume", "write_off"}
    MaxJobs,        \* bound: rows in the chain; job 1 is the upload
    MaxClaims,      \* bound: claims of one job
    Total,          \* lines in the staged file
    ChunkSize,      \* records of one transaction
    SkipRepeats,    \* whether the parser profile skips exact repeats (Palo Alto)
    Faults          \* what may go wrong: a subset of FaultKinds

ASSUME ImportAssumption ==
    /\ MaxJobs \in Nat \ {0}
    /\ MaxClaims \in Nat
    /\ Total \in Nat \ {0}
    /\ ChunkSize \in Nat \ {0}
    /\ SkipRepeats \in BOOLEAN
    /\ Faults \subseteq FaultKinds

Jobs  == 1 .. MaxJobs
Lines == 1 .. Total

RunStatus == {"none", "running", "completed", "failed", "cancelled"}

WorkerPc == {"off", "idle", "claiming", "claimed", "opening", "opened", "loop", "chunk",
             "after", "ending", "completing", "finish", "cancelling",
             "releasing", "failing", "failcommit", "markrun", "failrun",
             "leaving", "sweeping"}

AdminPc == {"idle", "cancel", "write_off", "resume", "enqueue", "mark"}

VARIABLES
    \* operation_jobs, column by column
    status, token, lease, gen, ckpt,
    runOf,          \* related_ingestion_run_id, 0 for NULL
    child,          \* details_json.resume_child_job_id, 0 for none
    \* ingestion_runs, by the job that created the run
    runStatus,
    runRows,        \* raw_logs_created
    copies,         \* raw_logs: how many rows hold line l
    staged,         \* whether the staged file exists
    age,            \* 0 fresh, 1 past the retention, 2 resume window closed
    \* a worker process: where it is, its claim, what it last read
    pc, wjob, wtok,
    seen,           \* status, token and details of the job, status and rows of its run
    pos,            \* position in the file
    dups,           \* lines of the chunk found stored already
    stop,           \* its stop event
    \* a person's session: where it is, and the row it read
    apc, ajob, asaw

jobVars    == <<status, token, lease, gen, ckpt, runOf, child>>
runVars    == <<runStatus, runRows>>
fileVars   == <<staged, age>>
workerVars == <<pc, wjob, wtok, seen, pos, dups, stop>>
adminVars  == <<apc, ajob, asaw>>
vars == <<jobVars, runVars, copies, fileVars, workerVars, adminVars>>

Seen  == [status : Status, token : Nat, run : 0 .. MaxJobs,
          runStatus : RunStatus, rows : Nat, kid : 0 .. MaxJobs]
Saw   == [status : Status, token : Nat, lease : LeaseState,
          ckpt : 0 .. Total, run : 0 .. MaxJobs, kid : 0 .. MaxJobs]
NoSeen == [status |-> "absent", token |-> 0, run |-> 0,
           runStatus |-> "none", rows |-> 0, kid |-> 0]
NoSaw  == [status |-> "absent", token |-> 0, lease |-> "none",
           ckpt |-> 0, run |-> 0, kid |-> 0]

TypeOK ==
    /\ status \in [Jobs -> Status]
    /\ token \in [Jobs -> Nat]
    /\ lease \in [Jobs -> LeaseState]
    /\ gen \in [Jobs -> Nat]
    /\ ckpt \in [Jobs -> 0 .. Total]
    /\ runOf \in [Jobs -> 0 .. MaxJobs]
    /\ child \in [Jobs -> 0 .. MaxJobs]
    /\ runStatus \in [Jobs -> RunStatus]
    /\ runRows \in [Jobs -> Nat]
    /\ copies \in [Lines -> Nat]
    /\ staged \in BOOLEAN
    /\ age \in 0 .. 2
    /\ pc \in [Workers -> WorkerPc]
    /\ wjob \in [Workers -> 0 .. MaxJobs]
    /\ wtok \in [Workers -> Nat]
    /\ seen \in [Workers -> Seen]
    /\ pos \in [Workers -> 0 .. Total]
    /\ dups \in [Workers -> SUBSET Lines]
    /\ stop \in [Workers -> BOOLEAN]
    /\ apc \in [Admins -> AdminPc]
    /\ ajob \in [Admins -> 0 .. MaxJobs]
    /\ asaw \in [Admins -> Saw]

\* The upload is staged and its job queued (api_enqueue_import, enqueue_job).
Init ==
    /\ status = [j \in Jobs |-> IF j = 1 THEN "queued" ELSE "absent"]
    /\ token = [j \in Jobs |-> NoToken]
    /\ lease = [j \in Jobs |-> "none"]
    /\ gen = [j \in Jobs |-> 0]
    /\ ckpt = [j \in Jobs |-> 0]
    /\ runOf = [j \in Jobs |-> 0]
    /\ child = [j \in Jobs |-> 0]
    /\ runStatus = [j \in Jobs |-> "none"]
    /\ runRows = [j \in Jobs |-> 0]
    /\ copies = [l \in Lines |-> 0]
    /\ staged = TRUE
    /\ age = 0
    /\ pc = [w \in Workers |-> "off"]
    /\ wjob = [w \in Workers |-> 0]
    /\ wtok = [w \in Workers |-> 0]
    /\ seen = [w \in Workers |-> NoSeen]
    /\ pos = [w \in Workers |-> 0]
    /\ dups = [w \in Workers |-> {}]
    /\ stop = [w \in Workers |-> FALSE]
    /\ apc = [a \in Admins |-> "idle"]
    /\ ajob = [a \in Admins |-> 0]
    /\ asaw = [a \in Admins |-> NoSaw]

-----------------------------------------------------------------------------
(***************************************************************************)
(* What a worker reads and decides.                                        *)
(***************************************************************************)

RunStatusOf(r) == IF r = 0 THEN "none" ELSE runStatus[r]
RunRowsOf(r)   == IF r = 0 THEN 0 ELSE runRows[r]

\* db.get / db.refresh of the job and its run.
Read(j) == [status |-> status[j], token |-> token[j], run |-> runOf[j],
            runStatus |-> RunStatusOf(runOf[j]), rows |-> RunRowsOf(runOf[j]),
            kid |-> child[j]]

\* _job: the row the worker has in hand is still its own.
Mine(w, statuses) == Owned(seen[w].status, seen[w].token, wtok[w], statuses)

\* Mutations of the chunk: it runs past the end of the file, or leaves out
\* its first record.
ChunkEndUnclipped(w) == pos[w] + ChunkSize
ChunkLinesLate(w)    == {l \in Lines : pos[w] + 1 < l /\ l <= pos[w] + ChunkSize}

\* Mutation: a resumed job reads its file from the start.
FromTheTop(j) == 0

\* physical_line, and the offset sought to: where a job reads on.
StartAt(j) == ckpt[j]

\* The chunk in hand: the records after pos, at most ChunkSize.
ChunkEnd(w) == IF pos[w] + ChunkSize < Total THEN pos[w] + ChunkSize ELSE Total

ChunkLines(w) == {l \in Lines : pos[w] < l /\ l <= ChunkEnd(w)}

NewLines(w) == IF SkipRepeats THEN ChunkLines(w) \ dups[w] ELSE ChunkLines(w)

\* Mutation: the counter of the run is assigned, not added to.
RowsOfChunk(w) == Cardinality(NewLines(w))

\* raw_logs_created with the chunk in hand.
RowsWithChunk(w) == seen[w].rows + Cardinality(NewLines(w))

\* What follows the last chunk: the cached row decides.
EndPc(w) == IF ~Mine(w, HeldStatus) THEN "leaving"
            ELSE IF seen[w].status = "cancel_requested" THEN "cancelling"
            ELSE "ending"

ReleasePc(w) == IF Mine(w, {"running"}) THEN "releasing" ELSE "leaving"

Goto(w, p) == pc' = [pc EXCEPT ![w] = p]

\* The row of job j when its worker's hold on it ends with status s.
EndHold(j, s) ==
    /\ status' = [status EXCEPT ![j] = s]
    /\ token' = [token EXCEPT ![j] = NoToken]
    /\ lease' = [lease EXCEPT ![j] = "none"]

\* details_json is written as a whole, with the mark of a resume that was
\* read or without it.
DetailsFrom(j, read) == child' = [child EXCEPT ![j] = read.kid]

SetRun(w, r, s) ==
    runStatus' = IF r = 0 THEN runStatus
                 ELSE [runStatus EXCEPT ![r] = Flushed(@, seen[w].runStatus, s)]

\* The worker's own variables when it has no job.
Forget(w, p) ==
    /\ Goto(w, p)
    /\ wjob' = [wjob EXCEPT ![w] = 0]
    /\ wtok' = [wtok EXCEPT ![w] = 0]
    /\ seen' = [seen EXCEPT ![w] = NoSeen]
    /\ pos' = [pos EXCEPT ![w] = 0]
    /\ dups' = [dups EXCEPT ![w] = {}]

-----------------------------------------------------------------------------
(***************************************************************************)
(* A worker process: started, told to stop, stopped, killed.               *)
(***************************************************************************)

Start(w) ==
    /\ pc[w] = "off"
    /\ Goto(w, "idle")
    /\ stop' = [stop EXCEPT ![w] = FALSE]
    /\ UNCHANGED <<jobVars, runVars, copies, fileVars, adminVars,
                   wjob, wtok, seen, pos, dups>>

Signal(w) ==
    /\ "signal" \in Faults
    /\ pc[w] # "off"
    /\ ~stop[w]
    /\ stop' = [stop EXCEPT ![w] = TRUE]
    /\ UNCHANGED <<jobVars, runVars, copies, fileVars, adminVars,
                   pc, wjob, wtok, seen, pos, dups>>

Stop(w) ==
    /\ pc[w] = "idle"
    /\ stop[w]
    /\ Goto(w, "off")
    /\ UNCHANGED <<jobVars, runVars, copies, fileVars, adminVars,
                   wjob, wtok, seen, pos, dups, stop>>

\* A transaction that was open is rolled back.
Crash(w) ==
    /\ "crash" \in Faults
    /\ pc[w] \notin {"off", "idle"}
    /\ Forget(w, "off")
    /\ UNCHANGED <<jobVars, runVars, copies, fileVars, adminVars, stop>>

-----------------------------------------------------------------------------
(***************************************************************************)
(* The pass of a worker: recover what ran out, then claim the oldest job.  *)
(* Both hold the rows they change from the read to the commit.             *)
(***************************************************************************)

RanOut == {j \in Jobs : LeaseRanOut(status[j], lease[j])}

\* How the recovery may leave run r.  A running run ends with the first of
\* the recovered jobs that name it, which is the one whose lease ran out first.
RunEnds(r) ==
    LET named == {j \in RanOut : runOf[j] = r}
    IN IF runStatus[r] # "running" \/ named = {} THEN {runStatus[r]}
       ELSE {RecoverOutcome(status[j], FALSE) : j \in named}

Recover(w) ==
    /\ pc[w] = "idle"
    /\ ~stop[w]
    /\ Goto(w, "claiming")
    /\ status' = [j \in Jobs |-> IF j \in RanOut
                                 THEN RecoverOutcome(status[j], FALSE)
                                 ELSE status[j]]
    /\ token' = [j \in Jobs |-> IF j \in RanOut THEN NoToken ELSE token[j]]
    /\ lease' = [j \in Jobs |-> IF j \in RanOut THEN "none" ELSE lease[j]]
    /\ runStatus' \in {f \in [Jobs -> RunStatus] : \A r \in Jobs : f[r] \in RunEnds(r)}
    /\ UNCHANGED <<gen, ckpt, runOf, child, runRows, copies, fileVars, adminVars,
                   wjob, wtok, seen, pos, dups, stop>>

Claimable(j) == status[j] \in CancellableStatus /\ gen[j] < MaxClaims

\* created_at orders the jobs as their numbers do.
Claim(w) ==
    /\ pc[w] = "claiming"
    /\ \E j \in Jobs :
          /\ Claimable(j)
          /\ \A i \in Jobs : Claimable(i) => j <= i
          /\ gen' = [gen EXCEPT ![j] = @ + 1]
          /\ status' = [status EXCEPT ![j] = "running"]
          /\ token' = [token EXCEPT ![j] = gen[j] + 1]
          /\ lease' = [lease EXCEPT ![j] = "live"]
          /\ wjob' = [wjob EXCEPT ![w] = j]
          /\ wtok' = [wtok EXCEPT ![w] = gen[j] + 1]
          /\ Goto(w, "claimed")
    /\ UNCHANGED <<ckpt, runOf, child, runVars, copies, fileVars, adminVars,
                   seen, pos, dups, stop>>

NothingToClaim(w) ==
    /\ pc[w] = "claiming"
    /\ \A j \in Jobs : ~Claimable(j)
    /\ Goto(w, "idle")
    /\ UNCHANGED <<jobVars, runVars, copies, fileVars, adminVars,
                   wjob, wtok, seen, pos, dups, stop>>

-----------------------------------------------------------------------------
(***************************************************************************)
(* run_resumable_import.                                                   *)
(***************************************************************************)

\* The staged file and the row are checked, the run looked up.
OpenRead(w) ==
    /\ pc[w] = "claimed"
    /\ seen' = [seen EXCEPT ![w] = Read(wjob[w])]
    /\ Goto(w, IF ~staged THEN "failing"
               ELSE IF Owned(status[wjob[w]], token[wjob[w]], wtok[w], HeldStatus)
               THEN "opening"
               ELSE "leaving")
    /\ UNCHANGED <<jobVars, runVars, copies, fileVars, adminVars,
                   wjob, wtok, pos, dups, stop>>

\* The run is created or set running, the job names it; the position is the
\* checkpoint as the refreshed row has it.  A job that had a run has the same
\* details already.
OpenCommit(w) ==
    LET j == wjob[w]
        r == IF seen[w].run = 0 THEN j ELSE seen[w].run
    IN /\ pc[w] = "opening"
       /\ runOf' = [runOf EXCEPT ![j] = Flushed(@, seen[w].run, r)]
       /\ IF seen[w].run = 0 THEN DetailsFrom(j, seen[w]) ELSE UNCHANGED child
       /\ runStatus' = [runStatus EXCEPT ![r] = Flushed(@, seen[w].runStatus, "running")]
       /\ seen' = [seen EXCEPT ![w] =
                     [status |-> status[j], token |-> token[j], run |-> r,
                      runStatus |-> runStatus'[r], rows |-> runRows[r],
                      kid |-> child'[j]]]
       /\ pos' = [pos EXCEPT ![w] = StartAt(j)]
       /\ Goto(w, "opened")
       /\ UNCHANGED <<status, token, lease, gen, ckpt, runRows, copies,
                      fileVars, adminVars, wjob, wtok, dups, stop>>

Opened(w) ==
    /\ pc[w] = "opened"
    /\ Goto(w, IF stop[w] THEN ReleasePc(w)
               ELSE IF ~staged THEN "failing"
               ELSE IF pos[w] < Total THEN "loop"
               ELSE EndPc(w))
    /\ UNCHANGED <<jobVars, runVars, copies, fileVars, adminVars,
                   wjob, wtok, seen, pos, dups, stop>>

\* The top of the loop reads the job afresh, then the chunk and the lines of
\* it that are stored already.
Loop(w) ==
    /\ pc[w] = "loop"
    /\ seen' = [seen EXCEPT ![w] =
                  [status |-> status[wjob[w]], token |-> token[wjob[w]], run |-> @.run,
                   runStatus |-> @.runStatus, rows |-> @.rows, kid |-> child[wjob[w]]]]
    /\ LET now == status[wjob[w]]
           own == Owned(now, token[wjob[w]], wtok[w], HeldStatus)
           next == IF ~own THEN "leaving"
                   ELSE IF now = "cancel_requested" THEN "cancelling"
                   ELSE IF stop[w] THEN "releasing"
                   ELSE "chunk"
       IN /\ Goto(w, next)
          /\ dups' = [dups EXCEPT ![w] = IF next = "chunk"
                                         THEN {l \in ChunkLines(w) : copies[l] > 0}
                                         ELSE {}]
    /\ UNCHANGED <<jobVars, runVars, copies, fileVars, adminVars,
                   wjob, wtok, pos, stop>>

\* One transaction: the rows, the counters of the run, the checkpoint, the
\* lease and the details.  renew_job_lease tests the row that was read at the top of the loop.
ChunkCommit(w) ==
    LET j == wjob[w]
        r == seen[w].run
    IN /\ pc[w] = "chunk"
       /\ Mine(w, HeldStatus)
       /\ copies' = [l \in Lines |-> IF l \in NewLines(w) THEN copies[l] + 1 ELSE copies[l]]
       /\ runRows' = [runRows EXCEPT ![r] =
                        Flushed(@, seen[w].rows, RowsWithChunk(w))]
       /\ ckpt' = [ckpt EXCEPT ![j] = ChunkEnd(w)]
       /\ lease' = [lease EXCEPT ![j] = "live"]
       /\ DetailsFrom(j, seen[w])
       /\ seen' = [seen EXCEPT ![w] =
                     [status |-> status[j], token |-> token[j], run |-> r,
                      runStatus |-> runStatus[r], rows |-> runRows'[r],
                      kid |-> child'[j]]]
       /\ pos' = [pos EXCEPT ![w] = ChunkEnd(w)]
       /\ dups' = [dups EXCEPT ![w] = {}]
       /\ Goto(w, "after")
       /\ UNCHANGED <<status, token, gen, runOf, runStatus, fileVars,
                      adminVars, wjob, wtok, stop>>

After(w) ==
    /\ pc[w] = "after"
    /\ Goto(w, IF pos[w] = Total THEN EndPc(w)
               ELSE IF stop[w] THEN ReleasePc(w)
               ELSE "loop")
    /\ UNCHANGED <<jobVars, runVars, copies, fileVars, adminVars,
                   wjob, wtok, seen, pos, dups, stop>>

\* _cancel_at_boundary
CancelAtBoundary(w) ==
    /\ pc[w] = "cancelling"
    /\ EndHold(wjob[w], "cancelled")
    /\ SetRun(w, seen[w].run, "cancelled")
    /\ Goto(w, "leaving")
    /\ UNCHANGED <<gen, ckpt, runOf, child, runRows, copies, fileVars, adminVars,
                   wjob, wtok, seen, pos, dups, stop>>

\* _release_at_boundary
ReleaseAtBoundary(w) ==
    /\ pc[w] = "releasing"
    /\ EndHold(wjob[w], "queued")
    /\ DetailsFrom(wjob[w], seen[w])
    /\ Goto(w, "leaving")
    /\ UNCHANGED <<gen, ckpt, runOf, runVars, copies, fileVars, adminVars,
                   wjob, wtok, seen, pos, dups, stop>>

\* The run is completed in a transaction of its own, before the job is.
EndCommit(w) ==
    /\ pc[w] = "ending"
    /\ SetRun(w, seen[w].run, "completed")
    /\ Goto(w, "completing")
    /\ UNCHANGED <<jobVars, runRows, copies, fileVars, adminVars,
                   wjob, wtok, seen, pos, dups, stop>>

-----------------------------------------------------------------------------
(***************************************************************************)
(* How the pass ends: complete_queued_job, fail_queued_job and the cleanup *)
(* of _run_worker_once_locked.                                             *)
(***************************************************************************)

CompleteRead(w) ==
    /\ pc[w] = "completing"
    /\ seen' = [seen EXCEPT ![w] = Read(wjob[w])]
    /\ Goto(w, IF Owned(status[wjob[w]], token[wjob[w]], wtok[w], {"running"})
               THEN "finish" ELSE "leaving")
    /\ UNCHANGED <<jobVars, runVars, copies, fileVars, adminVars,
                   wjob, wtok, pos, dups, stop>>

CompleteCommit(w) ==
    /\ pc[w] = "finish"
    /\ EndHold(wjob[w], "completed")
    /\ Goto(w, "leaving")
    /\ UNCHANGED <<gen, ckpt, runOf, child, runVars, copies, fileVars, adminVars,
                   wjob, wtok, seen, pos, dups, stop>>

\* Anything may raise before a commit: the transaction is rolled back.
Fail(w) ==
    /\ "fail" \in Faults
    /\ pc[w] \in {"claimed", "opening", "chunk", "ending", "finish"}
    /\ Goto(w, "failing")
    /\ dups' = [dups EXCEPT ![w] = {}]
    /\ UNCHANGED <<jobVars, runVars, copies, fileVars, adminVars,
                   wjob, wtok, seen, pos, stop>>

FailRead(w) ==
    /\ pc[w] = "failing"
    /\ seen' = [seen EXCEPT ![w] = Read(wjob[w])]
    /\ Goto(w, IF Owned(status[wjob[w]], token[wjob[w]], wtok[w], HeldStatus)
               THEN "failcommit" ELSE "leaving")
    /\ UNCHANGED <<jobVars, runVars, copies, fileVars, adminVars,
                   wjob, wtok, pos, dups, stop>>

\* An import is never retried by itself (AUTO_RETRY_SAFE_JOB_TYPES).
FailCommit(w) ==
    /\ pc[w] = "failcommit"
    /\ EndHold(wjob[w], "failed")
    /\ Goto(w, "markrun")
    /\ UNCHANGED <<gen, ckpt, runOf, child, runVars, copies, fileVars, adminVars,
                   wjob, wtok, seen, pos, dups, stop>>

\* mark_resumable_ingestion_failed
MarkRunRead(w) ==
    /\ pc[w] = "markrun"
    /\ seen' = [seen EXCEPT ![w] = Read(wjob[w])]
    /\ Goto(w, IF runOf[wjob[w]] = 0 \/ RunStatusOf(runOf[wjob[w]]) = "completed"
               THEN "leaving" ELSE "failrun")
    /\ UNCHANGED <<jobVars, runVars, copies, fileVars, adminVars,
                   wjob, wtok, pos, dups, stop>>

MarkRunCommit(w) ==
    /\ pc[w] = "failrun"
    /\ SetRun(w, seen[w].run, "failed")
    /\ Goto(w, "leaving")
    /\ UNCHANGED <<jobVars, runRows, copies, fileVars, adminVars,
                   wjob, wtok, seen, pos, dups, stop>>

\* The file goes once the job reads as completed (cleanup_staged_payload).
Leave(w) ==
    /\ pc[w] = "leaving"
    /\ staged' = (staged /\ status[wjob[w]] # "completed")
    /\ Forget(w, "idle")
    /\ UNCHANGED <<jobVars, runVars, copies, age, adminVars, stop>>

-----------------------------------------------------------------------------
(***************************************************************************)
(* Housekeeping: the staged file is planned for deletion from the rows of  *)
(* one moment and deleted later (build_staged_cleanup_plan,                *)
(* apply_staged_cleanup).  A worker does it between two jobs, and so may a *)
(* person who runs cleanup_staged_inputs.                                  *)
(***************************************************************************)

\* Mutation of resume_eligibility: a job that has not ended.
MayResumeRunning(j) == status[j] # "completed" /\ age < 2 /\ child[j] = 0 /\ staged

\* resume_eligibility
MayResume(j) ==
    /\ status[j] \in RetryableStatus
    /\ age < 2
    /\ child[j] = 0
    /\ staged

\* Mutation: only active jobs protect their file.
NeededNow(j) == status[j] \in ActiveStatus

Needed(j) == status[j] \in ActiveStatus \/ MayResume(j)

PlanSweep(w) ==
    /\ pc[w] = "idle"
    /\ staged
    /\ age >= 1
    /\ \A j \in Jobs : ~Needed(j)
    /\ Goto(w, "sweeping")
    /\ UNCHANGED <<jobVars, runVars, copies, fileVars, adminVars,
                   wjob, wtok, seen, pos, dups, stop>>

ApplySweep(w) ==
    /\ pc[w] = "sweeping"
    /\ staged' = FALSE
    /\ Goto(w, "idle")
    /\ UNCHANGED <<jobVars, runVars, copies, age, adminVars,
                   wjob, wtok, seen, pos, dups, stop>>

-----------------------------------------------------------------------------
(***************************************************************************)
(* Time.                                                                   *)
(***************************************************************************)

\* A worker still runs with the claim that job j's row shows.
InHand(j) == \E w \in Workers : wjob[w] = j /\ wtok[w] = token[j]

LapseLease(j) ==
    /\ lease[j] = "live"
    /\ "late_lease" \in Faults \/ ~InHand(j)
    /\ lease' = [lease EXCEPT ![j] = "expired"]
    /\ UNCHANGED <<status, token, gen, ckpt, runOf, child, runVars, copies,
                   fileVars, workerVars, adminVars>>

\* The file grows older than the retention, and a moment later the resume
\* window of its jobs, set when it was staged, closes.
Age ==
    /\ "age" \in Faults
    /\ age < 2
    /\ age' = age + 1
    /\ UNCHANGED <<jobVars, runVars, copies, staged, workerVars, adminVars>>

-----------------------------------------------------------------------------
(***************************************************************************)
(* The sessions of people.                                                 *)
(***************************************************************************)

See(a, j) ==
    asaw' = [asaw EXCEPT ![a] =
              [status |-> status[j], token |-> token[j], lease |-> lease[j],
               ckpt |-> ckpt[j], run |-> runOf[j], kid |-> child[j]]]

AdminRead(a, j, p) ==
    /\ apc[a] = "idle"
    /\ apc' = [apc EXCEPT ![a] = p]
    /\ ajob' = [ajob EXCEPT ![a] = j]
    /\ See(a, j)
    /\ UNCHANGED <<jobVars, runVars, copies, fileVars, workerVars>>

AdminEnd(a) ==
    /\ apc' = [apc EXCEPT ![a] = "idle"]
    /\ ajob' = [ajob EXCEPT ![a] = 0]
    /\ asaw' = [asaw EXCEPT ![a] = NoSaw]

\* The server stops in the middle of a request.
Drop(a) ==
    /\ "drop" \in Faults
    /\ apc[a] # "idle"
    /\ AdminEnd(a)
    /\ UNCHANGED <<jobVars, runVars, copies, fileVars, workerVars>>

CancelRead(a, j) ==
    /\ "cancel" \in AdminOps
    /\ CancelOutcome(status[j], TRUE) # status[j]
    /\ AdminRead(a, j, "cancel")

CancelCommit(a) ==
    LET j == ajob[a]
        ends == asaw[a].status \in CancellableStatus
    IN /\ apc[a] = "cancel"
       /\ status' = [status EXCEPT ![j] = CancelOutcome(asaw[a].status, TRUE)]
       /\ token' = IF ends THEN [token EXCEPT ![j] = Flushed(@, asaw[a].token, NoToken)]
                   ELSE token
       /\ lease' = IF ends THEN [lease EXCEPT ![j] = Flushed(@, asaw[a].lease, "none")]
                   ELSE lease
       /\ AdminEnd(a)
       /\ UNCHANGED <<gen, ckpt, runOf, child, runVars, copies, fileVars, workerVars>>

\* maintenance_jobs: a job untouched for job_stale_after_minutes (60), which
\* no live lease (15 minutes) outlasts.
WriteOffRead(a, j) ==
    /\ "write_off" \in AdminOps
    /\ status[j] \in StaleStatus
    /\ lease[j] # "live"
    /\ AdminRead(a, j, "write_off")

WriteOffCommit(a) ==
    LET j == ajob[a]
    IN /\ apc[a] = "write_off"
       /\ status' = [status EXCEPT ![j] = "failed"]
       /\ token' = [token EXCEPT ![j] = Flushed(@, asaw[a].token, NoToken)]
       /\ lease' = [lease EXCEPT ![j] = Flushed(@, asaw[a].lease, "none")]
       /\ DetailsFrom(j, asaw[a])
       /\ AdminEnd(a)
       /\ UNCHANGED <<gen, ckpt, runOf, runVars, copies, fileVars, workerVars>>

ResumeRead(a, j) ==
    /\ "resume" \in AdminOps
    /\ MayResume(j)
    /\ AdminRead(a, j, "resume")

\* The staged file was hashed in between; now it must be there still and no
\* other job of the chain may be active.
MayTakeOver(a) == staged /\ \A i \in Jobs \ {ajob[a]} : status[i] \notin ActiveStatus

ResumeCheck(a) ==
    /\ apc[a] = "resume"
    /\ MayTakeOver(a)
    /\ apc' = [apc EXCEPT ![a] = "enqueue"]
    /\ UNCHANGED <<jobVars, runVars, copies, fileVars, workerVars, ajob, asaw>>

ResumeRefused(a) ==
    /\ apc[a] = "resume"
    /\ ~MayTakeOver(a)
    /\ AdminEnd(a)
    /\ UNCHANGED <<jobVars, runVars, copies, fileVars, workerVars>>

\* The child starts from the checkpoint that was read.
ResumeEnqueue(a) ==
    /\ apc[a] = "enqueue"
    /\ \E k \in Jobs :
          /\ status[k] = "absent"
          /\ \A i \in Jobs : status[i] = "absent" => k <= i
          /\ status' = [status EXCEPT ![k] = "queued"]
          /\ ckpt' = [ckpt EXCEPT ![k] = asaw[a].ckpt]
          /\ runOf' = [runOf EXCEPT ![k] = asaw[a].run]
          /\ asaw' = [asaw EXCEPT ![a] =
                      [status |-> "absent", token |-> 0, lease |-> "none",
                       ckpt |-> 0, run |-> 0, kid |-> k]]
    /\ apc' = [apc EXCEPT ![a] = "mark"]
    /\ UNCHANGED <<token, lease, gen, child, runVars, copies, fileVars,
                   workerVars, ajob>>

\* The parent is marked in a second transaction.
ResumeMark(a) ==
    /\ apc[a] = "mark"
    /\ child' = [child EXCEPT ![ajob[a]] = asaw[a].kid]
    /\ AdminEnd(a)
    /\ UNCHANGED <<status, token, lease, gen, ckpt, runOf, runVars, copies,
                   fileVars, workerVars>>

-----------------------------------------------------------------------------
Work(w) ==
    \/ Recover(w) \/ Claim(w) \/ NothingToClaim(w)
    \/ OpenRead(w) \/ OpenCommit(w) \/ Opened(w)
    \/ Loop(w) \/ ChunkCommit(w) \/ After(w)
    \/ CancelAtBoundary(w) \/ ReleaseAtBoundary(w)
    \/ EndCommit(w) \/ CompleteRead(w) \/ CompleteCommit(w)
    \/ FailRead(w) \/ FailCommit(w) \/ MarkRunRead(w) \/ MarkRunCommit(w)
    \/ Leave(w)
    \/ ApplySweep(w)

Process(w) == Start(w) \/ Signal(w) \/ Stop(w) \/ Crash(w) \/ Fail(w) \/ PlanSweep(w)

Ask(a) ==
    \/ \E j \in Jobs : CancelRead(a, j) \/ WriteOffRead(a, j) \/ ResumeRead(a, j)
    \/ CancelCommit(a) \/ WriteOffCommit(a)
    \/ ResumeCheck(a) \/ ResumeRefused(a) \/ ResumeEnqueue(a) \/ ResumeMark(a)
    \/ Drop(a)

Next ==
    \/ \E w \in Workers : Work(w) \/ Process(w)
    \/ \E a \in Admins : Ask(a)
    \/ \E j \in Jobs : LapseLease(j)
    \/ Age

Spec == Init /\ [][Next]_vars

-----------------------------------------------------------------------------
(***************************************************************************)
(* What holds whatever goes wrong.                                         *)
(***************************************************************************)

Stored == {l \in Lines : copies[l] > 0}

\* A resume may trust the checkpoint: every line before the checkpoint of any
\* job of the chain is stored, whoever wrote it, and whatever crashed, ran
\* late or was cancelled in between.
EvidenceUpToCheckpoint == \A j \in Jobs : 1 .. ckpt[j] \subseteq Stored

\* Rows and checkpoint commit together: no line is stored that the checkpoint
\* of some job does not cover, so no crash leaves rows a resume would repeat
\* because it never heard of them.
NoEvidencePastCheckpoint == \A l \in Stored : \E j \in Jobs : l <= ckpt[j]

\* Nothing is reported complete, neither the job nor the run, before every
\* line of the file is stored.
CompleteMeansStored ==
    \A j \in Jobs : "completed" \in {status[j], runStatus[j]} => Stored = Lines

\* One worker at a time imports for a job, even a worker that lost its lease:
\* an import that was taken away is failed, never queued under its feet.
Importing == {"claimed", "opening", "opened", "loop", "chunk", "after", "ending",
              "completing", "finish", "cancelling", "releasing", "failing",
              "failcommit", "markrun", "failrun"}

OneWorkerPerJob ==
    \A v, w \in Workers : pc[v] \in Importing /\ pc[w] \in Importing
                          => v = w \/ wjob[v] # wjob[w]

\* The checkpoint of a job never moves back, whichever worker writes it.
CheckpointNeverMovesBack == [][\A j \in Jobs : ckpt[j] <= ckpt'[j]]_vars

\* The chain as its reader sees it: a prefix of the file that grows.
Announced == \E j \in Jobs : "completed" \in {status[j], runStatus[j]}

Durable == INSTANCE DurablePrefix WITH stored <- Stored, announced <- Announced

ImplementsDurablePrefix == Durable!Spec

-----------------------------------------------------------------------------
(***************************************************************************)
(* Why it holds: the inductive invariant of ImportChainProofs.             *)
(***************************************************************************)

Writing == {"opened", "loop", "chunk", "after"}
Ending  == {"ending", "completing", "finish"}

\* Workers and sessions past their first read have a job, and a worker that
\* writes has a run.
Shape ==
    /\ \A w \in Workers : pc[w] \in Importing \union {"leaving"} => wjob[w] \in Jobs
    /\ \A w \in Workers : pc[w] \in Writing => seen[w].run \in Jobs
    /\ \A a \in Admins : apc[a] # "idle" => ajob[a] \in Jobs
    /\ \A a \in Admins : apc[a] = "cancel" =>
          asaw[a].status \in CancellableStatus \union {"running"}

\* A job in a worker's hands is out of the queue, so no second worker claims it.
OutOfQueue ==
    \A w \in Workers : pc[w] \in Importing =>
        status[wjob[w]] \notin CancellableStatus \union {"absent"}

\* A worker writes on from the checkpoint of its job.
AtCheckpoint == \A w \in Workers : pc[w] \in Writing => pos[w] = ckpt[wjob[w]]

AtEnd == \A w \in Workers : pc[w] \in Ending => pos[w] = Total

NotBegun == \A j \in Jobs : status[j] = "absent" => ckpt[j] = 0

\* What a worker or a session remembers of the file is stored.
Remembered ==
    /\ \A w \in Workers : 1 .. pos[w] \subseteq Stored /\ dups[w] \subseteq Stored
    /\ \A a \in Admins : 1 .. asaw[a].ckpt \subseteq Stored

Control ==
    Shape /\ OutOfQueue /\ OneWorkerPerJob /\ AtCheckpoint /\ AtEnd /\ NotBegun

Evidence ==
    Remembered /\ EvidenceUpToCheckpoint /\ NoEvidencePastCheckpoint /\ CompleteMeansStored

IInv == Control /\ Evidence

-----------------------------------------------------------------------------
(***************************************************************************)
(* What holds as long as no lease lapses under a live worker and people    *)
(* only resume, one at a time.                                             *)
(***************************************************************************)

\* No line is stored twice, although nothing in a chunk's transaction looks
\* for the rows of an earlier attempt.
StoredOnce == \A l \in Lines : copies[l] <= 1

\* A resume takes over: the job it continues never writes again.
ResumeTakesOver == \A j \in Jobs : child[j] # 0 => ckpt[j] <= ckpt[child[j]]

\* Both: what one upload brings is stored by one job at a time and once.
ImportedOnce == StoredOnce /\ ResumeTakesOver

\* The run that the chain works under counts the lines that are stored,
\* although a run is opened again by each job that resumes it and its counter
\* is added to what was last read; and no other run is there.
RunRowsAgree == \A r \in Jobs : runStatus[r] # "none" => runRows[r] = Cardinality(Stored)

\* At most one job of the chain is active, so one owns the staged file.
OneActiveImport ==
    \A i, j \in Jobs : status[i] \in ActiveStatus /\ status[j] \in ActiveStatus => i = j

\* An active job has its file until the resume window closes: neither the
\* completion of another job nor housekeeping takes it away.
StagedInputKept == \A j \in Jobs : status[j] \in ActiveStatus /\ age < 2 => staged

-----------------------------------------------------------------------------
=============================================================================
