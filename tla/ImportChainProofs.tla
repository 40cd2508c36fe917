------------------------- MODULE ImportChainProofs --------------------------
(***************************************************************************)
(* What is proved of ImportChain for every number of workers, sessions,    *)
(* jobs and lines, every chunk size and every set of faults.               *)
(*                                                                         *)
(* The argument: a job in a worker's hands is out of the queue and stays   *)
(* out of it until that worker leaves (OutOfQueue), because what takes a   *)
(* job away from a worker, the recovery of its lease, a cancellation or a  *)
(* write-off, ends it and never queues it again.  So one worker writes a   *)
(* checkpoint (OneWorkerPerJob) and writes on from where it is             *)
(* (AtCheckpoint), and since rows and checkpoint commit together, the      *)
(* stored lines and the checkpoints move as one (Evidence).  Neither rests *)
(* on the lease being live: fencing is not what keeps the evidence whole.  *)
(*                                                                         *)
(* That no line is stored twice does rest on the lease.  While it cannot   *)
(* run out under a live worker and people only resume, one request at a    *)
(* time, a worker has its job running (HoldsIt), and of the chain one job  *)
(* is not resumed, which has all that was stored (OneLast) and names the   *)
(* one run that counts it (RunsNamed).                                     *)
(***************************************************************************)
EXTENDS ImportChain, FiniteSetTheorems, TLAPS

-----------------------------------------------------------------------------
(***************************************************************************)
(* Types.                                                                  *)
(***************************************************************************)

\* The empty readings of a worker and of a session.
LEMMA NoType == NoSeen \in Seen /\ NoSaw \in Saw
  BY ImportAssumption DEF NoSeen, NoSaw, Seen, Saw, Status, LeaseState,
      RunStatus

\* What a worker reads of a job.
LEMMA ReadType == ASSUME TypeOK, NEW j \in Jobs PROVE Read(j) \in Seen
<1>1. /\ runOf[j] \in 0 .. MaxJobs /\ status[j] \in Status /\ token[j] \in Nat
      /\ child[j] \in 0 .. MaxJobs
  BY DEF TypeOK
<1>2. runOf[j] = 0 \/ runOf[j] \in Jobs
  BY <1>1, ImportAssumption DEF Jobs
<1>3. RunStatusOf(runOf[j]) \in RunStatus /\ RunRowsOf(runOf[j]) \in Nat
  BY <1>2 DEF TypeOK, RunStatusOf, RunRowsOf, RunStatus
<1> QED BY <1>1, <1>3 DEF Read, Seen

\* What a session reads of a job.
LEMMA SeeType == ASSUME TypeOK, NEW a \in Admins, NEW j \in Jobs, See(a, j)
    PROVE asaw' \in [Admins -> Saw]
<1>1. runOf[j] \in 0 .. MaxJobs /\ status[j] \in Status /\ token[j] \in Nat
    /\ lease[j] \in LeaseState /\ ckpt[j] \in 0 .. Total /\ child[j] \in 0 .. MaxJobs
  BY DEF TypeOK
<1>2. [status |-> status[j], token |-> token[j], lease |-> lease[j],
               ckpt |-> ckpt[j], run |-> runOf[j], kid |-> child[j]] \in Saw
  BY <1>1 DEF Saw
<1> QED BY <1>2 DEF See, TypeOK

\* A chunk has a number of records.
LEMMA NewLinesFinite == ASSUME NEW w \in Workers PROVE
    Cardinality(NewLines(w)) \in Nat
<1>1. NewLines(w) \subseteq Lines BY DEF NewLines, ChunkLines
<1>2. IsFiniteSet(Lines) BY FS_Interval, ImportAssumption DEF Lines
<1> QED BY <1>1, <1>2, FS_Subset, FS_CardinalityType

\* A chunk ends further on, within the file.
LEMMA ChunkEndType == ASSUME TypeOK, NEW w \in Workers PROVE ChunkEnd(w) \in
    0 .. Total /\ pos[w] <= ChunkEnd(w)
  BY ImportAssumption DEF ChunkEnd, TypeOK


\* A step of a worker keeps the types.
LEMMA WorkType ==
    ASSUME TypeOK, Shape, NEW w \in Workers, Work(w) \/ Process(w)
    PROVE  TypeOK'
<1>1. CASE Recover(w)
  BY <1>1, ImportAssumption DEF Recover, Goto, RanOut, LeaseRanOut,
      HeldStatus, RecoverOutcome, fileVars, adminVars, TypeOK, Status,
      LeaseState, RunStatus, WorkerPc, NoToken
<1>2. CASE Claim(w)
  <2>1. PICK j \in Jobs :
            /\ gen' = [gen EXCEPT ![j] = @ + 1]
            /\ status' = [status EXCEPT ![j] = "running"]
            /\ token' = [token EXCEPT ![j] = gen[j] + 1]
            /\ lease' = [lease EXCEPT ![j] = "live"]
            /\ wjob' = [wjob EXCEPT ![w] = j]
            /\ wtok' = [wtok EXCEPT ![w] = gen[j] + 1]
            /\ pc' = [pc EXCEPT ![w] = "claimed"]
    BY <1>2 DEF Claim, Goto
  <2>2. j \in 0 .. MaxJobs
    BY ImportAssumption DEF Jobs
  <2>5. gen[j] + 1 \in Nat
    BY DEF TypeOK
  <2>3. /\ gen' \in [Jobs -> Nat] /\ token' \in [Jobs -> Nat]
        /\ wtok' \in [Workers -> Nat] /\ wjob' \in [Workers -> 0 .. MaxJobs]
    BY <2>1, <2>2, <2>5 DEF TypeOK
  <2>4. /\ status' \in [Jobs -> Status] /\ lease' \in [Jobs -> LeaseState]
        /\ pc' \in [Workers -> WorkerPc]
    BY <2>1 DEF TypeOK, Status, LeaseState, WorkerPc
  <2> QED
    BY <1>2, <2>3, <2>4 DEF Claim, TypeOK, runVars, fileVars, adminVars
<1>3. CASE NothingToClaim(w)
  BY <1>3, ImportAssumption DEF NothingToClaim, Claimable, CancellableStatus,
      Goto, jobVars, runVars, fileVars, adminVars, TypeOK, Status,
      LeaseState, RunStatus, WorkerPc, NoToken
<1>4. CASE OpenRead(w)
  <2>1. wjob[w] \in Jobs BY <1>4 DEF OpenRead, Shape, Importing
  <2>2. Read(wjob[w]) \in Seen BY <1>4, <2>1, ReadType
  <2> QED BY <1>4, <2>2 DEF TypeOK, OpenRead, Goto, WorkerPc, jobVars,
      runVars, fileVars, adminVars
<1>5. CASE OpenCommit(w)
  <2> DEFINE j == wjob[w]
             r == IF seen[w].run = 0 THEN j ELSE seen[w].run
  <2>1. j \in Jobs BY <1>5 DEF OpenCommit, Shape, Importing
  <2>2a. seen[w].run \in 0 .. MaxJobs BY <1>5 DEF TypeOK, Seen
  <2>2b. r \in Jobs BY <1>5, <2>1, <2>2a, ImportAssumption DEF Jobs
  <2>2. r \in Jobs /\ r \in 0 .. MaxJobs BY <1>5, <2>2b, ImportAssumption DEF
      Jobs
  <2>3. runOf' \in [Jobs -> 0 .. MaxJobs] BY <1>5, <2>2 DEF OpenCommit,
      TypeOK, Flushed
  <2>4. runStatus' \in [Jobs -> RunStatus] BY <1>5 DEF OpenCommit, TypeOK,
      Flushed, RunStatus
  <2>5. UNCHANGED <<status, token, runRows, lease, gen, ckpt, copies,
      staged, age, apc, ajob, asaw, wjob, wtok, dups, stop>>
    BY <1>5 DEF OpenCommit, fileVars, adminVars
  <2>5a. child' \in [Jobs -> 0 .. MaxJobs] BY <1>5 DEF OpenCommit,
      DetailsFrom, TypeOK, Seen
  <2>6. [status |-> status[j], token |-> token[j], run |-> r,
         runStatus |-> runStatus'[r], rows |-> runRows[r], kid |-> child'[j]] \in Seen
    BY <1>5, <2>1, <2>2, <2>4, <2>5, <2>5a DEF Seen, TypeOK
  <2>7. seen' \in [Workers -> Seen] BY <1>5, <2>6 DEF OpenCommit, TypeOK
  <2>8. pos' \in [Workers -> 0 .. Total] /\ pc' \in [Workers -> WorkerPc]
    BY <1>5, <2>1 DEF OpenCommit, StartAt, TypeOK, Goto, WorkerPc
  <2> QED BY <1>5, <2>3, <2>4, <2>5, <2>5a, <2>7, <2>8 DEF TypeOK
<1>6. CASE Opened(w)
  BY <1>6, ImportAssumption DEF Opened, Goto, ReleasePc, Mine, Owned, EndPc,
      HeldStatus, jobVars, runVars, fileVars, adminVars, TypeOK, Status,
      LeaseState, RunStatus, WorkerPc, NoToken
<1>7. CASE Loop(w)
  <2>1. wjob[w] \in Jobs BY <1>7 DEF Loop, Shape, Importing
  <2>2. [status |-> status[wjob[w]], token |-> token[wjob[w]], run |->
      seen[w].run,
         runStatus |-> seen[w].runStatus, rows |-> seen[w].rows,
         kid |-> child[wjob[w]]] \in Seen
    BY <1>7, <2>1 DEF Seen, TypeOK
  <2>3. seen' \in [Workers -> Seen] BY <1>7, <2>2 DEF Loop, TypeOK
  <2>4. pc' \in [Workers -> WorkerPc] BY <1>7 DEF Loop, TypeOK, Goto, WorkerPc
  <2>5. dups' \in [Workers -> SUBSET Lines] BY <1>7 DEF Loop, TypeOK,
      ChunkLines
  <2> QED BY <1>7, <2>3, <2>4, <2>5 DEF Loop, TypeOK, jobVars, runVars,
      fileVars, adminVars
<1>8. CASE ChunkCommit(w)
  <2> DEFINE j == wjob[w]
             r == seen[w].run
  <2>1. j \in Jobs /\ r \in Jobs BY <1>8 DEF ChunkCommit, Shape, Importing,
      Writing
  <2>2. RowsWithChunk(w) \in Nat BY <1>8,
      NewLinesFinite DEF TypeOK, Seen, RowsWithChunk
  <2>3. runRows' \in [Jobs -> Nat] BY <1>8, <2>2 DEF ChunkCommit, TypeOK,
      Flushed
  <2>4. UNCHANGED <<status, token, gen, runOf, runStatus, staged, age,
      apc, ajob, asaw, wjob, wtok, stop>>
    BY <1>8 DEF ChunkCommit, fileVars, adminVars
  <2>4a. child' \in [Jobs -> 0 .. MaxJobs] BY <1>8 DEF ChunkCommit,
      DetailsFrom, TypeOK, Seen
  <2>5. [status |-> status[j], token |-> token[j], run |-> r,
         runStatus |-> runStatus[r], rows |-> runRows'[r], kid |-> child'[j]] \in Seen
    BY <1>8, <2>1, <2>3, <2>4a, ImportAssumption DEF Seen, TypeOK, Jobs
  <2>6. seen' \in [Workers -> Seen] BY <1>8, <2>5 DEF ChunkCommit, TypeOK
  <2>7. ckpt' \in [Jobs -> 0 .. Total] /\ pos' \in [Workers -> 0 .. Total]
    BY <1>8, ChunkEndType DEF ChunkCommit, TypeOK
  <2>8. copies' \in [Lines -> Nat] BY <1>8 DEF ChunkCommit, TypeOK
  <2>9. lease' \in [Jobs -> LeaseState] /\ pc' \in [Workers -> WorkerPc] /\
      dups' \in [Workers -> SUBSET Lines]
    BY <1>8 DEF ChunkCommit, TypeOK, LeaseState, Goto, WorkerPc
  <2> QED BY <1>8, <2>3, <2>4, <2>4a, <2>6, <2>7, <2>8, <2>9 DEF TypeOK
<1>9. CASE After(w)
  BY <1>9, ImportAssumption DEF After, Goto, EndPc, Mine, Owned, HeldStatus,
      ReleasePc, jobVars, runVars, fileVars, adminVars, TypeOK, Status,
      LeaseState, RunStatus, WorkerPc, NoToken
<1>10. CASE CancelAtBoundary(w)
  BY <1>10, ImportAssumption DEF CancelAtBoundary, EndHold, SetRun, Flushed,
      Goto, fileVars, adminVars, TypeOK, Status, LeaseState, RunStatus,
      WorkerPc, NoToken
<1>11. CASE ReleaseAtBoundary(w)
  BY <1>11, ImportAssumption DEF ReleaseAtBoundary, EndHold, Goto,
      DetailsFrom, Seen, runVars, fileVars, adminVars, TypeOK, Status, LeaseState, RunStatus, WorkerPc,
      NoToken
<1>12. CASE EndCommit(w)
  BY <1>12, ImportAssumption DEF EndCommit, SetRun, Flushed, Goto, jobVars,
      fileVars, adminVars, TypeOK, Status, LeaseState, RunStatus, WorkerPc,
      NoToken
<1>13. CASE CompleteRead(w)
  <2>1. wjob[w] \in Jobs BY <1>13 DEF CompleteRead, Shape, Importing
  <2>2. Read(wjob[w]) \in Seen BY <1>13, <2>1, ReadType
  <2> QED BY <1>13, <2>2 DEF TypeOK, CompleteRead, Goto, WorkerPc, jobVars,
      runVars, fileVars, adminVars
<1>14. CASE CompleteCommit(w)
  BY <1>14, ImportAssumption DEF CompleteCommit, EndHold, Goto, runVars,
      fileVars, adminVars, TypeOK, Status, LeaseState, RunStatus, WorkerPc,
      NoToken
<1>15. CASE FailRead(w)
  <2>1. wjob[w] \in Jobs BY <1>15 DEF FailRead, Shape, Importing
  <2>2. Read(wjob[w]) \in Seen BY <1>15, <2>1, ReadType
  <2> QED BY <1>15, <2>2 DEF TypeOK, FailRead, Goto, WorkerPc, jobVars,
      runVars, fileVars, adminVars
<1>16. CASE FailCommit(w)
  BY <1>16, ImportAssumption DEF FailCommit, EndHold, Goto, runVars,
      fileVars, adminVars, TypeOK, Status, LeaseState, RunStatus, WorkerPc,
      NoToken
<1>17. CASE MarkRunRead(w)
  <2>1. wjob[w] \in Jobs BY <1>17 DEF MarkRunRead, Shape, Importing
  <2>2. Read(wjob[w]) \in Seen BY <1>17, <2>1, ReadType
  <2> QED BY <1>17, <2>2 DEF TypeOK, MarkRunRead, Goto, WorkerPc, jobVars,
      runVars, fileVars, adminVars
<1>18. CASE MarkRunCommit(w)
  BY <1>18, ImportAssumption DEF MarkRunCommit, SetRun, Flushed, Goto,
      jobVars, fileVars, adminVars, TypeOK, Status, LeaseState, RunStatus,
      WorkerPc, NoToken
<1>19. CASE Leave(w)
  BY <1>19, NoType, ImportAssumption DEF TypeOK, Leave, Forget, Goto,
      WorkerPc, jobVars, runVars, fileVars, adminVars
<1>20. CASE ApplySweep(w)
  BY <1>20, ImportAssumption DEF ApplySweep, Goto, jobVars, runVars,
      adminVars, TypeOK, Status, LeaseState, RunStatus, WorkerPc, NoToken
<1>21. CASE Start(w)
  BY <1>21, ImportAssumption DEF Start, Goto, jobVars, runVars, fileVars,
      adminVars, TypeOK, Status, LeaseState, RunStatus, WorkerPc, NoToken
<1>22. CASE Signal(w)
  BY <1>22, ImportAssumption DEF Signal, jobVars, runVars, fileVars,
      adminVars, TypeOK, Status, LeaseState, RunStatus, WorkerPc, NoToken
<1>23. CASE Stop(w)
  BY <1>23, ImportAssumption DEF Stop, Goto, jobVars, runVars, fileVars,
      adminVars, TypeOK, Status, LeaseState, RunStatus, WorkerPc, NoToken
<1>24. CASE Crash(w)
  BY <1>24, NoType, ImportAssumption DEF TypeOK, Crash, Forget, Goto,
      WorkerPc, jobVars, runVars, fileVars, adminVars
<1>25. CASE Fail(w)
  BY <1>25, ImportAssumption DEF Fail, Goto, jobVars, runVars, fileVars,
      adminVars, TypeOK, Status, LeaseState, RunStatus, WorkerPc, NoToken
<1>26. CASE PlanSweep(w)
  BY <1>26, ImportAssumption DEF PlanSweep, MayResume, RetryableStatus, Goto,
      jobVars, runVars, fileVars, adminVars, TypeOK, Status, LeaseState,
      RunStatus, WorkerPc, NoToken
<1> QED
  BY <1>1, <1>2, <1>3, <1>4, <1>5, <1>6, <1>7, <1>8, <1>9, <1>10, <1>11,
      <1>12, <1>13, <1>14, <1>15, <1>16, <1>17, <1>18, <1>19, <1>20, <1>21,
      <1>22, <1>23, <1>24, <1>25, <1>26 DEF Work, Process

\* A step of a session keeps the types.
LEMMA AskType ==
    ASSUME TypeOK, Shape, NEW a \in Admins, Ask(a)
    PROVE  TypeOK'
<1>1. ASSUME NEW j \in Jobs, CancelRead(a, j)
      PROVE  TypeOK'
  <2>1. asaw' \in [Admins -> Saw] BY <1>1, SeeType DEF CancelRead, AdminRead
  <2>2. j \in 0 .. MaxJobs BY <1>1, ImportAssumption DEF Jobs
  <2>3. apc' \in [Admins -> AdminPc] /\ ajob' \in [Admins -> 0 .. MaxJobs]
    BY <1>1, <2>2 DEF TypeOK, CancelRead, AdminRead, AdminPc
  <2> QED BY <1>1, <2>1, <2>3 DEF TypeOK, CancelRead, AdminRead, jobVars,
      runVars, fileVars, workerVars
<1>2. ASSUME NEW j \in Jobs, WriteOffRead(a, j)
      PROVE  TypeOK'
  <2>1. asaw' \in [Admins -> Saw] BY <1>2, SeeType DEF WriteOffRead, AdminRead
  <2>2. j \in 0 .. MaxJobs BY <1>2, ImportAssumption DEF Jobs
  <2>3. apc' \in [Admins -> AdminPc] /\ ajob' \in [Admins -> 0 .. MaxJobs]
    BY <1>2, <2>2 DEF TypeOK, WriteOffRead, AdminRead, AdminPc
  <2> QED BY <1>2, <2>1, <2>3 DEF TypeOK, WriteOffRead, AdminRead, jobVars,
      runVars, fileVars, workerVars
<1>3. ASSUME NEW j \in Jobs, ResumeRead(a, j)
      PROVE  TypeOK'
  <2>1. asaw' \in [Admins -> Saw] BY <1>3, SeeType DEF ResumeRead, AdminRead
  <2>2. j \in 0 .. MaxJobs BY <1>3, ImportAssumption DEF Jobs
  <2>3. apc' \in [Admins -> AdminPc] /\ ajob' \in [Admins -> 0 .. MaxJobs]
    BY <1>3, <2>2 DEF TypeOK, ResumeRead, AdminRead, AdminPc
  <2> QED BY <1>3, <2>1, <2>3 DEF TypeOK, ResumeRead, AdminRead, jobVars,
      runVars, fileVars, workerVars
<1>4. CASE CancelCommit(a)
  <2>1. apc' \in [Admins -> AdminPc] /\ ajob' \in [Admins -> 0 .. MaxJobs] /\
      asaw' \in [Admins -> Saw]
    BY <1>4, NoType, ImportAssumption DEF CancelCommit, TypeOK, AdminPc,
        AdminEnd
  <2>2. status' \in [Jobs -> Status]
    BY <1>4 DEF CancelCommit, TypeOK, Status, CancelOutcome, Saw, jobVars
  <2>3. token' \in [Jobs -> Nat] /\ lease' \in [Jobs -> LeaseState]
    BY <1>4 DEF CancelCommit, TypeOK, NoToken, LeaseState, Flushed, jobVars
  <2> QED BY <1>4, <2>1, <2>2, <2>3 DEF TypeOK, CancelCommit, jobVars,
      runVars, fileVars, workerVars
<1>5. CASE WriteOffCommit(a)
  <2>1. apc' \in [Admins -> AdminPc] /\ ajob' \in [Admins -> 0 .. MaxJobs] /\
      asaw' \in [Admins -> Saw]
    BY <1>5, NoType, ImportAssumption DEF WriteOffCommit, TypeOK, AdminPc,
        AdminEnd
  <2>2. status' \in [Jobs -> Status]
    BY <1>5 DEF WriteOffCommit, TypeOK, Status, CancelOutcome, Saw, jobVars
  <2>3. token' \in [Jobs -> Nat] /\ lease' \in [Jobs -> LeaseState]
    BY <1>5 DEF WriteOffCommit, TypeOK, NoToken, LeaseState, Flushed, jobVars
  <2>4. child' \in [Jobs -> 0 .. MaxJobs]
    BY <1>5 DEF WriteOffCommit, DetailsFrom, TypeOK, Saw
  <2> QED BY <1>5, <2>1, <2>2, <2>3, <2>4 DEF TypeOK, WriteOffCommit, jobVars,
      runVars, fileVars, workerVars
<1>6. CASE ResumeCheck(a)
  <2>1. apc' \in [Admins -> AdminPc] /\ ajob' \in [Admins -> 0 .. MaxJobs] /\
      asaw' \in [Admins -> Saw]
    BY <1>6, NoType, ImportAssumption DEF ResumeCheck, TypeOK, AdminPc,
        AdminEnd
  <2>2. status' \in [Jobs -> Status]
    BY <1>6 DEF ResumeCheck, TypeOK, Status, CancelOutcome, Saw, jobVars
  <2>3. token' \in [Jobs -> Nat] /\ lease' \in [Jobs -> LeaseState]
    BY <1>6 DEF ResumeCheck, TypeOK, NoToken, LeaseState, Flushed, jobVars
  <2> QED BY <1>6, <2>1, <2>2, <2>3 DEF TypeOK, ResumeCheck, jobVars,
      runVars, fileVars, workerVars
<1>7. CASE ResumeRefused(a)
  <2>1. apc' \in [Admins -> AdminPc] /\ ajob' \in [Admins -> 0 .. MaxJobs] /\
      asaw' \in [Admins -> Saw]
    BY <1>7, NoType, ImportAssumption DEF ResumeRefused, TypeOK, AdminPc,
        AdminEnd
  <2>2. status' \in [Jobs -> Status]
    BY <1>7 DEF ResumeRefused, TypeOK, Status, CancelOutcome, Saw, jobVars
  <2>3. token' \in [Jobs -> Nat] /\ lease' \in [Jobs -> LeaseState]
    BY <1>7 DEF ResumeRefused, TypeOK, NoToken, LeaseState, Flushed, jobVars
  <2> QED BY <1>7, <2>1, <2>2, <2>3 DEF TypeOK, ResumeRefused, jobVars,
      runVars, fileVars, workerVars
<1>8. CASE ResumeEnqueue(a)
  <2>1. PICK k \in Jobs :
            /\ status' = [status EXCEPT ![k] = "queued"]
            /\ ckpt' = [ckpt EXCEPT ![k] = asaw[a].ckpt]
            /\ runOf' = [runOf EXCEPT ![k] = asaw[a].run]
            /\ asaw' = [asaw EXCEPT ![a] =
                        [status |-> "absent", token |-> 0, lease |-> "none",
                         ckpt |-> 0, run |-> 0, kid |-> k]]
    BY <1>8 DEF ResumeEnqueue
  <2>2. asaw[a].ckpt \in 0 .. Total /\ asaw[a].run \in 0 .. MaxJobs BY <1>8
      DEF TypeOK, Saw
  <2>3. [status |-> "absent", token |-> 0, lease |-> "none",
                         ckpt |-> 0, run |-> 0, kid |-> k] \in Saw
    BY <1>8, ImportAssumption DEF Saw, Status, LeaseState, Jobs
  <2>4. status' \in [Jobs -> Status] BY <1>8, <2>1 DEF TypeOK, Status
  <2>5. ckpt' \in [Jobs -> 0 .. Total] /\ runOf' \in [Jobs -> 0 .. MaxJobs]
      BY <1>8, <2>1, <2>2 DEF TypeOK
  <2>6. asaw' \in [Admins -> Saw] BY <1>8, <2>1, <2>3 DEF TypeOK
  <2>7. apc' \in [Admins -> AdminPc] BY <1>8 DEF TypeOK, ResumeEnqueue,
      AdminPc
  <2> QED BY <1>8, <2>4, <2>5, <2>6, <2>7 DEF ResumeEnqueue, TypeOK, runVars,
      fileVars, workerVars
<1>9. CASE ResumeMark(a)
  <2>1. asaw[a].kid \in 0 .. MaxJobs BY <1>9 DEF TypeOK, Saw
  <2>2. child' \in [Jobs -> 0 .. MaxJobs] BY <1>9, <2>1 DEF TypeOK, ResumeMark
  <2>3. apc' \in [Admins -> AdminPc] /\ ajob' \in [Admins -> 0 .. MaxJobs] /\
      asaw' \in [Admins -> Saw]
    BY <1>9, NoType, ImportAssumption DEF ResumeMark, TypeOK, AdminPc,
        AdminEnd
  <2> QED BY <1>9, <2>2, <2>3 DEF ResumeMark, TypeOK, runVars, fileVars,
      workerVars
<1>10. CASE Drop(a)
  <2>1. apc' \in [Admins -> AdminPc] /\ ajob' \in [Admins -> 0 .. MaxJobs] /\
      asaw' \in [Admins -> Saw]
    BY <1>10, NoType, ImportAssumption DEF Drop, TypeOK, AdminPc, AdminEnd
  <2>2. status' \in [Jobs -> Status]
    BY <1>10 DEF Drop, TypeOK, Status, CancelOutcome, Saw, jobVars
  <2>3. token' \in [Jobs -> Nat] /\ lease' \in [Jobs -> LeaseState]
    BY <1>10 DEF Drop, TypeOK, NoToken, LeaseState, Flushed, jobVars
  <2> QED BY <1>10, <2>1, <2>2, <2>3 DEF TypeOK, Drop, jobVars, runVars,
      fileVars, workerVars
<1> QED
  BY <1>1, <1>2, <1>3, <1>4, <1>5, <1>6, <1>7, <1>8, <1>9, <1>10 DEF Ask

LEMMA TypeStep ==
    ASSUME TypeOK, Shape, [Next]_vars
    PROVE  TypeOK'
<1>1. ASSUME NEW j \in Jobs, LapseLease(j) PROVE TypeOK'
  BY <1>1 DEF LapseLease, TypeOK, LeaseState, runVars, fileVars, workerVars, adminVars
<1>2. CASE Age
  <2>1. age + 1 \in 0 .. 2
    BY <1>2 DEF Age, TypeOK
  <2> QED
    BY <1>2, <2>1 DEF Age, TypeOK, jobVars, runVars, workerVars, adminVars
<1>3. CASE UNCHANGED vars
  BY <1>3 DEF vars, jobVars, runVars, fileVars, workerVars, adminVars, TypeOK
<1> QED
  BY <1>1, <1>2, <1>3, WorkType, AskType DEF Next

LEMMA TypeInit == Init => TypeOK
  BY ImportAssumption, NoType DEF Init, TypeOK, Jobs, Lines, Status, LeaseState, RunStatus,
     WorkerPc, AdminPc, NoToken

-----------------------------------------------------------------------------
(***************************************************************************)
(* Who works on what.                                                      *)
(***************************************************************************)

\* A run number is 0 or the number of a job.
LEMMA RunNumber == \A r \in 0 .. MaxJobs : r = 0 \/ r \in Jobs
  BY ImportAssumption DEF Jobs

LEMMA ControlInit == Init => Control
  BY DEF Init, Control, Shape, OutOfQueue, OneWorkerPerJob, AtCheckpoint, AtEnd, NotBegun,
     Importing, Writing, Ending

\* A step of a worker.  It claims what is in the queue, so what nobody has in
\* hand; it queues again only the job it has in hand, and leaves it.
LEMMA WorkControl ==
    ASSUME TypeOK, Control, NEW w \in Workers, Work(w) \/ Process(w)
    PROVE  Control'
<1> USE DEF Control, Shape, OutOfQueue, OneWorkerPerJob, AtCheckpoint, AtEnd, NotBegun,
        TypeOK, Importing, Writing, Ending, CancellableStatus
<1>1. CASE Recover(w)
  BY <1>1, ImportAssumption DEF Recover, Goto, RanOut, LeaseRanOut,
      HeldStatus, RecoverOutcome, fileVars, adminVars
<1>2. CASE Claim(w)
  BY <1>2, ImportAssumption DEF Claim, Claimable, CancellableStatus, Goto,
      runVars, fileVars, adminVars
<1>3. CASE NothingToClaim(w)
  BY <1>3, ImportAssumption DEF NothingToClaim, Claimable, CancellableStatus,
      Goto, jobVars, runVars, fileVars, adminVars
<1>4. CASE OpenRead(w)
  BY <1>4, ImportAssumption DEF OpenRead, Goto, Owned, HeldStatus, jobVars,
      runVars, fileVars, adminVars
<1>5. CASE OpenCommit(w)
  <2>1a. seen[w].run \in 0 .. MaxJobs
    BY DEF Seen
  <2>1b. wjob[w] \in Jobs
    BY <1>5 DEF OpenCommit
  <2>1. wjob[w] \in Jobs /\ seen[w].run \in 0 .. MaxJobs
    BY <2>1a, <2>1b
  <2>2. seen[w].run = 0 \/ seen[w].run \in Jobs
    BY <2>1, RunNumber
  <2>3. /\ seen'[w].run \in Jobs /\ pos'[w] = ckpt[wjob[w]] /\ pc'[w] = "opened"
        /\ \A v \in Workers \ {w} : /\ pc'[v] = pc[v] /\ pos'[v] = pos[v]
                                    /\ seen'[v] = seen[v]
    BY <1>5, <2>1, <2>2 DEF OpenCommit, StartAt, Goto
  <2>4. UNCHANGED <<status, ckpt, wjob, apc, ajob, asaw>>
    BY <1>5 DEF OpenCommit, adminVars
  <2>5. pc[w] = "opening"
    BY <1>5 DEF OpenCommit
  <2>6. Shape' /\ NotBegun'
    BY <2>1, <2>3, <2>4, <2>5
  <2>7. OutOfQueue' /\ OneWorkerPerJob'
    BY <2>1, <2>3, <2>4, <2>5
  <2>8. AtCheckpoint' /\ AtEnd'
    BY <2>1, <2>3, <2>4, <2>5
  <2> QED
    BY <2>6, <2>7, <2>8
<1>6. CASE Opened(w)
  <2>1. Total \in Nat
    BY ImportAssumption
  <2>2. ~(pos[w] < Total) => pos[w] = Total
    <3>1. pos[w] \in 0 .. Total
      OBVIOUS
    <3> QED
      BY ONLY <2>1, <3>1
  <2>3. pc'[w] \in Ending => pos[w] = Total
    BY <1>6, <2>2 DEF Opened, Goto, ReleasePc, EndPc
  <2> QED
    BY <1>6, <2>3 DEF Opened, Goto, ReleasePc, EndPc, jobVars, runVars, fileVars, adminVars
<1>7. CASE Loop(w)
  BY <1>7, ImportAssumption DEF Loop, Owned, HeldStatus, Goto, jobVars,
      runVars, fileVars, adminVars
<1>8. CASE ChunkCommit(w)
  BY <1>8, ImportAssumption DEF ChunkCommit, Mine, Owned, HeldStatus,
      Flushed, Goto, fileVars, adminVars
<1>9. CASE After(w)
  BY <1>9, ImportAssumption DEF After, Goto, EndPc, Mine, Owned, HeldStatus,
      ReleasePc, jobVars, runVars, fileVars, adminVars
<1>10. CASE CancelAtBoundary(w)
  BY <1>10, ImportAssumption DEF CancelAtBoundary, EndHold, SetRun, Flushed,
      Goto, fileVars, adminVars
<1>11. CASE ReleaseAtBoundary(w)
  BY <1>11, ImportAssumption DEF ReleaseAtBoundary, EndHold, Goto, runVars,
      fileVars, adminVars
<1>12. CASE EndCommit(w)
  BY <1>12, ImportAssumption DEF EndCommit, SetRun, Flushed, Goto, jobVars,
      fileVars, adminVars
<1>13. CASE CompleteRead(w)
  BY <1>13, ImportAssumption DEF CompleteRead, Goto, Owned, jobVars, runVars,
      fileVars, adminVars
<1>14. CASE CompleteCommit(w)
  BY <1>14, ImportAssumption DEF CompleteCommit, EndHold, Goto, runVars,
      fileVars, adminVars
<1>15. CASE FailRead(w)
  BY <1>15, ImportAssumption DEF FailRead, Goto, Owned, HeldStatus, jobVars,
      runVars, fileVars, adminVars
<1>16. CASE FailCommit(w)
  BY <1>16, ImportAssumption DEF FailCommit, EndHold, Goto, runVars,
      fileVars, adminVars
<1>17. CASE MarkRunRead(w)
  BY <1>17, ImportAssumption DEF MarkRunRead, Goto, jobVars, runVars,
      fileVars, adminVars
<1>18. CASE MarkRunCommit(w)
  BY <1>18, ImportAssumption DEF MarkRunCommit, SetRun, Flushed, Goto,
      jobVars, fileVars, adminVars
<1>19. CASE Leave(w)
  BY <1>19, ImportAssumption DEF Leave, Forget, Goto, jobVars, runVars,
      adminVars
<1>20. CASE ApplySweep(w)
  BY <1>20, ImportAssumption DEF ApplySweep, Goto, jobVars, runVars, adminVars
<1>21. CASE Start(w)
  BY <1>21, ImportAssumption DEF Start, Goto, jobVars, runVars, fileVars,
      adminVars
<1>22. CASE Signal(w)
  BY <1>22, ImportAssumption DEF Signal, jobVars, runVars, fileVars, adminVars
<1>23. CASE Stop(w)
  BY <1>23, ImportAssumption DEF Stop, Goto, jobVars, runVars, fileVars,
      adminVars
<1>24. CASE Crash(w)
  BY <1>24, ImportAssumption DEF Crash, Forget, Goto, jobVars, runVars,
      fileVars, adminVars
<1>25. CASE Fail(w)
  BY <1>25, ImportAssumption DEF Fail, Goto, jobVars, runVars, fileVars,
      adminVars
<1>26. CASE PlanSweep(w)
  BY <1>26, ImportAssumption DEF PlanSweep, MayResume, RetryableStatus, Goto,
      jobVars, runVars, fileVars, adminVars
<1> QED
  BY <1>1, <1>2, <1>3, <1>4, <1>5, <1>6, <1>7, <1>8, <1>9, <1>10, <1>11,
      <1>12, <1>13, <1>14, <1>15, <1>16, <1>17, <1>18, <1>19, <1>20, <1>21,
      <1>22, <1>23, <1>24, <1>25, <1>26 DEF Work, Process

\* A step of a session.  What it ends it never queues; what it queues is new.
LEMMA AskControl ==
    ASSUME TypeOK, Control, NEW a \in Admins, Ask(a)
    PROVE  Control'
<1> USE DEF Control, Shape, OutOfQueue, OneWorkerPerJob, AtCheckpoint, AtEnd, NotBegun,
        TypeOK, Importing, Writing, Ending, CancellableStatus
<1>1. ASSUME NEW j \in Jobs, CancelRead(a, j)
      PROVE  Control'
  BY <1>1 DEF CancelRead, CancelOutcome, CancellableStatus, AdminRead, See,
      jobVars, runVars, fileVars, workerVars
<1>2. ASSUME NEW j \in Jobs, WriteOffRead(a, j)
      PROVE  Control'
  BY <1>2 DEF WriteOffRead, StaleStatus, AdminRead, See, jobVars, runVars,
      fileVars, workerVars
<1>3. ASSUME NEW j \in Jobs, ResumeRead(a, j)
      PROVE  Control'
  BY <1>3 DEF ResumeRead, MayResume, RetryableStatus, AdminRead, See,
      jobVars, runVars, fileVars, workerVars
<1>4. CASE CancelCommit(a)
  BY <1>4 DEF CancelCommit, CancellableStatus, CancelOutcome, Flushed,
      AdminEnd, runVars, fileVars, workerVars
<1>5. CASE WriteOffCommit(a)
  BY <1>5 DEF WriteOffCommit, Flushed, AdminEnd, runVars, fileVars, workerVars
<1>6. CASE ResumeCheck(a)
  BY <1>6 DEF ResumeCheck, MayTakeOver, jobVars, runVars, fileVars, workerVars
<1>7. CASE ResumeRefused(a)
  BY <1>7 DEF ResumeRefused, MayTakeOver, AdminEnd, jobVars, runVars,
      fileVars, workerVars
<1>8. CASE ResumeEnqueue(a)
  BY <1>8 DEF ResumeEnqueue, runVars, fileVars, workerVars
<1>9. CASE ResumeMark(a)
  BY <1>9 DEF ResumeMark, AdminEnd, runVars, fileVars, workerVars
<1>10. CASE Drop(a)
  BY <1>10 DEF Drop, AdminEnd, jobVars, runVars, fileVars, workerVars
<1> QED
  BY <1>1, <1>2, <1>3, <1>4, <1>5, <1>6, <1>7, <1>8, <1>9, <1>10 DEF Ask

LEMMA ControlStep ==
    ASSUME TypeOK, Control, [Next]_vars
    PROVE  Control'
<1> USE DEF Control, Shape, OutOfQueue, OneWorkerPerJob, AtCheckpoint, AtEnd, NotBegun
<1>1. ASSUME NEW j \in Jobs, LapseLease(j) PROVE Control'
  BY <1>1 DEF LapseLease, workerVars, adminVars
<1>2. CASE Age
  BY <1>2 DEF Age, jobVars, workerVars, adminVars
<1>3. CASE UNCHANGED vars
  BY <1>3 DEF vars, jobVars, workerVars, adminVars
<1> QED
  BY <1>1, <1>2, <1>3, WorkControl, AskControl DEF Next

-----------------------------------------------------------------------------
(***************************************************************************)
(* The stored lines and the checkpoints.                                   *)
(***************************************************************************)

LEMMA EvidenceInit == Init => Evidence
<1> SUFFICES ASSUME Init PROVE Evidence
  OBVIOUS
<1>1. Stored = {}
  BY DEF Init, Stored
<1>2. 1 .. 0 = {}
  OBVIOUS
<1> QED
  BY <1>1, <1>2 DEF Init, Evidence, Remembered, EvidenceUpToCheckpoint, NoEvidencePastCheckpoint,
     CompleteMeansStored, NoSaw

\* What a worker or a session remembers stays true as long as the lines stay:
\* the steps that write no line and no checkpoint.
LEMMA EvidenceKept ==
    ASSUME TypeOK, Evidence, UNCHANGED <<copies, ckpt>>,
           \A w \in Workers : \/ pos'[w] = pos[w]
                              \/ pos'[w] = 0
                              \/ \E j \in Jobs : pos'[w] = ckpt[j],
           \A w \in Workers : dups'[w] \subseteq Stored,
           \A a \in Admins : \/ asaw'[a].ckpt = asaw[a].ckpt
                             \/ asaw'[a].ckpt = 0
                             \/ \E j \in Jobs : asaw'[a].ckpt = ckpt[j],
           \A j \in Jobs : "completed" \in {status'[j], runStatus'[j]} =>
               Stored = Lines \/ "completed" \in {status[j], runStatus[j]}
    PROVE  Evidence'
<1>1. Stored' = Stored
  BY DEF Stored
<1>2. 1 .. 0 = {}
  OBVIOUS
<1>3. \A w \in Workers : 1 .. pos'[w] \subseteq Stored
  BY <1>2 DEF Evidence, Remembered, EvidenceUpToCheckpoint
<1>4. \A a \in Admins : 1 .. asaw'[a].ckpt \subseteq Stored
  BY <1>2 DEF Evidence, Remembered, EvidenceUpToCheckpoint
<1>5. EvidenceUpToCheckpoint' /\ NoEvidencePastCheckpoint'
  BY <1>1 DEF Evidence, EvidenceUpToCheckpoint, NoEvidencePastCheckpoint
<1>6. CompleteMeansStored'
  BY <1>1 DEF Evidence, CompleteMeansStored
<1> QED
  BY <1>1, <1>3, <1>4, <1>5, <1>6 DEF Evidence, Remembered

\* What a worker is about to report complete is stored.
LEMMA EndStored ==
    ASSUME TypeOK, Control, Evidence, NEW w \in Workers, pc[w] \in Ending
    PROVE  Stored = Lines
<1>1. pos[w] = Total
  BY DEF Control, AtEnd
<1> QED
  BY <1>1 DEF Evidence, Remembered, Lines, Stored

\* A step of a worker.  The lines of a chunk close the gap between the old
\* checkpoint and the new one.
LEMMA WorkEvidence ==
    ASSUME TypeOK, Control, Evidence, NEW w \in Workers, Work(w) \/ Process(w)
    PROVE  Evidence'
<1> USE DEF TypeOK
<1>1. CASE Recover(w)
  <2>1. \A r \in Jobs : RunEnds(r) \subseteq {runStatus[r], "failed", "cancelled"}
    BY DEF RunEnds, RecoverOutcome
  <2>2. \A j \in Jobs : status'[j] \in {status[j], "failed", "cancelled"}
                        /\ runStatus'[j] \in {runStatus[j], "failed", "cancelled"}
    BY <1>1, <2>1 DEF Recover, RecoverOutcome
  <2> QED
    BY <1>1, <2>2, EvidenceKept DEF Recover, fileVars, adminVars, Evidence, Remembered
<1>2. CASE Claim(w)
  BY <1>2, EvidenceKept DEF Claim, Claimable, CancellableStatus, Goto,
      runVars, fileVars, adminVars, Evidence, Remembered
<1>3. CASE NothingToClaim(w)
  BY <1>3, EvidenceKept DEF NothingToClaim, Claimable, CancellableStatus,
      Goto, jobVars, runVars, fileVars, adminVars, Evidence, Remembered
<1>4. CASE OpenRead(w)
  BY <1>4, EvidenceKept DEF OpenRead, Goto, Owned, HeldStatus, jobVars,
      runVars, fileVars, adminVars, Evidence, Remembered
<1>5. CASE OpenCommit(w)
  <2>1. wjob[w] \in Jobs
    BY <1>5 DEF OpenCommit, Control, Shape, Importing
  <2>2. \A r \in Jobs : runStatus'[r] \in {runStatus[r], "running"}
    BY <1>5 DEF OpenCommit, Flushed
  <2>3. \A v \in Workers : pos'[v] \in {pos[v], ckpt[wjob[w]]}
    BY <1>5 DEF OpenCommit, StartAt
  <2>4. UNCHANGED <<status, ckpt, copies, dups, asaw>>
    BY <1>5 DEF OpenCommit, adminVars
  <2> QED
    BY <2>1, <2>2, <2>3, <2>4, EvidenceKept DEF Evidence, Remembered
<1>6. CASE Opened(w)
  BY <1>6, EvidenceKept DEF Opened, Goto, ReleasePc, Mine, Owned, EndPc,
      HeldStatus, jobVars, runVars, fileVars, adminVars, Evidence, Remembered
<1>7. CASE Loop(w)
  <2>1. \A v \in Workers : dups'[v] \subseteq Stored
    BY <1>7 DEF Loop, Evidence, Remembered, Stored, ChunkLines
  <2>2. UNCHANGED <<status, ckpt, copies, runStatus, pos, asaw>>
    BY <1>7 DEF Loop, jobVars, runVars, adminVars
  <2> QED
    BY <2>1, <2>2, EvidenceKept
<1>8. CASE ChunkCommit(w)
  <2> DEFINE j == wjob[w]
  <2>1. /\ j \in Jobs /\ pos[w] = ckpt[j]
        /\ pos[w] \in Nat /\ ChunkEnd(w) \in Nat /\ pos[w] <= ChunkEnd(w)
    <3>1. j \in Jobs /\ pos[w] = ckpt[j]
      BY <1>8 DEF ChunkCommit, Control, Shape, AtCheckpoint, Importing, Writing
    <3>2. pos[w] \in Nat /\ ChunkEnd(w) \in Nat /\ pos[w] <= ChunkEnd(w)
      BY ChunkEndType, ImportAssumption
    <3> QED
      BY <3>1, <3>2
  <2>2. /\ ckpt' = [ckpt EXCEPT ![j] = ChunkEnd(w)]
        /\ pos' = [pos EXCEPT ![w] = ChunkEnd(w)]
        /\ dups' = [dups EXCEPT ![w] = {}]
        /\ UNCHANGED <<status, runStatus, asaw>>
    BY <1>8 DEF ChunkCommit, adminVars
  <2>3. Stored' = Stored \union NewLines(w)
    BY <1>8 DEF ChunkCommit, Stored, NewLines, ChunkLines
  <2>4. NewLines(w) \subseteq ChunkLines(w) /\ ChunkLines(w) \subseteq Stored'
    BY <2>3 DEF NewLines, Evidence, Remembered
  <2>5. 1 .. ChunkEnd(w) \subseteq Stored'
    <3>1. ChunkEnd(w) \in 0 .. Total /\ Total \in Nat
      BY ChunkEndType, ImportAssumption
    <3>2. 1 .. ChunkEnd(w) \subseteq 1 .. pos[w] \union ChunkLines(w)
      BY <2>1, <3>1 DEF ChunkLines, Lines
    <3>3. 1 .. pos[w] \subseteq Stored
      BY DEF Evidence, Remembered
    <3> QED
      BY <3>2, <3>3, <2>3, <2>4
  <2>6. Remembered'
    BY <2>2, <2>3, <2>5 DEF Evidence, Remembered
  <2>7. EvidenceUpToCheckpoint'
    BY <2>1, <2>2, <2>3, <2>5 DEF Evidence, EvidenceUpToCheckpoint
  <2>8. NoEvidencePastCheckpoint'
    <3>1. \A l \in ChunkLines(w) : l <= ckpt'[j]
      BY <2>1, <2>2 DEF ChunkLines
    <3>2. \A l \in Stored : \E i \in Jobs : l <= ckpt'[i]
      <4>1. \A i \in Jobs : ckpt[i] <= ckpt'[i] /\ ckpt[i] \in Nat /\ ckpt'[i] \in Nat
        BY <2>1, <2>2, ImportAssumption
      <4>2. \A l \in Stored : l \in Nat /\ \E i \in Jobs : l <= ckpt[i]
        BY ImportAssumption DEF Evidence, NoEvidencePastCheckpoint, Stored, Lines
      <4> QED
        BY <4>1, <4>2
    <3> QED
      BY <2>1, <2>3, <2>4, <3>1, <3>2 DEF NoEvidencePastCheckpoint
  <2>9. CompleteMeansStored'
    BY <2>2, <2>3 DEF Evidence, CompleteMeansStored, Stored
  <2> QED
    BY <2>6, <2>7, <2>8, <2>9 DEF Evidence
<1>9. CASE After(w)
  BY <1>9, EvidenceKept DEF After, Goto, EndPc, Mine, Owned, HeldStatus,
      ReleasePc, jobVars, runVars, fileVars, adminVars, Evidence, Remembered
<1>10. CASE CancelAtBoundary(w)
  BY <1>10, EvidenceKept DEF CancelAtBoundary, EndHold, SetRun, Flushed,
      Goto, fileVars, adminVars, Evidence, Remembered
<1>11. CASE ReleaseAtBoundary(w)
  BY <1>11, EvidenceKept DEF ReleaseAtBoundary, EndHold, Goto, runVars,
      fileVars, adminVars, Evidence, Remembered
<1>12. CASE EndCommit(w)
  <2>1. Stored = Lines
    BY <1>12, EndStored DEF EndCommit, Ending
  <2>2. UNCHANGED <<ckpt, copies, pos, dups, asaw>>
    BY <1>12 DEF EndCommit, jobVars, adminVars
  <2> QED
    BY <2>1, <2>2, EvidenceKept DEF Evidence, Remembered
<1>13. CASE CompleteRead(w)
  BY <1>13, EvidenceKept DEF CompleteRead, Goto, Owned, jobVars, runVars,
      fileVars, adminVars, Evidence, Remembered
<1>14. CASE CompleteCommit(w)
  <2>1. Stored = Lines
    BY <1>14, EndStored DEF CompleteCommit, Ending
  <2>2. UNCHANGED <<ckpt, copies, pos, dups, asaw>>
    BY <1>14 DEF CompleteCommit, adminVars
  <2> QED
    BY <2>1, <2>2, EvidenceKept DEF Evidence, Remembered
<1>15. CASE FailRead(w)
  BY <1>15, EvidenceKept DEF FailRead, Goto, Owned, HeldStatus, jobVars,
      runVars, fileVars, adminVars, Evidence, Remembered
<1>16. CASE FailCommit(w)
  BY <1>16, EvidenceKept DEF FailCommit, EndHold, Goto, runVars, fileVars,
      adminVars, Evidence, Remembered
<1>17. CASE MarkRunRead(w)
  BY <1>17, EvidenceKept DEF MarkRunRead, Goto, jobVars, runVars, fileVars,
      adminVars, Evidence, Remembered
<1>18. CASE MarkRunCommit(w)
  BY <1>18, EvidenceKept DEF MarkRunCommit, SetRun, Flushed, Goto, jobVars,
      fileVars, adminVars, Evidence, Remembered
<1>19. CASE Leave(w)
  BY <1>19, EvidenceKept DEF Leave, Forget, Goto, jobVars, runVars,
      adminVars, Evidence, Remembered
<1>20. CASE ApplySweep(w)
  BY <1>20, EvidenceKept DEF ApplySweep, Goto, jobVars, runVars, adminVars,
      Evidence, Remembered
<1>21. CASE Start(w)
  BY <1>21, EvidenceKept DEF Start, Goto, jobVars, runVars, fileVars,
      adminVars, Evidence, Remembered
<1>22. CASE Signal(w)
  BY <1>22, EvidenceKept DEF Signal, jobVars, runVars, fileVars, adminVars,
      Evidence, Remembered
<1>23. CASE Stop(w)
  BY <1>23, EvidenceKept DEF Stop, Goto, jobVars, runVars, fileVars,
      adminVars, Evidence, Remembered
<1>24. CASE Crash(w)
  BY <1>24, EvidenceKept DEF Crash, Forget, Goto, jobVars, runVars, fileVars,
      adminVars, Evidence, Remembered
<1>25. CASE Fail(w)
  BY <1>25, EvidenceKept DEF Fail, Goto, jobVars, runVars, fileVars,
      adminVars, Evidence, Remembered
<1>26. CASE PlanSweep(w)
  BY <1>26, EvidenceKept DEF PlanSweep, MayResume, RetryableStatus, Goto,
      jobVars, runVars, fileVars, adminVars, Evidence, Remembered
<1> QED
  BY <1>1, <1>2, <1>3, <1>4, <1>5, <1>6, <1>7, <1>8, <1>9, <1>10, <1>11,
      <1>12, <1>13, <1>14, <1>15, <1>16, <1>17, <1>18, <1>19, <1>20, <1>21,
      <1>22, <1>23, <1>24, <1>25, <1>26 DEF Work, Process

\* A step of a session.  The child of a resume starts from a checkpoint that
\* was read, so from lines that are stored.
LEMMA AskEvidence ==
    ASSUME TypeOK, Control, Evidence, NEW a \in Admins, Ask(a)
    PROVE  Evidence'
<1> USE DEF TypeOK
<1>1. ASSUME NEW j \in Jobs, CancelRead(a, j)
      PROVE  Evidence'
  <2>1. \A b \in Admins : asaw'[b].ckpt = asaw[b].ckpt \/ asaw'[b].ckpt =
      ckpt[j]
    BY <1>1 DEF CancelRead, AdminRead, See
  <2> QED
    BY <1>1, <2>1, EvidenceKept DEF CancelRead, AdminRead, jobVars, runVars,
        workerVars, Evidence, Remembered
<1>2. ASSUME NEW j \in Jobs, WriteOffRead(a, j)
      PROVE  Evidence'
  <2>1. \A b \in Admins : asaw'[b].ckpt = asaw[b].ckpt \/ asaw'[b].ckpt =
      ckpt[j]
    BY <1>2 DEF WriteOffRead, AdminRead, See
  <2> QED
    BY <1>2, <2>1, EvidenceKept DEF WriteOffRead, AdminRead, jobVars,
        runVars, workerVars, Evidence, Remembered
<1>3. ASSUME NEW j \in Jobs, ResumeRead(a, j)
      PROVE  Evidence'
  <2>1. \A b \in Admins : asaw'[b].ckpt = asaw[b].ckpt \/ asaw'[b].ckpt =
      ckpt[j]
    BY <1>3 DEF ResumeRead, AdminRead, See
  <2> QED
    BY <1>3, <2>1, EvidenceKept DEF ResumeRead, AdminRead, jobVars, runVars,
        workerVars, Evidence, Remembered
<1>4. CASE CancelCommit(a)
  <2>1. \A j \in Jobs : status'[j] = "completed" => status[j] = "completed"
    BY <1>4 DEF CancelCommit, CancelOutcome, CancellableStatus, Control, Shape
  <2>2. \A b \in Admins : asaw'[b].ckpt = asaw[b].ckpt \/ asaw'[b].ckpt = 0
    BY <1>4 DEF CancelCommit, AdminEnd, NoSaw
  <2>3. UNCHANGED <<ckpt, copies, runStatus, pos, dups>>
    BY <1>4 DEF CancelCommit, runVars, workerVars
  <2> QED
    BY <2>1, <2>2, <2>3, EvidenceKept DEF Evidence, Remembered
<1>5. CASE WriteOffCommit(a)
  <2>1. \A b \in Admins : asaw'[b].ckpt = asaw[b].ckpt \/ asaw'[b].ckpt = 0
    BY <1>5 DEF WriteOffCommit, AdminEnd, NoSaw
  <2> QED
    BY <1>5, <2>1, EvidenceKept DEF WriteOffCommit, jobVars, runVars,
        workerVars, Evidence, Remembered
<1>6. CASE ResumeCheck(a)
  BY <1>6, EvidenceKept DEF ResumeCheck, jobVars, runVars, workerVars,
      Evidence, Remembered
<1>7. CASE ResumeRefused(a)
  <2>1. \A b \in Admins : asaw'[b].ckpt = asaw[b].ckpt \/ asaw'[b].ckpt = 0
    BY <1>7 DEF ResumeRefused, AdminEnd, NoSaw
  <2> QED
    BY <1>7, <2>1, EvidenceKept DEF ResumeRefused, jobVars, runVars,
        workerVars, Evidence, Remembered
<1>8. CASE ResumeEnqueue(a)
  <2>1. PICK k \in Jobs :
            /\ status[k] = "absent"
            /\ status' = [status EXCEPT ![k] = "queued"]
            /\ ckpt' = [ckpt EXCEPT ![k] = asaw[a].ckpt]
            /\ asaw' = [asaw EXCEPT ![a] =
                        [status |-> "absent", token |-> 0, lease |-> "none",
                         ckpt |-> 0, run |-> 0, kid |-> k]]
    BY <1>8 DEF ResumeEnqueue
  <2>2. UNCHANGED <<copies, runStatus, pos, dups>>
    BY <1>8 DEF ResumeEnqueue, runVars, workerVars
  <2>3. Stored' = Stored
    BY <2>2 DEF Stored
  <2>4. ckpt[k] = 0
    BY <2>1 DEF Control, NotBegun
  <2>5. 1 .. 0 = {}
    OBVIOUS
  <2>6. Remembered'
    BY <2>1, <2>2, <2>3, <2>5 DEF Evidence, Remembered
  <2>7. EvidenceUpToCheckpoint'
    BY <2>1, <2>3 DEF Evidence, Remembered, EvidenceUpToCheckpoint
  <2>8. NoEvidencePastCheckpoint'
    <3>1. \A l \in Stored : l \in Nat /\ l > 0
      BY ImportAssumption DEF Stored, Lines
    <3>2. \A l \in Stored : \E j \in Jobs \ {k} : l <= ckpt[j]
      BY <2>4, <3>1 DEF Evidence, NoEvidencePastCheckpoint
    <3> QED
      BY <2>1, <2>3, <3>2 DEF NoEvidencePastCheckpoint
  <2>9. CompleteMeansStored'
    BY <2>1, <2>2, <2>3 DEF Evidence, CompleteMeansStored
  <2> QED
    BY <2>6, <2>7, <2>8, <2>9 DEF Evidence
<1>9. CASE ResumeMark(a)
  <2>1. \A b \in Admins : asaw'[b].ckpt = asaw[b].ckpt \/ asaw'[b].ckpt = 0
    BY <1>9 DEF ResumeMark, AdminEnd, NoSaw
  <2> QED
    BY <1>9, <2>1, EvidenceKept DEF ResumeMark, jobVars, runVars, workerVars,
        Evidence, Remembered
<1>10. CASE Drop(a)
  <2>1. \A b \in Admins : asaw'[b].ckpt = asaw[b].ckpt \/ asaw'[b].ckpt = 0
    BY <1>10 DEF Drop, AdminEnd, NoSaw
  <2> QED
    BY <1>10, <2>1, EvidenceKept DEF Drop, jobVars, runVars, workerVars,
        Evidence, Remembered
<1> QED
  BY <1>1, <1>2, <1>3, <1>4, <1>5, <1>6, <1>7, <1>8, <1>9, <1>10 DEF Ask

LEMMA EvidenceStep ==
    ASSUME TypeOK, Control, Evidence, [Next]_vars
    PROVE  Evidence'
<1>1. ASSUME NEW j \in Jobs, LapseLease(j) PROVE Evidence'
  BY <1>1, EvidenceKept DEF LapseLease, runVars, workerVars, adminVars, Evidence, Remembered
<1>2. CASE Age
  BY <1>2, EvidenceKept DEF Age, jobVars, runVars, workerVars, adminVars, Evidence, Remembered
<1>3. CASE UNCHANGED vars
  BY <1>3, EvidenceKept DEF vars, jobVars, runVars, workerVars, adminVars, Evidence, Remembered
<1> QED
  BY <1>1, <1>2, <1>3, WorkEvidence, AskEvidence DEF Next

-----------------------------------------------------------------------------
(***************************************************************************)
(* The theorems.                                                           *)
(***************************************************************************)

\* The inductive invariant holds in every reachable state.
THEOREM Invariance == Spec => [](TypeOK /\ IInv)
<1>1. Init => TypeOK /\ IInv
  BY TypeInit, ControlInit, EvidenceInit DEF IInv
<1>2. TypeOK /\ IInv /\ [Next]_vars => (TypeOK /\ IInv)'
  <2> SUFFICES ASSUME TypeOK, IInv, [Next]_vars PROVE TypeOK' /\ IInv'
    OBVIOUS
  <2>1. TypeOK'
    BY TypeStep DEF IInv, Control
  <2>2. Control' /\ Evidence'
    BY ControlStep, EvidenceStep DEF IInv
  <2> QED
    BY <2>1, <2>2 DEF IInv
<1> QED
  BY <1>1, <1>2, PTL DEF Spec

\* Every column and every variable of a process keeps its type: a position and
\* a checkpoint never leave the file, a token is always a number of a claim.
THEOREM TypeCorrect == Spec => []TypeOK
  BY Invariance, PTL

\* A resume may trust the checkpoint it starts from.
THEOREM CheckpointsTrusted == Spec => []EvidenceUpToCheckpoint
<1>1. IInv => EvidenceUpToCheckpoint
  BY DEF IInv, Evidence
<1> QED
  BY Invariance, <1>1, PTL

\* No crash leaves a stored line that no checkpoint covers.
THEOREM NothingPastCheckpoints == Spec => []NoEvidencePastCheckpoint
<1>1. IInv => NoEvidencePastCheckpoint
  BY DEF IInv, Evidence
<1> QED
  BY Invariance, <1>1, PTL

\* A job or a run that is reported complete has all its lines stored.
THEOREM CompletionHonest == Spec => []CompleteMeansStored
<1>1. IInv => CompleteMeansStored
  BY DEF IInv, Evidence
<1> QED
  BY Invariance, <1>1, PTL

\* One worker at a time imports for a job, whatever became of its lease.
THEOREM MutualExclusion == Spec => []OneWorkerPerJob
<1>1. IInv => OneWorkerPerJob
  BY DEF IInv, Control
<1> QED
  BY Invariance, <1>1, PTL

\* The two steps that write a checkpoint: a chunk moves it on from where its
\* worker stands, a resume gives one to a job that is not there yet.
LEMMA CheckpointStep ==
    ASSUME TypeOK, Control, [Next]_vars
    PROVE  \A j \in Jobs : ckpt[j] <= ckpt'[j]
<1> USE DEF TypeOK
<1>1. CASE UNCHANGED ckpt
  BY <1>1
<1>2. ASSUME NEW w \in Workers, ChunkCommit(w) PROVE \A j \in Jobs : ckpt[j] <= ckpt'[j]
  <2>1. wjob[w] \in Jobs /\ pos[w] = ckpt[wjob[w]]
    BY <1>2 DEF ChunkCommit, Control, Shape, AtCheckpoint, Importing, Writing
  <2>2. pos[w] <= ChunkEnd(w) /\ ckpt' = [ckpt EXCEPT ![wjob[w]] = ChunkEnd(w)]
    BY <1>2, ChunkEndType DEF ChunkCommit
  <2> QED
    BY <2>1, <2>2
<1>3. ASSUME NEW a \in Admins, ResumeEnqueue(a) PROVE \A j \in Jobs : ckpt[j] <= ckpt'[j]
  <2>1. PICK k \in Jobs : status[k] = "absent" /\ ckpt' = [ckpt EXCEPT ![k] = asaw[a].ckpt]
    BY <1>3 DEF ResumeEnqueue
  <2>2. ckpt[k] = 0 /\ asaw[a].ckpt \in 0 .. Total
    BY <2>1 DEF Control, NotBegun, Saw
  <2> QED
    BY <2>1, <2>2
<1>4. ASSUME NEW w \in Workers, Work(w) \/ Process(w), ~ChunkCommit(w) PROVE UNCHANGED ckpt
  BY <1>4 DEF Work, Process, Recover, Claim, NothingToClaim, OpenRead, OpenCommit,
     Opened, Loop, After, CancelAtBoundary, ReleaseAtBoundary, EndCommit,
     CompleteRead, CompleteCommit, FailRead, FailCommit, MarkRunRead,
     MarkRunCommit, Leave, ApplySweep, Start, Signal, Stop, Crash, Fail,
     PlanSweep, jobVars
<1>5. ASSUME NEW a \in Admins, Ask(a), ~ResumeEnqueue(a) PROVE UNCHANGED ckpt
  BY <1>5 DEF Ask, CancelRead, WriteOffRead, ResumeRead, AdminRead, CancelCommit,
     WriteOffCommit, ResumeCheck, ResumeRefused, ResumeMark, Drop, jobVars
<1>6. ASSUME NEW j \in Jobs, LapseLease(j) PROVE UNCHANGED ckpt
  BY <1>6 DEF LapseLease
<1>7. Age \/ UNCHANGED vars => UNCHANGED ckpt
  BY DEF Age, vars, jobVars
<1> QED
  BY <1>1, <1>2, <1>3, <1>4, <1>5, <1>6, <1>7 DEF Next

\* The checkpoint of a job never moves back.
THEOREM CheckpointsMonotone == Spec => CheckpointNeverMovesBack
<1>1. TypeOK /\ IInv /\ [Next]_vars => [\A j \in Jobs : ckpt[j] <= ckpt'[j]]_vars
  BY CheckpointStep DEF IInv
<1> QED
  BY Invariance, <1>1, PTL DEF Spec, CheckpointNeverMovesBack

-----------------------------------------------------------------------------
(***************************************************************************)
(* The chain implements DurablePrefix.                                     *)
(***************************************************************************)

\* The first state maps to the empty prefix, not announced.
LEMMA DurableInit == Init => Durable!Init
<1> SUFFICES ASSUME Init PROVE Stored = {} /\ Announced = FALSE
  BY DEF Durable!Init
<1>1. Stored = {}
  BY DEF Init, Stored
<1>2. \A j \in Jobs : status[j] # "completed" /\ runStatus[j] # "completed"
  BY DEF Init
<1> QED
  BY <1>1, <1>2 DEF Announced

\* A chunk is an Append, or a stutter when another job stored its lines.
LEMMA ChunkAppends ==
    ASSUME TypeOK, IInv, NEW w \in Workers, ChunkCommit(w)
    PROVE  Durable!Append \/ (Stored' = Stored /\ Announced' = Announced)
<1> DEFINE p == pos[w]
           n == ChunkEnd(w)
<1>1. Announced' = Announced
  BY DEF ChunkCommit, Announced
<1>2. p \in 0 .. Total /\ n \in 0 .. Total /\ p <= n /\ n <= p + ChunkSize
  BY ImportAssumption DEF TypeOK, ChunkEnd
<1>3. ChunkLines(w) = (p + 1) .. n
  <2>1. \A l \in Nat : p < l <=> p + 1 <= l
    BY <1>2
  <2>2. \A l : l \in ChunkLines(w) <=> l \in Nat /\ p < l /\ l <= n
    BY <1>2, ImportAssumption DEF ChunkLines, Lines
  <2>3. \A l : l \in (p + 1) .. n <=> l \in Nat /\ p + 1 <= l /\ l <= n
    BY <1>2
  <2> QED
    BY <2>1, <2>2, <2>3
<1>4. 1 .. p \subseteq Stored /\ dups[w] \subseteq Stored
  BY DEF IInv, Evidence, Remembered
<1>5. Stored' = Stored \union NewLines(w)
  <2>1. NewLines(w) \subseteq Lines
    BY DEF NewLines, ChunkLines
  <2>2. \A l \in Lines : copies[l] \in Nat
    BY DEF TypeOK
  <2>3. \A l \in Lines : copies'[l] = IF l \in NewLines(w) THEN copies[l] + 1 ELSE copies[l]
    BY DEF ChunkCommit
  <2>4. \A l \in Lines : copies'[l] > 0 <=> (copies[l] > 0 \/ l \in NewLines(w))
    BY <2>2, <2>3
  <2> QED
    BY <2>1, <2>4 DEF Stored
<1>6. Stored \union NewLines(w) = Stored \union ChunkLines(w)
  BY <1>4 DEF NewLines
<1>7. Stored' = Stored \union (p + 1) .. n
  BY <1>3, <1>5, <1>6
<1>8. CASE p = n
  BY <1>1, <1>2, <1>7, <1>8
<1>9. CASE p < n
  <2>1. n \in Durable!Lines
    BY <1>2, <1>9 DEF Durable!Lines
  <2>2. \E q \in 0 .. Total, m \in Durable!Lines :
           /\ q < m /\ m <= q + ChunkSize
           /\ 1 .. q \subseteq Stored
           /\ Stored' = Stored \union (q + 1) .. m
    BY <1>2, <1>4, <1>7, <1>9, <2>1
  <2> QED
    BY <1>1, <2>2 DEF Durable!Append
<1> QED
  BY <1>2, <1>8, <1>9

\* Every other step leaves the lines alone.
LEMMA LinesKept ==
    ASSUME [Next]_vars, \A w \in Workers : ~ChunkCommit(w)
    PROVE  UNCHANGED copies
<1>1. ASSUME NEW w \in Workers, Work(w) \/ Process(w) PROVE UNCHANGED copies
  BY <1>1 DEF Work, Process, Recover, Claim, NothingToClaim, OpenRead, OpenCommit,
     Opened, Loop, After, CancelAtBoundary, ReleaseAtBoundary, EndCommit,
     CompleteRead, CompleteCommit, FailRead, FailCommit, MarkRunRead,
     MarkRunCommit, Leave, ApplySweep, Start, Signal, Stop, Crash, Fail,
     PlanSweep
<1>2. ASSUME NEW a \in Admins, Ask(a) PROVE UNCHANGED copies
  BY <1>2 DEF Ask, CancelRead, WriteOffRead, ResumeRead, AdminRead, CancelCommit,
     WriteOffCommit, ResumeCheck, ResumeRefused, ResumeEnqueue, ResumeMark, Drop
<1>3. ASSUME NEW j \in Jobs, LapseLease(j) PROVE UNCHANGED copies
  BY <1>3 DEF LapseLease
<1>4. Age \/ UNCHANGED vars => UNCHANGED copies
  BY DEF Age, vars
<1> QED
  BY <1>1, <1>2, <1>3, <1>4 DEF Next

\* A step of the chain is a step of the prefix or none.  An announcement that
\* comes or goes finds all lines stored: before the step if it goes, after it,
\* and so before it, if it comes.
LEMMA DurableStep ==
    ASSUME TypeOK, IInv, [Next]_vars
    PROVE  [Durable!Next]_<<Stored, Announced>>
<1>1. ASSUME NEW w \in Workers, ChunkCommit(w) PROVE [Durable!Next]_<<Stored, Announced>>
  BY <1>1, ChunkAppends DEF Durable!Next
<1>2. CASE \A w \in Workers : ~ChunkCommit(w)
  <2>1. Stored' = Stored
    BY <1>2, LinesKept DEF Stored
  <2>2. Announced => Stored = Lines
    BY DEF IInv, Evidence, CompleteMeansStored, Announced
  <2>3. Evidence'
    BY EvidenceStep DEF IInv
  <2>4. Announced' => Stored' = Lines
    BY <2>3 DEF Evidence, CompleteMeansStored, Announced
  <2>5. CASE Announced' # Announced
    <3>1. Stored = Lines
      BY <2>1, <2>2, <2>4, <2>5 DEF Announced
    <3>2. Announced' \in BOOLEAN
      BY DEF Announced
    <3> QED
      BY <2>1, <3>1, <3>2 DEF Durable!Next, Durable!Announce, Durable!Lines, Lines
  <2> QED
    BY <2>1, <2>5
<1> QED
  BY <1>1, <1>2

\* What readers see of an import is a prefix of the file that only grows, and
\* it is announced complete only when all of it is there.
THEOREM Refinement == Spec => ImplementsDurablePrefix
<1>1. TypeOK /\ IInv /\ [Next]_vars => [Durable!Next]_Durable!vars
  BY DurableStep DEF Durable!vars
<1> QED
  BY DurableInit, Invariance, <1>1, PTL
     DEF Spec, ImplementsDurablePrefix, Durable!Spec

-----------------------------------------------------------------------------
(***************************************************************************)
(* What one upload brings is imported once.                                *)
(***************************************************************************)

\* No lease runs out under a live worker, no request is cut off, and people only
\* resume, one request at a time.
WellTimed ==
    /\ Faults \intersect {"late_lease", "drop"} = {}
    /\ AdminOps \subseteq {"resume"}
    /\ \A a, b \in Admins : a = b

\* Until it ends its hold, a worker has its job running under its own claim.
Holding == Importing \ {"markrun", "failrun"}
HoldsIt ==
    \A w \in Workers : pc[w] \in Holding =>
       /\ status[wjob[w]] = "running"
       /\ token[wjob[w]] = wtok[w] /\ lease[wjob[w]] = "live"

\* A worker that will write the details of its job has read them without the
\* mark of a resume.
WritesDetails == {"opening", "opened", "loop", "chunk", "after", "releasing"}
ReadUnmarked == \A w \in Workers : pc[w] \in WritesDetails => seen[w].kid = 0

\* A job that another one resumes, whether its row says so yet or not.
Resumed(j) == child[j] # 0 \/ \E a \in Admins : apc[a] = "mark" /\ ajob[a] = j

IsLast(j) == status[j] # "absent" /\ ~Resumed(j)

\* One job is not resumed, and it has all that the others have stored.
OneLast ==
    /\ \A i, j \in Jobs : IsLast(i) /\ IsLast(j) => i = j
    /\ \A i, j \in Jobs : IsLast(j) => ckpt[i] <= ckpt[j]
    /\ \A j \in Jobs : child[j] # 0 => status[j] \in RetryableStatus
    /\ \A j \in Jobs : status[j] = "absent" => child[j] = 0

\* The job a person resumes has ended, and is as it was read.
Resuming ==
    \A a \in Admins :
       /\ apc[a] \in {"idle", "resume", "enqueue", "mark"}
       /\ apc[a] # "idle" => status[ajob[a]] \in RetryableStatus /\ child[ajob[a]] = 0
       /\ apc[a] \in {"resume", "enqueue"} =>
             asaw[a].ckpt = ckpt[ajob[a]] /\ (age < 2 => staged)
       /\ apc[a] = "mark" =>
             asaw[a].kid \in Jobs /\ ckpt[ajob[a]] <= ckpt[asaw[a].kid]

\* A chain that no person can resume any more.
Over == \A j \in Jobs : /\ status[j] \notin ActiveStatus
                        /\ status[j] \in RetryableStatus => child[j] # 0

\* Until the resume window closes, housekeeping is about to delete only a file
\* whose chain is over.
SweepsDone == \A w \in Workers : pc[w] = "sweeping" /\ age < 2 => Over

ChainInv ==
    /\ HoldsIt /\ ReadUnmarked /\ OneLast /\ Resuming /\ SweepsDone
    /\ ImportedOnce /\ StagedInputKept

\* A resumed job has ended, and what has not, or is complete, is the last one.
LEMMA LastJob ==
    ASSUME TypeOK, Control, OneLast, Resuming
    PROVE  /\ \A j \in Jobs : Resumed(j) => status[j] \in RetryableStatus
           /\ \A j \in Jobs : status[j] \in ActiveStatus \union {"completed"} => IsLast(j)
<1>1. \A j \in Jobs : Resumed(j) => status[j] \in RetryableStatus
  BY DEF Resumed, OneLast, Resuming
<1> QED
  BY <1>1 DEF IsLast, ActiveStatus, RetryableStatus

\* A worker's step leaves alone what has ended or is not there yet.
JobKept(j) == IF status[j] \in ActiveStatus THEN status'[j] # "absent" ELSE status'[j] = status[j]

\* A step of a worker changes only active jobs, and takes nobody else's.
LEMMA WorkHolds ==
    ASSUME TypeOK, Control, HoldsIt, NEW w \in Workers, Work(w) \/ Process(w)
    PROVE  HoldsIt' /\ \A j \in Jobs : JobKept(j)
<1> USE DEF JobKept
<1>0. /\ DOMAIN status = Jobs /\ DOMAIN token = Jobs /\ DOMAIN lease = Jobs
      /\ DOMAIN pc = Workers /\ DOMAIN wjob = Workers /\ DOMAIN wtok = Workers
      /\ \A j \in Jobs : status[j] \in Status
      /\ \A v \in Workers : pc[v] \in Importing => wjob[v] \in Jobs
      /\ \A v \in Workers \ {w} : pc[v] \in Importing /\ pc[w] \in Importing => wjob[v] # wjob[w]
  BY DEF TypeOK, Control, Shape, OneWorkerPerJob
<1>1. ASSUME UNCHANGED <<status, token, lease, wjob, wtok>>,
             \A v \in Workers : pc'[v] \in Holding => pc[v] \in Holding
      PROVE  HoldsIt' /\ \A j \in Jobs : JobKept(j)
  BY <1>0, <1>1 DEF HoldsIt, ActiveStatus
<1>2. ASSUME UNCHANGED <<status, token, lease, wjob, wtok>>, NEW p, pc' = [pc EXCEPT ![w] = p],
             p \in Holding => pc[w] \in Holding
      PROVE  HoldsIt' /\ \A j \in Jobs : JobKept(j)
  BY <1>0, <1>1, <1>2
<1>3. ASSUME NEW s, NEW p, EndHold(wjob[w], s), pc' = [pc EXCEPT ![w] = p], p \notin Holding,
             pc[w] \in Holding, s # "absent", UNCHANGED <<wjob, wtok>>
      PROVE  HoldsIt' /\ \A j \in Jobs : JobKept(j)
  <2>1. /\ wjob[w] \in Jobs /\ status[wjob[w]] = "running"
        /\ \A v \in Workers : pc'[v] \in Holding =>
              v # w /\ pc[v] \in Holding /\ wjob[v] # wjob[w] /\ wjob[v] \in Jobs
    BY <1>0, <1>3 DEF HoldsIt, Holding
  <2>2. \A j \in Jobs \ {wjob[w]} :
           status'[j] = status[j] /\ token'[j] = token[j] /\ lease'[j] = lease[j]
    BY <1>0, <1>3 DEF EndHold
  <2>3. status'[wjob[w]] = s
    BY <1>0, <1>3, <2>1 DEF EndHold
  <2> QED
    BY <1>3, <2>1, <2>2, <2>3 DEF HoldsIt, ActiveStatus
<1>4. CASE Recover(w)
  <2>1. \A j \in Jobs : /\ lease[j] = "live" =>
                              /\ status'[j] = status[j] /\ token'[j] = token[j]
                              /\ lease'[j] = lease[j]
                        /\ status[j] \notin HeldStatus => status'[j] = status[j]
                        /\ status[j] \in HeldStatus => status'[j] # "absent"
    BY <1>0, <1>4 DEF Recover, RanOut, LeaseRanOut, RecoverOutcome, HeldStatus
  <2>2. \A v \in Workers : pc'[v] \in Holding => pc[v] \in Holding /\ wjob[v] \in Jobs
    BY <1>0, <1>4 DEF Recover, Goto, Holding, Importing
  <2>3. UNCHANGED <<wjob, wtok>>
    BY <1>4 DEF Recover
  <2> QED
    BY <2>1, <2>2, <2>3 DEF HoldsIt, HeldStatus, ActiveStatus
<1>5. CASE Claim(w)
  <2>1. PICK j \in Jobs :
            /\ Claimable(j)
            /\ status' = [status EXCEPT ![j] = "running"]
            /\ token' = [token EXCEPT ![j] = gen[j] + 1]
            /\ lease' = [lease EXCEPT ![j] = "live"]
            /\ wjob' = [wjob EXCEPT ![w] = j]
            /\ wtok' = [wtok EXCEPT ![w] = gen[j] + 1]
            /\ pc' = [pc EXCEPT ![w] = "claimed"]
    BY <1>5 DEF Claim, Goto
  <2>2. status[j] \in CancellableStatus
    BY <2>1 DEF Claimable
  <2>3. \A v \in Workers \ {w} : pc[v] \in Holding => wjob[v] # j
    BY <2>2 DEF HoldsIt, CancellableStatus
  <2>4. \A v \in Workers \ {w} : /\ pc'[v] = pc[v] /\ wjob'[v] = wjob[v] /\ wtok'[v] = wtok[v]
    BY <1>0, <2>1
  <2>5. /\ wjob'[w] = j /\ wtok'[w] = gen[j] + 1
        /\ status'[j] = "running" /\ token'[j] = gen[j] + 1 /\ lease'[j] = "live"
    BY <1>0, <2>1
  <2>6. \A i \in Jobs \ {j} : /\ status'[i] = status[i] /\ token'[i] = token[i]
                              /\ lease'[i] = lease[i]
    BY <1>0, <2>1
  <2>7. \A v \in Workers : pc[v] \in Holding => wjob[v] \in Jobs
    BY <1>0 DEF Holding
  <2>8. \A v \in Workers : pc'[v] \in Holding =>
           /\ status'[wjob'[v]] = "running"
           /\ token'[wjob'[v]] = wtok'[v] /\ lease'[wjob'[v]] = "live"
    <3> SUFFICES ASSUME NEW v \in Workers, pc'[v] \in Holding
                 PROVE  /\ status'[wjob'[v]] = "running"
                        /\ token'[wjob'[v]] = wtok'[v] /\ lease'[wjob'[v]] = "live"
      OBVIOUS
    <3>1. CASE v = w
      BY <3>1, <2>5
    <3>2. CASE v # w
      BY <3>2, <2>3, <2>4, <2>6, <2>7 DEF HoldsIt
    <3> QED
      BY <3>1, <3>2
  <2> QED
    BY <2>2, <2>5, <2>6, <2>8 DEF HoldsIt, CancellableStatus, ActiveStatus
<1>6. CASE ChunkCommit(w)
  <2>1. lease' = [lease EXCEPT ![wjob[w]] = "live"] /\ pc' = [pc EXCEPT ![w] = "after"]
        /\ pc[w] = "chunk" /\ UNCHANGED <<status, token, wjob, wtok>>
    BY <1>6 DEF ChunkCommit, Goto
  <2>2. \A v \in Workers : pc'[v] \in Holding => pc[v] \in Holding /\ wjob[v] \in Jobs
    BY <1>0, <2>1 DEF Holding, Importing
  <2>3. \A j \in Jobs : lease'[j] \in {lease[j], "live"}
    BY <1>0, <2>1
  <2> QED
    BY <2>1, <2>2, <2>3 DEF HoldsIt, ActiveStatus
<1>7. CASE Leave(w)
  BY <1>7, <1>0 DEF Leave, Forget, Goto, jobVars, HoldsIt, Holding, Importing, ActiveStatus
<1>8. CASE Crash(w)
  BY <1>8, <1>0 DEF Crash, Forget, Goto, jobVars, HoldsIt, Holding, Importing, ActiveStatus
<1>9. CASE CancelAtBoundary(w) \/ ReleaseAtBoundary(w) \/ CompleteCommit(w) \/ FailCommit(w)
  <2>1. "leaving" \notin Holding /\ "markrun" \notin Holding
    BY DEF Holding, Importing
  <2>2. pc[w] \in Holding /\ UNCHANGED <<wjob, wtok>>
    BY <1>9 DEF CancelAtBoundary, ReleaseAtBoundary, CompleteCommit, FailCommit,
       Holding, Importing
  <2>3. \E s \in {"cancelled", "queued", "completed", "failed"}, p \in {"leaving", "markrun"} :
           EndHold(wjob[w], s) /\ pc' = [pc EXCEPT ![w] = p]
    BY <1>9 DEF CancelAtBoundary, ReleaseAtBoundary, CompleteCommit, FailCommit, Goto
  <2> QED
    BY <1>3, <2>1, <2>2, <2>3
<1>10. CASE \/ NothingToClaim(w) \/ OpenRead(w) \/ OpenCommit(w) \/ Opened(w)
            \/ Loop(w) \/ After(w) \/ EndCommit(w) \/ CompleteRead(w) \/ FailRead(w)
            \/ MarkRunRead(w) \/ MarkRunCommit(w) \/ ApplySweep(w) \/ Start(w) \/ Stop(w)
            \/ Fail(w) \/ PlanSweep(w)
  <2>1. UNCHANGED <<status, token, lease, wjob, wtok>>
    BY <1>10 DEF NothingToClaim, OpenRead, OpenCommit, Opened, Loop, After, EndCommit,
       CompleteRead, FailRead, MarkRunRead, MarkRunCommit, ApplySweep, Start, Stop, Fail,
       PlanSweep, jobVars
  <2>2. \A v \in Workers \ {w} : pc'[v] = pc[v]
    BY <1>0, <1>10 DEF NothingToClaim, OpenRead, OpenCommit, Opened, Loop, After, EndCommit,
       CompleteRead, FailRead, MarkRunRead, MarkRunCommit, ApplySweep, Start, Stop, Fail,
       PlanSweep, Goto
  <2>3. pc'[w] \in Holding => pc[w] \in Holding
    BY <1>0, <1>10 DEF NothingToClaim, OpenRead, OpenCommit, Opened, Loop, After, EndCommit,
       CompleteRead, FailRead, MarkRunRead, MarkRunCommit, ApplySweep, Start, Stop, Fail,
       PlanSweep, Goto, Holding, Importing
  <2> QED
    BY <1>1, <2>1, <2>2, <2>3
<1>11. CASE Signal(w)
  BY <1>1, <1>11 DEF Signal, jobVars
<1> QED
  BY <1>4, <1>5, <1>6, <1>7, <1>8, <1>9, <1>10, <1>11 DEF Work, Process

\* A worker's step takes no mark of a resume away: a job that is resumed has
\* ended, and no worker has it.
LEMMA WorkMarks ==
    ASSUME TypeOK, Control, HoldsIt, OneLast, ReadUnmarked, NEW w \in Workers,
           Work(w) \/ Process(w)
    PROVE  ReadUnmarked' /\ UNCHANGED child
<1>0. /\ DOMAIN child = Jobs /\ DOMAIN pc = Workers /\ DOMAIN seen = Workers
      /\ \A v \in Workers : pc[v] \in WritesDetails => wjob[v] \in Jobs /\ seen[v].kid = 0
      /\ \A j \in Jobs : status[j] \in HeldStatus => child[j] = 0
      /\ \A v \in Workers : pc[v] \in Holding => wjob[v] \in Jobs /\ child[wjob[v]] = 0
  BY DEF TypeOK, Control, Shape, HoldsIt, Holding, Importing, WritesDetails, ReadUnmarked,
     OneLast, HeldStatus, RetryableStatus
<1>a. ASSUME DetailsFrom(wjob[w], seen[w]), pc[w] \in WritesDetails \intersect Holding
       PROVE  UNCHANGED child
  <2>1. wjob[w] \in Jobs /\ child[wjob[w]] = 0 /\ seen[w].kid = 0
    BY <1>0, <1>a
  <2>2. child \in [Jobs -> 0 .. MaxJobs]
    BY DEF TypeOK
  <2> QED
    BY <1>a, <2>1, <2>2 DEF DetailsFrom
<1>1. UNCHANGED child
  <2>1. CASE OpenCommit(w)
    BY <1>a, <2>1 DEF OpenCommit, WritesDetails, Holding, Importing
  <2>2. CASE ChunkCommit(w)
    BY <1>a, <2>2 DEF ChunkCommit, WritesDetails, Holding, Importing
  <2>3. CASE ReleaseAtBoundary(w)
    BY <1>a, <2>3 DEF ReleaseAtBoundary, WritesDetails, Holding, Importing
  <2> QED
    BY <2>1, <2>2, <2>3 DEF Work, Process, Recover, Claim, NothingToClaim, OpenRead,
       Opened, Loop, After, CancelAtBoundary, EndCommit, CompleteRead, CompleteCommit,
       FailRead, FailCommit, MarkRunRead, MarkRunCommit, Leave, ApplySweep, Start, Signal,
       Stop, Crash, Fail, PlanSweep, jobVars
<1>2. ASSUME \A v \in Workers \ {w} : pc'[v] = pc[v] /\ seen'[v] = seen[v],
             pc'[w] \in WritesDetails => seen'[w].kid = 0
      PROVE  ReadUnmarked' /\ UNCHANGED child
  BY <1>0, <1>1, <1>2 DEF ReadUnmarked
<1>3. CASE OpenRead(w)
  <2>1. wjob[w] \in Jobs
    BY <1>3 DEF OpenRead, Control, Shape, Importing
  <2>2. pc'[w] \in WritesDetails => status[wjob[w]] \in HeldStatus
    BY <1>0, <1>3 DEF OpenRead, Goto, Owned, WritesDetails
  <2> QED
    BY <1>0, <1>2, <1>3, <2>1, <2>2 DEF OpenRead, Goto, Read
<1>4. CASE OpenCommit(w) \/ ChunkCommit(w)
  <2>1. pc[w] \in WritesDetails /\ pc[w] \in Holding
    BY <1>4 DEF OpenCommit, ChunkCommit, WritesDetails, Holding, Importing
  <2>2. seen'[w].kid = child'[wjob[w]]
    BY <1>0, <1>4 DEF OpenCommit, ChunkCommit
  <2>3. \A v \in Workers \ {w} : pc'[v] = pc[v] /\ seen'[v] = seen[v]
    BY <1>0, <1>4 DEF OpenCommit, ChunkCommit, Goto
  <2> QED
    BY <1>0, <1>1, <1>2, <2>1, <2>2, <2>3
<1>5. CASE Loop(w)
  BY <1>0, <1>2, <1>5 DEF Loop, Goto, Holding, Importing
<1>6. CASE Opened(w) \/ After(w)
  <2>1. UNCHANGED seen /\ \A v \in Workers \ {w} : pc'[v] = pc[v]
    BY <1>0, <1>6 DEF Opened, After, Goto
  <2>2. pc[w] \in WritesDetails
    BY <1>6 DEF Opened, After, WritesDetails
  <2> QED
    BY <1>0, <1>2, <2>1, <2>2
<1>7. CASE CompleteRead(w) \/ FailRead(w) \/ MarkRunRead(w)
  BY <1>0, <1>2, <1>7 DEF CompleteRead, FailRead, MarkRunRead, Goto, WritesDetails
<1>8. CASE Leave(w) \/ Crash(w)
  BY <1>0, <1>2, <1>8 DEF Leave, Crash, Forget, Goto, WritesDetails
<1>9. CASE \/ Recover(w) \/ Claim(w) \/ NothingToClaim(w) \/ CancelAtBoundary(w)
           \/ ReleaseAtBoundary(w) \/ EndCommit(w) \/ CompleteCommit(w) \/ FailCommit(w)
           \/ MarkRunCommit(w) \/ ApplySweep(w) \/ Start(w) \/ Stop(w) \/ Fail(w)
           \/ PlanSweep(w)
  BY <1>0, <1>2, <1>9 DEF Recover, Claim, NothingToClaim, CancelAtBoundary,
     ReleaseAtBoundary, EndCommit, CompleteCommit, FailCommit, MarkRunCommit, ApplySweep,
     Start, Stop, Fail, PlanSweep, Goto, WritesDetails
<1>10. CASE Signal(w)
  BY <1>1, <1>10 DEF Signal, ReadUnmarked
<1> QED
  BY <1>1, <1>3, <1>4, <1>5, <1>6, <1>7, <1>8, <1>9, <1>10 DEF Work, Process

\* Nobody is at the file, or is about to be.
Unneeded ==
    /\ \A j \in Jobs : status[j] \notin ActiveStatus
    /\ \A a \in Admins : apc[a] \notin {"resume", "enqueue"}

\* A file that may not be resumed any more is not being resumed.
LEMMA OverIsUnneeded ==
    ASSUME TypeOK, Control, Resuming, Over
    PROVE  /\ Unneeded
           /\ \A a \in Admins : apc[a] = "idle"
  BY DEF Over, Unneeded, Resuming, Control, Shape

\* A job that a person is about to resume is the last one.
LEMMA ResumesTheLast ==
    ASSUME WellTimed, Control, Resuming, NEW a \in Admins, apc[a] \in {"resume", "enqueue"}
    PROVE  ajob[a] \in Jobs /\ IsLast(ajob[a])
<1>1. ajob[a] \in Jobs /\ status[ajob[a]] \in RetryableStatus /\ child[ajob[a]] = 0
  BY DEF Resuming, Control, Shape
<1>2. ~Resumed(ajob[a])
  BY <1>1 DEF Resumed, WellTimed
<1> QED
  BY <1>1, <1>2 DEF IsLast, RetryableStatus

\* When a job is complete its file is needed no more.
LEMMA CompleteIsUnneeded ==
    ASSUME WellTimed, TypeOK, Control, OneLast, Resuming, NEW j \in Jobs, status[j] = "completed"
    PROVE  Unneeded
<1>1. IsLast(j)
  BY LastJob
<1>2. \A i \in Jobs : IsLast(i) => i = j
  BY <1>1 DEF OneLast
<1>3. \A i \in Jobs : status[i] \notin ActiveStatus
  BY <1>2, LastJob DEF ActiveStatus
<1>4. \A a \in Admins : apc[a] \notin {"resume", "enqueue"}
  BY <1>2, ResumesTheLast DEF Resuming, RetryableStatus
<1> QED
  BY <1>3, <1>4 DEF Unneeded

\* What of the chain a step keeps that stores nothing and makes no job, takes
\* the file only when nobody needs it, and sweeps only what is over.
LEMMA ChainKept ==
    ASSUME TypeOK, Control, OneLast, Resuming, SweepsDone, ImportedOnce, StagedInputKept,
           \A j \in Jobs : JobKept(j),
           UNCHANGED <<ckpt, child, copies, age, adminVars>>,
           staged' = staged \/ (age < 2 => Unneeded),
           \A w \in Workers : pc'[w] = "sweeping" => pc[w] = "sweeping" \/ (age < 2 => Over)
    PROVE  OneLast' /\ Resuming' /\ SweepsDone' /\ ImportedOnce' /\ StagedInputKept'
<1>0. UNCHANGED <<apc, ajob, asaw>>
  BY DEF adminVars
<1>1. \A j \in Jobs : /\ status'[j] = "absent" <=> status[j] = "absent"
                      /\ status[j] \in RetryableStatus => status'[j] = status[j]
                      /\ status'[j] \in ActiveStatus => status[j] \in ActiveStatus
  BY DEF JobKept, ActiveStatus, RetryableStatus
<1>2. \A j \in Jobs : Resumed(j)' <=> Resumed(j)
  BY <1>0 DEF Resumed
<1>3. \A j \in Jobs : IsLast(j)' <=> IsLast(j)
  BY <1>1, <1>2 DEF IsLast
<1>4. OneLast'
  BY <1>1, <1>3 DEF OneLast
<1>5. Resuming'
  <2>1. \A a \in Admins : apc[a] # "idle" => ajob[a] \in Jobs
    BY DEF Control, Shape
  <2> QED
    BY <1>0, <1>1, <2>1 DEF Resuming, Unneeded
<1>6. ASSUME Over PROVE Over'
  BY <1>1, <1>6 DEF Over, JobKept
<1>7. SweepsDone'
  BY <1>6 DEF SweepsDone, Over
<1>8. ImportedOnce'
  BY DEF ImportedOnce, StoredOnce, ResumeTakesOver
<1>9. StagedInputKept'
  BY <1>1 DEF StagedInputKept, Unneeded
<1> QED
  BY <1>4, <1>5, <1>7, <1>8, <1>9

\* A step of a worker, other than storing a chunk, keeps the chain.
LEMMA WorkChain ==
    ASSUME WellTimed, TypeOK, Control, ChainInv, NEW w \in Workers, Work(w) \/ Process(w),
           ~ChunkCommit(w)
    PROVE  ChainInv'
<1>0. HoldsIt' /\ ReadUnmarked' /\ UNCHANGED child /\ \A j \in Jobs : JobKept(j)
  BY WorkHolds, WorkMarks DEF ChainInv
<1>1. UNCHANGED <<ckpt, copies, age, adminVars>>
  BY DEF Work, Process, Recover, Claim, NothingToClaim, OpenRead, OpenCommit,
     Opened, Loop, After, CancelAtBoundary, ReleaseAtBoundary, EndCommit,
     CompleteRead, CompleteCommit, FailRead, FailCommit, MarkRunRead,
     MarkRunCommit, Leave, ApplySweep, Start, Signal, Stop, Crash, Fail,
     PlanSweep, jobVars, fileVars
<1>2. staged' = staged \/ Leave(w) \/ ApplySweep(w)
  BY DEF Work, Process, Recover, Claim, NothingToClaim, OpenRead, OpenCommit,
     Opened, Loop, After, CancelAtBoundary, ReleaseAtBoundary, EndCommit,
     CompleteRead, CompleteCommit, FailRead, FailCommit, MarkRunRead,
     MarkRunCommit, Start, Signal, Stop, Crash, Fail,
     PlanSweep, jobVars, fileVars
<1>3. ASSUME Leave(w) PROVE staged' = staged \/ Unneeded
  <2>1. wjob[w] \in Jobs /\ staged' = (staged /\ status[wjob[w]] # "completed")
    BY <1>3 DEF Leave, Control, Shape
  <2>2. CASE status[wjob[w]] = "completed"
    BY <2>1, <2>2, CompleteIsUnneeded DEF ChainInv
  <2>3. CASE status[wjob[w]] # "completed"
    BY <2>1, <2>3 DEF TypeOK
  <2> QED
    BY <2>2, <2>3
<1>4. ASSUME ApplySweep(w) PROVE age < 2 => Unneeded
  BY <1>4, OverIsUnneeded DEF ApplySweep, ChainInv, SweepsDone, Over
<1>5. ASSUME PlanSweep(w) PROVE age < 2 => Over
  BY <1>5 DEF PlanSweep, Needed, MayResume, Over
<1>6. \A v \in Workers : pc'[v] = "sweeping" => pc[v] = "sweeping" \/ PlanSweep(w)
  <2>1. DOMAIN pc = Workers
    BY DEF TypeOK
  <2> QED
    BY <2>1 DEF Work, Process, Recover, Claim, NothingToClaim, OpenRead, OpenCommit,
     Opened, Loop, After, CancelAtBoundary, ReleaseAtBoundary, EndCommit,
     CompleteRead, CompleteCommit, FailRead, FailCommit, MarkRunRead,
     MarkRunCommit, Leave, ApplySweep, Start, Signal, Stop, Crash, Fail,
     Goto, Forget, EndPc, ReleasePc
<1> QED
  BY <1>0, <1>1, <1>2, <1>3, <1>4, <1>5, <1>6, ChainKept DEF ChainInv

\* A chunk is stored by the last job, which has all that is stored: its lines
\* are new.
LEMMA ChunkChain ==
    ASSUME WellTimed, TypeOK, Control, Evidence, ChainInv, NEW w \in Workers, ChunkCommit(w)
    PROVE  ChainInv'
<1> DEFINE j == wjob[w]
<1>0. HoldsIt' /\ ReadUnmarked' /\ UNCHANGED child /\ \A i \in Jobs : JobKept(i)
  BY WorkHolds, WorkMarks DEF ChainInv, Work
<1>1. /\ j \in Jobs /\ pos[w] = ckpt[j] /\ IsLast(j)
  <2>1. pc[w] = "chunk" /\ j \in Jobs /\ pos[w] = ckpt[j]
    BY DEF ChunkCommit, Control, Shape, AtCheckpoint, Importing, Writing
  <2>2. status[j] = "running"
    BY <2>1 DEF ChainInv, HoldsIt, Holding, Importing
  <2> QED
    BY <2>1, <2>2, LastJob DEF ChainInv, ActiveStatus
<1>2. /\ UNCHANGED <<status, child, staged, age, apc, ajob, asaw>>
      /\ ckpt' = [ckpt EXCEPT ![j] = ChunkEnd(w)]
      /\ copies' = [l \in Lines |-> IF l \in NewLines(w) THEN copies[l] + 1 ELSE copies[l]]
      /\ pc' = [pc EXCEPT ![w] = "after"]
  BY <1>0 DEF ChunkCommit, fileVars, adminVars, Goto
<1>3. /\ DOMAIN ckpt = Jobs /\ DOMAIN pc = Workers
      /\ \A i \in Jobs : ckpt[i] \in Nat
      /\ ChunkEnd(w) \in Nat /\ ckpt[j] <= ChunkEnd(w)
      /\ \A l \in Lines : copies[l] \in Nat /\ l \in Nat
  <2>1. ChunkEnd(w) \in 0 .. Total /\ pos[w] <= ChunkEnd(w)
    BY ChunkEndType
  <2>2. /\ DOMAIN ckpt = Jobs /\ DOMAIN pc = Workers
        /\ \A i \in Jobs : ckpt[i] \in 0 .. Total
        /\ \A l \in Lines : copies[l] \in Nat
    BY DEF TypeOK
  <2>3. Total \in Nat /\ \A l \in Lines : l \in Nat
    BY ImportAssumption DEF Lines
  <2> QED
    BY <1>1, <2>1, <2>2, <2>3
<1>4. /\ ckpt'[j] = ChunkEnd(w)
      /\ \A i \in Jobs \ {j} : ckpt'[i] = ckpt[i]
  BY <1>1, <1>2, <1>3
<1>5. \A i \in Jobs : ckpt[i] <= ckpt[j]
  BY <1>1 DEF ChainInv, OneLast
<1>6. \A i \in Jobs : Resumed(i)' <=> Resumed(i)
  BY <1>2 DEF Resumed
<1>7. \A i \in Jobs : IsLast(i)' <=> IsLast(i)
  BY <1>2, <1>6 DEF IsLast
<1>8. \A i \in Jobs : IsLast(i) => i = j
  BY <1>1 DEF ChainInv, OneLast
<1>9. OneLast'
  <2>1. \A i, k \in Jobs : IsLast(k) => ckpt'[i] <= ckpt'[k]
    BY <1>3, <1>4, <1>5, <1>8
  <2> QED
    BY <1>2, <1>7, <2>1 DEF ChainInv, OneLast
<1>10. \A i \in Jobs : status[i] \in RetryableStatus => i # j
  BY <1>1, <1>0, LastJob DEF ChainInv, HoldsIt, ChunkCommit, Holding, Importing, RetryableStatus
<1>11. Resuming'
  <2>1. \A a \in Admins : apc[a] # "idle" => ajob[a] \in Jobs /\ ckpt'[ajob[a]] = ckpt[ajob[a]]
    BY <1>4, <1>10 DEF ChainInv, Resuming, Control, Shape
  <2>2. \A i \in Jobs, n \in Nat : n <= ckpt[i] => n <= ckpt'[i]
    BY <1>3, <1>4
  <2>3. \A a \in Admins : apc[a] = "mark" =>
           asaw[a].kid \in Jobs /\ ckpt[ajob[a]] <= ckpt[asaw[a].kid]
    BY DEF ChainInv, Resuming
  <2>4. \A a \in Admins : apc[a] = "mark" => ckpt'[ajob[a]] <= ckpt'[asaw[a].kid]
    BY <1>3, <2>1, <2>2, <2>3
  <2> QED
    BY <1>2, <2>1, <2>3, <2>4 DEF ChainInv, Resuming
<1>12. SweepsDone'
  BY <1>2, <1>3 DEF ChainInv, SweepsDone, Over
<1>13. StoredOnce'
  <2>1. \A l \in NewLines(w) : l \in Lines /\ ckpt[j] < l
    BY <1>1 DEF NewLines, ChunkLines
  <2>2. \A l \in NewLines(w) : copies[l] = 0
    <3> SUFFICES ASSUME NEW l \in NewLines(w), copies[l] # 0 PROVE FALSE
      OBVIOUS
    <3>1. l \in Stored
      BY <1>3, <2>1 DEF Stored
    <3>2. PICK i \in Jobs : l <= ckpt[i]
      BY <3>1 DEF Evidence, NoEvidencePastCheckpoint
    <3> QED
      BY <1>1, <1>3, <1>5, <2>1, <3>2
  <2>3. \A l \in Lines : copies[l] <= 1
    BY DEF ChainInv, ImportedOnce, StoredOnce
  <2> QED
    BY <1>2, <2>2, <2>3 DEF StoredOnce
<1>14. ResumeTakesOver'
  <2>1. \A i \in Jobs : child[i] # 0 => i # j /\ child[i] \in Jobs /\ ckpt[i] <= ckpt[child[i]]
    <3>1. \A i \in Jobs : child[i] # 0 => i # j
      BY <1>10 DEF ChainInv, OneLast
    <3>2. \A i \in Jobs : child[i] # 0 => child[i] \in Jobs
      BY RunNumber DEF TypeOK
    <3> QED
      BY <3>1, <3>2 DEF ChainInv, ImportedOnce, ResumeTakesOver
  <2>2. \A i \in Jobs : ckpt[i] <= ckpt'[i]
    BY <1>3, <1>4
  <2> QED
    BY <1>2, <1>3, <1>4, <2>1, <2>2 DEF ResumeTakesOver
<1>15. StagedInputKept'
  BY <1>2 DEF ChainInv, StagedInputKept
<1> QED
  BY <1>0, <1>9, <1>11, <1>12, <1>13, <1>14, <1>15 DEF ChainInv, ImportedOnce

\* Time makes nobody's lease run out who lives, and closes the resume window.
LEMMA TimeChain ==
    ASSUME WellTimed, TypeOK, Control, ChainInv,
           Age \/ \E j \in Jobs : LapseLease(j)
    PROVE  ChainInv'
<1>1. CASE Age
  <2>1. /\ UNCHANGED <<status, token, lease, ckpt, child, copies, staged, pc, wjob, wtok,
                       seen, apc, ajob, asaw>>
        /\ age' < 2 => age < 2
    BY <1>1 DEF Age, jobVars, workerVars, adminVars, TypeOK
  <2> QED
    BY <2>1 DEF ChainInv, HoldsIt, ReadUnmarked, OneLast, IsLast, Resumed, Resuming,
       SweepsDone, Over, ImportedOnce, StoredOnce, ResumeTakesOver, StagedInputKept
<1>2. ASSUME NEW j \in Jobs, LapseLease(j) PROVE ChainInv'
  <2>1. /\ UNCHANGED <<status, token, ckpt, child, copies, staged, age, adminVars, pc, wjob, wtok, seen>>
        /\ lease' = [lease EXCEPT ![j] = "expired"] /\ ~InHand(j)
    BY <1>2 DEF LapseLease, fileVars, workerVars, WellTimed
  <2>2. \A w \in Workers : pc[w] \in Holding => wjob[w] \in Jobs /\ wjob[w] # j
    BY <2>1 DEF InHand, ChainInv, HoldsIt, Holding, Control, Shape
  <2>3. HoldsIt'
    BY <2>1, <2>2 DEF ChainInv, HoldsIt, TypeOK
  <2>4. \A i \in Jobs : JobKept(i)
    BY <2>1 DEF JobKept, ActiveStatus
  <2> QED
    BY <2>1, <2>3, <2>4, ChainKept DEF ChainInv, ReadUnmarked
<1> QED
  BY <1>1, <1>2

\* A person resumes the last job only, once it has ended, and the child takes
\* over all that it has.
LEMMA AskChain ==
    ASSUME WellTimed, TypeOK, Control, ChainInv, NEW a \in Admins, Ask(a)
    PROVE  ChainInv'
<1>0. /\ \A b \in Admins : b = a
      /\ apc[a] \in {"idle", "resume", "enqueue", "mark"}
      /\ DOMAIN apc = Admins /\ DOMAIN ajob = Admins /\ DOMAIN asaw = Admins
      /\ apc[a] # "idle" => ajob[a] \in Jobs
  BY DEF WellTimed, ChainInv, Resuming, TypeOK, Control, Shape
<1>1. ASSUME UNCHANGED <<jobVars, copies, fileVars, workerVars>>,
             apc[a] # "mark", apc'[a] # "mark", Resuming'
      PROVE  ChainInv'
  <2>1. UNCHANGED <<status, token, lease, ckpt, child, staged, age, pc, wjob, wtok, seen>>
    BY <1>1 DEF jobVars, fileVars, workerVars
  <2>2. \A j \in Jobs : Resumed(j)' <=> Resumed(j)
    BY <1>0, <1>1, <2>1 DEF Resumed
  <2>3. \A j \in Jobs : IsLast(j)' <=> IsLast(j)
    BY <2>1, <2>2 DEF IsLast
  <2> QED
    BY <1>1, <2>1, <2>3 DEF ChainInv, HoldsIt, ReadUnmarked, OneLast, SweepsDone, Over,
       ImportedOnce, StoredOnce, ResumeTakesOver, StagedInputKept
<1>2. ASSUME NEW j \in Jobs, ResumeRead(a, j) PROVE ChainInv'
  <2>1. /\ apc'[a] = "resume" /\ ajob'[a] = j /\ apc[a] = "idle"
        /\ asaw'[a].ckpt = ckpt[j] /\ MayResume(j)
        /\ UNCHANGED <<jobVars, copies, fileVars, workerVars>>
    BY <1>0, <1>2 DEF ResumeRead, AdminRead, See
  <2>2. Resuming'
    BY <1>0, <2>1 DEF MayResume, Resuming, jobVars, fileVars
  <2> QED
    BY <1>1, <2>1, <2>2
<1>3. CASE ResumeCheck(a)
  <2>1. /\ apc'[a] = "enqueue" /\ apc[a] = "resume" /\ UNCHANGED <<ajob, asaw>>
        /\ UNCHANGED <<jobVars, copies, fileVars, workerVars>>
    BY <1>0, <1>3 DEF ResumeCheck
  <2>2. Resuming'
    BY <1>0, <2>1 DEF ChainInv, Resuming, jobVars, fileVars
  <2> QED
    BY <1>1, <2>1, <2>2
<1>4. CASE ResumeRefused(a)
  <2>1. /\ apc'[a] = "idle" /\ apc[a] = "resume"
        /\ UNCHANGED <<jobVars, copies, fileVars, workerVars>>
    BY <1>0, <1>4 DEF ResumeRefused, AdminEnd
  <2>2. Resuming'
    BY <1>0, <2>1 DEF Resuming
  <2> QED
    BY <1>1, <2>1, <2>2
<1>5. CASE ResumeEnqueue(a)
  <2> DEFINE p == ajob[a]
  <2>1. PICK k \in Jobs :
            /\ status[k] = "absent"
            /\ status' = [status EXCEPT ![k] = "queued"]
            /\ ckpt' = [ckpt EXCEPT ![k] = asaw[a].ckpt]
            /\ asaw' = [asaw EXCEPT ![a] =
                          [status |-> "absent", token |-> 0, lease |-> "none",
                           ckpt |-> 0, run |-> 0, kid |-> k]]
    BY <1>5 DEF ResumeEnqueue
  <2>2. /\ apc[a] = "enqueue" /\ apc' = [apc EXCEPT ![a] = "mark"]
        /\ UNCHANGED <<token, lease, child, copies, staged, age, pc, wjob, wtok, seen, ajob>>
    BY <1>5 DEF ResumeEnqueue, fileVars, workerVars
  <2>3. /\ p \in Jobs /\ IsLast(p) /\ status[p] \in RetryableStatus /\ child[p] = 0
        /\ asaw[a].ckpt = ckpt[p] /\ (age < 2 => staged)
    BY <2>2, ResumesTheLast DEF ChainInv, Resuming
  <2>4. /\ p # k /\ child[k] = 0 /\ ckpt[k] = 0
    BY <2>1, <2>3 DEF RetryableStatus, ChainInv, OneLast, Control, NotBegun
  <2>5. /\ status'[k] = "queued" /\ ckpt'[k] = ckpt[p] /\ asaw'[a].kid = k /\ apc'[a] = "mark"
        /\ \A i \in Jobs \ {k} : status'[i] = status[i] /\ ckpt'[i] = ckpt[i]
    BY <1>0, <2>1, <2>2, <2>3 DEF TypeOK
  <2>6. \A i \in Jobs : Resumed(i)' <=> child[i] # 0 \/ i = p
    BY <1>0, <2>2, <2>5 DEF Resumed
  <2>7. \A i \in Jobs : status[i] # "absent" => i = p \/ child[i] # 0
    BY <1>0, <2>2, <2>3 DEF ChainInv, OneLast, IsLast, Resumed
  <2>8. \A i \in Jobs : IsLast(i)' <=> i = k
    BY <2>1, <2>4, <2>5, <2>6, <2>7 DEF IsLast
  <2>9. \A i \in Jobs : ckpt[i] <= ckpt[p] /\ ckpt[i] \in Nat
    BY <2>3 DEF ChainInv, OneLast, TypeOK
  <2>10. OneLast'
    <3>1. \A i \in Jobs : ckpt'[i] <= ckpt'[k]
      BY <2>3, <2>4, <2>5, <2>9
    <3>2. \A i \in Jobs : /\ child[i] # 0 => i # k /\ status[i] \in RetryableStatus
                          /\ status'[i] = "absent" => status[i] = "absent"
      BY <2>4, <2>5 DEF ChainInv, OneLast
    <3>3. \A i \in Jobs : status[i] = "absent" => child[i] = 0
      BY DEF ChainInv, OneLast
    <3> QED
      BY <2>2, <2>5, <2>8, <3>1, <3>2, <3>3 DEF OneLast
  <2>11. Resuming'
    BY <1>0, <2>2, <2>3, <2>4, <2>5, <2>9 DEF Resuming
  <2>12. HoldsIt'
    <3>1. \A w \in Workers : pc[w] \in Holding => wjob[w] \in Jobs /\ wjob[w] # k
      BY <2>1 DEF ChainInv, HoldsIt, Holding, Control, Shape
    <3> QED
      BY <2>2, <2>5, <3>1 DEF ChainInv, HoldsIt
  <2>13. SweepsDone'
    BY <2>2, <2>3 DEF ChainInv, SweepsDone, Over
  <2>14. ImportedOnce'
    <3>1. \A i \in Jobs : child[i] # 0 => i # k /\ child[i] \in Jobs /\ ckpt[i] <= ckpt[child[i]]
      BY <2>4, RunNumber DEF ChainInv, ImportedOnce, ResumeTakesOver, TypeOK
    <3>2. \A i \in Jobs : ckpt[i] <= ckpt'[i] /\ ckpt'[i] \in Nat
      BY <2>3, <2>4, <2>5, <2>9
    <3>3. \A i \in Jobs : child[i] # 0 => ckpt'[i] <= ckpt'[child[i]]
      BY <2>5, <2>9, <3>1, <3>2
    <3> QED
      BY <2>2, <3>3 DEF ChainInv, ImportedOnce, StoredOnce, ResumeTakesOver
  <2>15. StagedInputKept'
    BY <2>2, <2>3 DEF StagedInputKept
  <2> QED
    BY <2>2, <2>10, <2>11, <2>12, <2>13, <2>14, <2>15 DEF ChainInv, ReadUnmarked
<1>6. CASE ResumeMark(a)
  <2> DEFINE p == ajob[a]
             k == asaw[a].kid
  <2>1. /\ apc[a] = "mark" /\ apc' = [apc EXCEPT ![a] = "idle"]
        /\ child' = [child EXCEPT ![p] = k]
        /\ UNCHANGED <<status, token, lease, ckpt, copies, staged, age, pc, wjob, wtok, seen>>
    BY <1>6 DEF ResumeMark, AdminEnd, fileVars, workerVars
  <2>2. /\ p \in Jobs /\ status[p] \in RetryableStatus /\ child[p] = 0
        /\ k \in Jobs /\ ckpt[p] <= ckpt[k]
    BY <1>0, <2>1 DEF ChainInv, Resuming
  <2>3. /\ child'[p] = k /\ k # 0
        /\ \A i \in Jobs \ {p} : child'[i] = child[i]
    <3>1. DOMAIN child = Jobs
      BY DEF TypeOK
    <3>2. 0 \notin Jobs
      BY ImportAssumption DEF Jobs
    <3> QED
      BY <2>1, <2>2, <3>1, <3>2
  <2>4. \A i \in Jobs : Resumed(i)' <=> Resumed(i)
    BY <1>0, <2>1, <2>3 DEF Resumed
  <2>5. \A i \in Jobs : IsLast(i)' <=> IsLast(i)
    BY <2>1, <2>4 DEF IsLast
  <2>6. OneLast'
    BY <2>1, <2>2, <2>3, <2>5 DEF ChainInv, OneLast, RetryableStatus
  <2>7. Resuming'
    BY <1>0, <2>1 DEF Resuming
  <2>8. SweepsDone'
    BY <2>1, <2>3 DEF ChainInv, SweepsDone, Over
  <2>9. ImportedOnce'
    BY <2>1, <2>2, <2>3 DEF ChainInv, ImportedOnce, StoredOnce, ResumeTakesOver
  <2> QED
    BY <2>1, <2>6, <2>7, <2>8, <2>9 DEF ChainInv, HoldsIt, ReadUnmarked, StagedInputKept
<1> QED
  BY <1>0, <1>2, <1>3, <1>4, <1>5, <1>6
     DEF Ask, CancelRead, WriteOffRead, CancelCommit, WriteOffCommit, Drop, WellTimed

\* Nothing is stored, one job waits and nobody is at it.
LEMMA InitChain == Init => ChainInv
<1> SUFFICES ASSUME Init PROVE ChainInv
  OBVIOUS
<1>1. \A j \in Jobs : IsLast(j) <=> j = 1
  BY DEF Init, IsLast, Resumed
<1>2. OneLast
  BY <1>1 DEF Init, OneLast
<1> QED
  BY <1>2 DEF Init, ChainInv, HoldsIt, Holding, Importing, ReadUnmarked, WritesDetails, Resuming, SweepsDone,
     ImportedOnce, StoredOnce, ResumeTakesOver, StagedInputKept

\* Well timed, the chain stays as it is meant to be: one job at a time is active,
\* has its file, holds all that was stored and stores what is new.
THEOREM ChainKeeps == ASSUME WellTimed PROVE Spec => []ChainInv
<1>1. TypeOK /\ IInv /\ ChainInv /\ [Next]_vars => ChainInv'
  <2> SUFFICES ASSUME TypeOK, Control, Evidence, ChainInv, [Next]_vars PROVE ChainInv'
    BY DEF IInv
  <2>1. CASE UNCHANGED vars
    BY <2>1 DEF vars, jobVars, fileVars, workerVars, adminVars, ChainInv, HoldsIt,
       ReadUnmarked, OneLast, IsLast, Resumed, Resuming, SweepsDone, Over, ImportedOnce, StoredOnce,
       ResumeTakesOver, StagedInputKept
  <2>2. ASSUME NEW w \in Workers, Work(w) \/ Process(w) PROVE ChainInv'
    BY <2>2, WorkChain, ChunkChain
  <2>3. ASSUME NEW a \in Admins, Ask(a) PROVE ChainInv'
    BY <2>3, AskChain
  <2>4. CASE Age \/ \E j \in Jobs : LapseLease(j)
    BY <2>4, TimeChain
  <2> QED
    BY <2>1, <2>2, <2>3, <2>4 DEF Next
<1> QED
  BY <1>1, InitChain, Invariance, PTL DEF Spec

\* Well timed, every line is stored once, by one job after the other.
THEOREM StoredByOne == ASSUME WellTimed PROVE Spec => []ImportedOnce
<1>1. ChainInv => ImportedOnce
  BY DEF ChainInv
<1> QED
  BY <1>1, ChainKeeps, PTL

\* Well timed, one job of the chain is active at a time.
THEOREM OneActive == ASSUME WellTimed PROVE Spec => []OneActiveImport
<1>1. TypeOK /\ IInv /\ ChainInv => OneActiveImport
  BY LastJob DEF IInv, ChainInv, OneLast, OneActiveImport
<1> QED
  BY <1>1, Invariance, ChainKeeps, PTL

\* Well timed, an active job has its file until its resume window closes.
THEOREM InputStays == ASSUME WellTimed PROVE Spec => []StagedInputKept
<1>1. ChainInv => StagedInputKept
  BY DEF ChainInv
<1> QED
  BY <1>1, ChainKeeps, PTL

-----------------------------------------------------------------------------
(***************************************************************************)
(* What the run of a chain counts.  The last job names the one run there   *)
(* is, so whoever resumes it takes the run over, and the worker that       *)
(* stores for it adds to the counter it has read.                          *)
(***************************************************************************)

Begun(r) == r \in Jobs => runStatus[r] # "none"

\* Every run that is named is there, and none is there that the last job does
\* not name.
RunsNamed ==
    /\ \A j, r \in Jobs : IsLast(j) /\ runStatus[r] # "none" => runOf[j] = r
    /\ \A j \in Jobs : Begun(runOf[j])
    /\ \A w \in Workers : Begun(seen[w].run)
    /\ \A w \in Workers : pc[w] \in Writing \union {"opening"} => seen[w].run = runOf[wjob[w]]
    /\ \A w \in Workers : pc[w] = "opening" /\ seen[w].run = 0 => seen[w].runStatus = "none"
    /\ \A a \in Admins : Begun(asaw[a].run)
    /\ \A a \in Admins : apc[a] \in {"resume", "enqueue"} => asaw[a].run = runOf[ajob[a]]

\* A worker that stores has read the counter of its run as it is.
RowsRead == \A w \in Workers : pc[w] \in Writing => seen[w].rows = runRows[seen[w].run]

\* Nothing is counted before the run is there, and nothing stored.
NoneBefore ==
    /\ \A r \in Jobs : runStatus[r] = "none" => runRows[r] = 0
    /\ (\A r \in Jobs : runStatus[r] = "none") => Stored = {}

CountInv == RunsNamed /\ RowsRead /\ NoneBefore /\ RunRowsAgree

\* Whatever is stored, a step that stores nothing, begins no run and makes no
\* job keeps the counts, provided what is read of runs is as they are.
LEMMA CountKept ==
    ASSUME TypeOK, Control, CountInv,
           UNCHANGED <<runOf, runRows, copies>>,
           \A j \in Jobs : IsLast(j)' => IsLast(j),
           \A r \in Jobs : runStatus'[r] = "none" <=> runStatus[r] = "none",
           \A w \in Workers : Begun(seen'[w].run),
           \A w \in Workers : pc'[w] \in Writing \union {"opening"} =>
               seen'[w].run = runOf[wjob'[w]],
           \A w \in Workers : pc'[w] = "opening" /\ seen'[w].run = 0 =>
               seen'[w].runStatus = "none",
           \A w \in Workers : pc'[w] \in Writing => seen'[w].rows = runRows[seen'[w].run],
           \A a \in Admins : Begun(asaw'[a].run),
           \A a \in Admins : apc'[a] \in {"resume", "enqueue"} => asaw'[a].run = runOf[ajob'[a]]
    PROVE  CountInv'
<1>1. \A r : Begun(r)' <=> Begun(r)
  BY DEF Begun
<1>2. RunsNamed'
  BY <1>1 DEF CountInv, RunsNamed
<1>3. RowsRead'
  BY DEF RowsRead
<1>4. Stored' = Stored
  BY DEF Stored
<1>5. NoneBefore' /\ RunRowsAgree'
  BY <1>4 DEF CountInv, NoneBefore, RunRowsAgree
<1> QED
  BY <1>2, <1>3, <1>5 DEF CountInv

\* A worker's step makes no job the last one.
LEMMA WorkLast ==
    ASSUME UNCHANGED <<child, adminVars>>, \A j \in Jobs : JobKept(j)
    PROVE  \A j \in Jobs : IsLast(j)' <=> IsLast(j)
<1>1. \A j \in Jobs : status'[j] = "absent" <=> status[j] = "absent"
  BY DEF JobKept, ActiveStatus
<1>2. \A j \in Jobs : Resumed(j)' <=> Resumed(j)
  BY DEF Resumed, adminVars
<1> QED
  BY <1>1, <1>2 DEF IsLast

\* Only opening begins a run, and none that began is undone.
LEMMA WorkBegins ==
    ASSUME TypeOK, RunsNamed, NEW w \in Workers, Work(w) \/ Process(w), ~OpenCommit(w)
    PROVE  \A r \in Jobs : runStatus'[r] = "none" <=> runStatus[r] = "none"
<1>1. ASSUME NEW s, s # "none", SetRun(w, seen[w].run, s)
      PROVE  \A r \in Jobs : runStatus'[r] = "none" <=> runStatus[r] = "none"
  <2>1. seen[w].run = 0 \/ seen[w].run \in Jobs
    BY RunNumber DEF TypeOK, Seen
  <2>2. seen[w].run \in Jobs => runStatus[seen[w].run] # "none"
    BY DEF RunsNamed, Begun
  <2>3. DOMAIN runStatus = Jobs
    BY DEF TypeOK
  <2> QED
    BY <1>1, <2>1, <2>2, <2>3 DEF SetRun, Flushed
<1>2. CASE Recover(w)
  <2>1. \A r \in Jobs : runStatus'[r] \in RunEnds(r)
    BY <1>2 DEF Recover
  <2>2. \A r \in Jobs : /\ runStatus[r] = "none" => RunEnds(r) = {"none"}
                        /\ runStatus[r] # "none" => "none" \notin RunEnds(r)
    BY DEF RunEnds, RecoverOutcome
  <2> QED
    BY <2>1, <2>2
<1>3. CASE CancelAtBoundary(w) \/ EndCommit(w) \/ MarkRunCommit(w)
  BY <1>1, <1>3 DEF CancelAtBoundary, EndCommit, MarkRunCommit
<1> QED
  BY <1>2, <1>3 DEF Work, Process, Claim, NothingToClaim, OpenRead,
     Opened, Loop, ChunkCommit, After, ReleaseAtBoundary,
     CompleteRead, CompleteCommit, FailRead, FailCommit, MarkRunRead,
     Leave, ApplySweep, Start, Signal, Stop, Crash, Fail,
     PlanSweep, runVars

\* What a worker knows of a run it has read with its job, or keeps.
LEMMA WorkReads ==
    ASSUME TypeOK, Control, NEW w \in Workers, Work(w) \/ Process(w),
           ~OpenCommit(w), ~ChunkCommit(w)
    PROVE  /\ \A v \in Workers \ {w} : seen'[v] = seen[v] /\ pc'[v] = pc[v] /\ wjob'[v] = wjob[v]
           /\ \/ seen'[w].run = 0 /\ pc'[w] \notin Writing \union {"opening"}
              \/ /\ wjob[w] \in Jobs /\ wjob'[w] = wjob[w] /\ seen'[w] = Read(wjob[w])
                 /\ pc'[w] \notin Writing
              \/ /\ seen'[w].run = seen[w].run /\ seen'[w].rows = seen[w].rows
                 /\ pc'[w] # "opening"
                 /\ pc'[w] \in Writing => pc[w] \in Writing /\ wjob'[w] = wjob[w]
              \/ UNCHANGED <<seen, pc, wjob>>
<1>0. DOMAIN pc = Workers /\ DOMAIN wjob = Workers /\ DOMAIN seen = Workers
  BY DEF TypeOK
<1>1. CASE Leave(w) \/ Crash(w)
  BY <1>0, <1>1 DEF Leave, Crash, Forget, Goto, NoSeen, Writing
<1>2. CASE OpenRead(w) \/ CompleteRead(w) \/ FailRead(w) \/ MarkRunRead(w)
  BY <1>0, <1>2 DEF OpenRead, CompleteRead, FailRead, MarkRunRead, Goto, Writing,
     Control, Shape, Importing
<1>3. CASE Loop(w)
  BY <1>0, <1>3 DEF Loop, Goto, Writing
<1>4. CASE Claim(w)
  BY <1>0, <1>4 DEF Claim, Goto, Writing
<1>5. CASE Signal(w)
  BY <1>5 DEF Signal
<1>6. CASE \/ Recover(w) \/ NothingToClaim(w) \/ Opened(w) \/ After(w) \/ CancelAtBoundary(w)
           \/ ReleaseAtBoundary(w) \/ EndCommit(w) \/ CompleteCommit(w) \/ FailCommit(w)
           \/ MarkRunCommit(w) \/ ApplySweep(w) \/ Start(w) \/ Stop(w) \/ Fail(w)
           \/ PlanSweep(w)
  <2>1. UNCHANGED <<seen, wjob>>
    BY <1>6 DEF Recover, NothingToClaim, Opened, After, CancelAtBoundary, ReleaseAtBoundary,
       EndCommit, CompleteCommit, FailCommit, MarkRunCommit, ApplySweep, Start, Stop, Fail,
       PlanSweep
  <2>2. \A v \in Workers \ {w} : pc'[v] = pc[v]
    BY <1>0, <1>6 DEF Recover, NothingToClaim, Opened, After, CancelAtBoundary,
       ReleaseAtBoundary, EndCommit, CompleteCommit, FailCommit, MarkRunCommit, ApplySweep,
       Start, Stop, Fail, PlanSweep, Goto
  <2>3. pc'[w] # "opening" /\ (pc'[w] \in Writing => pc[w] \in Writing)
    <3>1. CASE Opened(w) \/ After(w)
      BY <1>0, <3>1 DEF Opened, After, Goto, EndPc, ReleasePc, Writing
    <3>2. CASE ~Opened(w) /\ ~After(w)
      BY <1>0, <1>6, <3>2 DEF Recover, NothingToClaim, CancelAtBoundary, ReleaseAtBoundary,
         EndCommit, CompleteCommit, FailCommit, MarkRunCommit, ApplySweep, Start, Stop, Fail,
         PlanSweep, Goto, Writing
    <3> QED
      BY <3>1, <3>2
  <2> QED
    BY <2>1, <2>2, <2>3
<1> QED
  BY <1>1, <1>2, <1>3, <1>4, <1>5, <1>6 DEF Work, Process

\* A step of a worker that neither opens nor stores keeps the counts.
LEMMA WorkCounts ==
    ASSUME TypeOK, Control, ChainInv, CountInv, NEW w \in Workers, Work(w) \/ Process(w),
           ~OpenCommit(w), ~ChunkCommit(w)
    PROVE  CountInv'
<1>0. UNCHANGED child
  BY WorkMarks DEF ChainInv
<1>1. UNCHANGED <<runOf, runRows, copies, adminVars>>
  BY DEF Work, Process, Recover, Claim, NothingToClaim, OpenRead,
     Opened, Loop, After, CancelAtBoundary, ReleaseAtBoundary, EndCommit,
     CompleteRead, CompleteCommit, FailRead, FailCommit, MarkRunRead,
     MarkRunCommit, Leave, ApplySweep, Start, Signal, Stop, Crash, Fail,
     PlanSweep, jobVars, runVars
<1>2. \A j \in Jobs : IsLast(j)' <=> IsLast(j)
  BY <1>0, <1>1, WorkHolds, WorkLast DEF ChainInv
<1>3. \A r \in Jobs : runStatus'[r] = "none" <=> runStatus[r] = "none"
  BY WorkBegins DEF CountInv
<1>4. /\ \A v \in Workers : Begun(seen[v].run)
      /\ \A v \in Workers : pc[v] \in Writing \union {"opening"} => seen[v].run = runOf[wjob[v]]
      /\ \A v \in Workers : pc[v] \in Writing => seen[v].rows = runRows[seen[v].run]
      /\ \A v \in Workers : pc[v] = "opening" /\ seen[v].run = 0 => seen[v].runStatus = "none"
      /\ \A j \in Jobs : Begun(runOf[j])
      /\ \A a \in Admins : Begun(asaw[a].run)
      /\ \A a \in Admins : apc[a] \in {"resume", "enqueue"} => asaw[a].run = runOf[ajob[a]]
  BY DEF CountInv, RunsNamed, RowsRead
<1>5. Begun(0)
  BY ImportAssumption DEF Begun, Jobs
<1>6. \A j \in Jobs : /\ Read(j).run = runOf[j]
                      /\ runOf[j] = 0 => Read(j).runStatus = "none"
  BY DEF Read, RunStatusOf
<1>7. \A v \in Workers : Begun(seen'[v].run)
  BY <1>4, <1>5, <1>6, WorkReads
<1>8. \A v \in Workers : pc'[v] \in Writing \union {"opening"} => seen'[v].run = runOf[wjob'[v]]
  BY <1>4, <1>6, WorkReads
<1>9. \A v \in Workers : pc'[v] \in Writing => seen'[v].rows = runRows[seen'[v].run]
  BY <1>4, WorkReads
<1>10. \A v \in Workers : pc'[v] = "opening" /\ seen'[v].run = 0 => seen'[v].runStatus = "none"
  BY <1>4, <1>6, WorkReads DEF Writing
<1>11. UNCHANGED <<apc, ajob, asaw>>
  BY <1>1 DEF adminVars
<1> QED
  BY <1>1, <1>2, <1>3, <1>4, <1>7, <1>8, <1>9, <1>10, <1>11, CountKept

\* A worker opens the run that the last job names, or the first one there is.
LEMMA OpenCounts ==
    ASSUME TypeOK, Control, ChainInv, CountInv, NEW w \in Workers, OpenCommit(w)
    PROVE  CountInv'
<1> DEFINE j == wjob[w]
           r == IF seen[w].run = 0 THEN j ELSE seen[w].run
<1>1. /\ j \in Jobs /\ pc[w] = "opening" /\ seen[w].run = runOf[j]
      /\ seen[w].run = 0 \/ seen[w].run \in Jobs
  BY RunNumber DEF OpenCommit, Control, Shape, Importing, CountInv, RunsNamed, TypeOK, Seen
<1>2. r \in Jobs
  BY <1>1
<1>3. IsLast(j)
  BY <1>1, LastJob DEF ChainInv, HoldsIt, Holding, Importing, ActiveStatus
<1>4. \A i \in Jobs : runStatus[i] # "none" => i = r /\ seen[w].run = r
  <2>1. \A i \in Jobs : runStatus[i] # "none" => i = seen[w].run
    BY <1>1, <1>3 DEF CountInv, RunsNamed
  <2>2. 0 \notin Jobs
    BY ImportAssumption DEF Jobs
  <2> QED
    BY <2>1, <2>2
<1>5. /\ runOf' = [runOf EXCEPT ![j] = r]
      /\ runStatus' = [runStatus EXCEPT ![r] = Flushed(@, seen[w].runStatus, "running")]
      /\ seen' = [seen EXCEPT ![w] =
                    [status |-> status[j], token |-> token[j], run |-> r,
                     runStatus |-> runStatus'[r], rows |-> runRows[r], kid |-> child'[j]]]
      /\ pc' = [pc EXCEPT ![w] = "opened"]
      /\ UNCHANGED <<status, child, runRows, copies, apc, ajob, asaw, wjob>>
  <2>1. Flushed(runOf[j], seen[w].run, r) = r
    BY <1>1 DEF Flushed
  <2> QED
    BY <2>1, WorkMarks DEF OpenCommit, Goto, adminVars, ChainInv, Work
<1>6. DOMAIN runOf = Jobs /\ DOMAIN runStatus = Jobs /\ DOMAIN seen = Workers /\ DOMAIN pc = Workers
  BY DEF TypeOK
<1>7. /\ runOf'[j] = r /\ \A i \in Jobs \ {j} : runOf'[i] = runOf[i]
      /\ seen'[w].run = r /\ seen'[w].rows = runRows[r] /\ pc'[w] = "opened"
      /\ \A v \in Workers \ {w} : seen'[v] = seen[v] /\ pc'[v] = pc[v]
      /\ \A i \in Jobs \ {r} : runStatus'[i] = runStatus[i]
  BY <1>1, <1>2, <1>5, <1>6
<1>8. runStatus'[r] # "none"
  <2>1. runStatus'[r] = Flushed(runStatus[r], seen[w].runStatus, "running")
    BY <1>2, <1>5, <1>6
  <2>2. CASE seen[w].run = 0
    BY <1>1, <2>1, <2>2 DEF CountInv, RunsNamed, Flushed
  <2>3. CASE seen[w].run \in Jobs
    <3>1. r = seen[w].run
      BY <2>3, ImportAssumption DEF Jobs
    <3>2. runStatus[r] # "none"
      BY <1>2, <3>1 DEF CountInv, RunsNamed, Begun
    <3> QED
      BY <2>1, <3>2 DEF Flushed
  <2> QED
    BY <1>1, <2>2, <2>3
<1>9. \A i : Begun(i) => Begun(i)'
  BY <1>7, <1>8 DEF Begun
<1>10. \A i \in Jobs : runStatus'[i] # "none" <=> i = r
  BY <1>2, <1>4, <1>7, <1>8
<1>11. \A i \in Jobs : IsLast(i)' => i = j
  <2>1. \A i \in Jobs : IsLast(i)' <=> IsLast(i)
    BY <1>5 DEF IsLast, Resumed
  <2> QED
    BY <1>1, <1>3, <2>1 DEF ChainInv, OneLast
<1>12. \A v \in Workers \ {w} : pc[v] \in Writing \union {"opening"} =>
          wjob[v] \in Jobs /\ wjob[v] # j
  BY <1>1 DEF Control, Shape, OneWorkerPerJob, Writing, Importing
<1>13. \A a \in Admins : apc[a] \in {"resume", "enqueue"} => ajob[a] \in Jobs /\ ajob[a] # j
  BY <1>1 DEF ChainInv, Resuming, Control, Shape, HoldsIt, Holding, Importing, RetryableStatus
<1>14. RunsNamed'
  <2>1. \A i, k \in Jobs : IsLast(i)' /\ runStatus'[k] # "none" => runOf'[i] = k
    BY <1>7, <1>10, <1>11
  <2>2. \A i \in Jobs : Begun(runOf[i])'
    BY <1>7, <1>8, <1>9 DEF CountInv, RunsNamed, Begun
  <2>3. \A v \in Workers : Begun(seen[v].run)'
    BY <1>7, <1>8, <1>9 DEF CountInv, RunsNamed, Begun
  <2>4. \A v \in Workers : pc'[v] \in Writing \union {"opening"} => seen'[v].run = runOf'[wjob[v]]
    BY <1>7, <1>12 DEF CountInv, RunsNamed
  <2>5. \A v \in Workers : pc'[v] = "opening" /\ seen'[v].run = 0 => seen'[v].runStatus = "none"
    BY <1>7 DEF CountInv, RunsNamed
  <2>6. \A a \in Admins : Begun(asaw[a].run)'
    BY <1>5, <1>9 DEF CountInv, RunsNamed, Begun
  <2>7. \A a \in Admins : apc[a] \in {"resume", "enqueue"} => asaw[a].run = runOf'[ajob[a]]
    BY <1>7, <1>13 DEF CountInv, RunsNamed
  <2> QED
    BY <1>5, <2>1, <2>2, <2>3, <2>4, <2>5, <2>6, <2>7 DEF RunsNamed
<1>15. RowsRead'
  BY <1>5, <1>7 DEF CountInv, RowsRead, Writing
<1>16. Stored' = Stored
  BY <1>5 DEF Stored
<1>17. NoneBefore'
  BY <1>2, <1>5, <1>7, <1>8, <1>16 DEF CountInv, NoneBefore
<1>18. RunRowsAgree'
  <2>1. CASE seen[w].run = r
    <3>1. runStatus[r] # "none"
      BY <1>2, <2>1 DEF CountInv, RunsNamed, Begun
    <3> QED
      BY <1>2, <1>5, <1>10, <1>16, <3>1 DEF CountInv, RunRowsAgree
  <2>2. CASE seen[w].run # r
    <3>1. \A i \in Jobs : runStatus[i] = "none"
      BY <1>4, <2>2
    <3>2. runRows[r] = 0 /\ Stored = {}
      BY <1>2, <3>1 DEF CountInv, NoneBefore
    <3> QED
      BY <1>2, <1>5, <1>10, <1>16, <3>2, FS_EmptySet DEF RunRowsAgree
  <2> QED
    BY <2>1, <2>2
<1> QED
  BY <1>14, <1>15, <1>17, <1>18 DEF CountInv

\* A chunk adds its lines to the counter that was read, and none of them was
\* stored before.
LEMMA ChunkCounts ==
    ASSUME TypeOK, Control, Evidence, ChainInv, CountInv, NEW w \in Workers, ChunkCommit(w)
    PROVE  CountInv'
<1> DEFINE j == wjob[w]
           r == seen[w].run
<1>1. /\ pc[w] = "chunk" /\ j \in Jobs /\ r \in Jobs /\ pos[w] = ckpt[j]
      /\ r = runOf[j] /\ runStatus[r] # "none" /\ seen[w].rows = runRows[r]
  BY DEF ChunkCommit, Control, Shape, AtCheckpoint, Importing, Writing, CountInv, RunsNamed,
     RowsRead, Begun
<1>2. IsLast(j)
  BY <1>1, LastJob DEF ChainInv, HoldsIt, Holding, Importing, ActiveStatus
<1>3. \A i \in Jobs : runStatus[i] # "none" => i = r
  BY <1>1, <1>2 DEF CountInv, RunsNamed
<1>4. /\ copies' = [l \in Lines |-> IF l \in NewLines(w) THEN copies[l] + 1 ELSE copies[l]]
      /\ UNCHANGED <<status, child, runOf, runStatus, apc, ajob, asaw, wjob>>
      /\ pc' = [pc EXCEPT ![w] = "after"]
      /\ seen' = [seen EXCEPT ![w] =
                    [status |-> status[j], token |-> token[j], run |-> r,
                     runStatus |-> runStatus[r], rows |-> runRows'[r], kid |-> child'[j]]]
      /\ runRows' = [runRows EXCEPT ![r] = Flushed(@, seen[w].rows, RowsWithChunk(w))]
  BY WorkMarks DEF ChunkCommit, Goto, adminVars, ChainInv, Work
<1>5. /\ runRows'[r] = runRows[r] + Cardinality(NewLines(w))
      /\ \A i \in Jobs \ {r} : runRows'[i] = runRows[i]
  <2>1. DOMAIN runRows = Jobs
    BY DEF TypeOK
  <2>2. Flushed(runRows[r], seen[w].rows, RowsWithChunk(w)) = RowsWithChunk(w)
    BY <1>1 DEF Flushed
  <2> QED
    BY <1>1, <1>4, <2>1, <2>2 DEF RowsWithChunk
<1>6. NewLines(w) \intersect Stored = {}
  <2> SUFFICES ASSUME NEW l \in NewLines(w), l \in Stored PROVE FALSE
    OBVIOUS
  <2>1. ckpt[j] < l /\ l \in Nat
    BY <1>1, ImportAssumption DEF NewLines, ChunkLines, Lines
  <2>2. PICK i \in Jobs : l <= ckpt[i]
    BY DEF Evidence, NoEvidencePastCheckpoint
  <2>3. ckpt[i] <= ckpt[j] /\ ckpt[i] \in Nat /\ ckpt[j] \in Nat
    BY <1>1, <1>2 DEF ChainInv, OneLast, TypeOK
  <2> QED
    BY <2>1, <2>2, <2>3
<1>7. Stored' = Stored \union NewLines(w)
  <2>1. NewLines(w) \subseteq Lines /\ \A l \in Lines : copies[l] \in Nat
    BY DEF NewLines, ChunkLines, TypeOK
  <2> QED
    BY <1>4, <2>1 DEF Stored
<1>8. Cardinality(Stored') = Cardinality(Stored) + Cardinality(NewLines(w))
  <2>1. IsFiniteSet(Stored) /\ IsFiniteSet(NewLines(w))
    <3>1. IsFiniteSet(Lines)
      BY FS_Interval, ImportAssumption DEF Lines
    <3>2. Stored \subseteq Lines /\ NewLines(w) \subseteq Lines
      BY DEF Stored, NewLines, ChunkLines
    <3> QED
      BY <3>1, <3>2, FS_Subset
  <2>2. Cardinality(Stored \intersect NewLines(w)) = 0
    BY <1>6, FS_EmptySet
  <2>3. Cardinality(Stored) \in Nat /\ Cardinality(NewLines(w)) \in Nat
    BY <2>1, FS_CardinalityType
  <2>4. Cardinality(Stored \union NewLines(w)) =
           Cardinality(Stored) + Cardinality(NewLines(w)) - Cardinality(Stored \intersect NewLines(w))
    BY <2>1, FS_Union
  <2> QED
    BY <1>7, <2>2, <2>3, <2>4
<1>9. RunRowsAgree'
  BY <1>1, <1>3, <1>4, <1>5, <1>8 DEF CountInv, RunRowsAgree
<1>10. NoneBefore'
  BY <1>1, <1>4, <1>5 DEF CountInv, NoneBefore
<1>11. /\ seen'[w].run = r /\ seen'[w].rows = runRows'[r] /\ pc'[w] = "after"
       /\ \A v \in Workers \ {w} : seen'[v] = seen[v] /\ pc'[v] = pc[v]
  <2>1. DOMAIN seen = Workers /\ DOMAIN pc = Workers
    BY DEF TypeOK
  <2> QED
    BY <1>4, <2>1
<1>12. RowsRead'
  <2>1. \A v \in Workers \ {w} : pc[v] \in Writing => wjob[v] \in Jobs /\ wjob[v] # j
    BY <1>1 DEF Control, Shape, OneWorkerPerJob, Writing, Importing
  <2>2. \A v \in Workers : pc[v] \in Writing => IsLast(wjob[v])
    BY LastJob DEF ChainInv, HoldsIt, Holding, Importing, Writing, ActiveStatus, Control, Shape
  <2>3. \A v \in Workers \ {w} : pc[v] \notin Writing
    BY <1>1, <1>2, <2>1, <2>2 DEF ChainInv, OneLast
  <2> QED
    BY <1>11, <2>3 DEF RowsRead
<1>13. RunsNamed'
  <2>1. \A i : Begun(i)' <=> Begun(i)
    BY <1>4 DEF Begun
  <2>2. \A i \in Jobs : IsLast(i)' <=> IsLast(i)
    BY <1>4 DEF IsLast, Resumed
  <2>3. /\ \A v \in Workers : Begun(seen'[v].run)
        /\ \A v \in Workers : pc'[v] \in Writing \union {"opening"} => seen'[v].run = runOf[wjob[v]]
        /\ \A v \in Workers : pc'[v] = "opening" /\ seen'[v].run = 0 => seen'[v].runStatus = "none"
    BY <1>1, <1>11 DEF CountInv, RunsNamed, Begun
  <2> QED
    BY <1>4, <2>1, <2>2, <2>3 DEF CountInv, RunsNamed
<1> QED
  BY <1>9, <1>10, <1>12, <1>13 DEF CountInv

\* A person's request hands on the run of the job that it resumes.
LEMMA AskCounts ==
    ASSUME WellTimed, TypeOK, Control, ChainInv, CountInv, NEW a \in Admins, Ask(a)
    PROVE  CountInv'
<1>0. /\ \A b \in Admins : b = a
      /\ DOMAIN apc = Admins /\ DOMAIN ajob = Admins /\ DOMAIN asaw = Admins
      /\ Begun(0)
  BY ImportAssumption DEF WellTimed, TypeOK, Begun, Jobs
<1>1. ASSUME UNCHANGED <<jobVars, runVars, copies, workerVars>>,
             apc[a] # "mark" \/ child'[ajob[a]] # 0,
             Begun(asaw'[a].run),
             apc'[a] \in {"resume", "enqueue"} => asaw'[a].run = runOf[ajob'[a]]
      PROVE  CountInv'
  <2>1. UNCHANGED <<status, child, runOf, runRows, runStatus, copies, pc, wjob, seen>>
    BY <1>1 DEF jobVars, runVars, workerVars
  <2>2. \A j \in Jobs : IsLast(j)' => IsLast(j)
    BY <1>0, <1>1, <2>1 DEF IsLast, Resumed
  <2>3. /\ \A w \in Workers : Begun(seen[w].run)
        /\ \A w \in Workers : pc[w] \in Writing \union {"opening"} => seen[w].run = runOf[wjob[w]]
        /\ \A w \in Workers : pc[w] = "opening" /\ seen[w].run = 0 => seen[w].runStatus = "none"
        /\ \A w \in Workers : pc[w] \in Writing => seen[w].rows = runRows[seen[w].run]
    BY DEF CountInv, RunsNamed, RowsRead
  <2>4. /\ \A b \in Admins : Begun(asaw'[b].run)
        /\ \A b \in Admins : apc'[b] \in {"resume", "enqueue"} => asaw'[b].run = runOf[ajob'[b]]
    BY <1>0, <1>1
  <2> QED
    BY <2>1, <2>2, <2>3, <2>4, CountKept
<1>2. ASSUME NEW j \in Jobs, ResumeRead(a, j) PROVE CountInv'
  <2>1. /\ apc[a] = "idle" /\ UNCHANGED <<jobVars, runVars, copies, workerVars>>
        /\ asaw'[a].run = runOf[j] /\ ajob'[a] = j
    BY <1>0, <1>2 DEF ResumeRead, AdminRead, See
  <2>2. Begun(runOf[j])
    BY DEF CountInv, RunsNamed
  <2> QED
    BY <1>1, <2>1, <2>2
<1>3. CASE ResumeCheck(a)
  <2>1. /\ apc[a] = "resume" /\ UNCHANGED <<jobVars, runVars, copies, workerVars, asaw, ajob>>
    BY <1>3 DEF ResumeCheck
  <2>2. Begun(asaw[a].run) /\ asaw[a].run = runOf[ajob[a]]
    BY <2>1 DEF CountInv, RunsNamed
  <2> QED
    BY <1>1, <2>1, <2>2
<1>4. CASE ResumeRefused(a)
  <2>1. /\ apc[a] = "resume" /\ UNCHANGED <<jobVars, runVars, copies, workerVars>>
        /\ apc'[a] = "idle" /\ asaw'[a].run = 0
    BY <1>0, <1>4 DEF ResumeRefused, AdminEnd, NoSaw
  <2> QED
    BY <1>0, <1>1, <2>1
<1>5. CASE ResumeEnqueue(a)
  <2> DEFINE p == ajob[a]
  <2>1. PICK k \in Jobs :
            /\ status[k] = "absent"
            /\ status' = [status EXCEPT ![k] = "queued"]
            /\ runOf' = [runOf EXCEPT ![k] = asaw[a].run]
            /\ asaw' = [asaw EXCEPT ![a] =
                          [status |-> "absent", token |-> 0, lease |-> "none",
                           ckpt |-> 0, run |-> 0, kid |-> k]]
    BY <1>5 DEF ResumeEnqueue
  <2>2. /\ apc[a] = "enqueue" /\ apc' = [apc EXCEPT ![a] = "mark"]
        /\ UNCHANGED <<child, runStatus, runRows, copies, pc, wjob, seen, ajob>>
    BY <1>5 DEF ResumeEnqueue, runVars, workerVars
  <2>3. p \in Jobs /\ IsLast(p)
    BY <2>2, ResumesTheLast DEF ChainInv
  <2>4. asaw[a].run = runOf[p] /\ Begun(runOf[p])
    BY <2>2, <2>3 DEF CountInv, RunsNamed
  <2>5. /\ runOf'[k] = runOf[p] /\ \A i \in Jobs \ {k} : runOf'[i] = runOf[i]
        /\ asaw'[a].run = 0 /\ apc'[a] = "mark"
    BY <1>0, <2>1, <2>2, <2>4 DEF TypeOK
  <2>6. \A i \in Jobs : IsLast(i)' => i = k
    <3>1. \A i \in Jobs \ {k} : status'[i] = status[i]
      BY <2>1 DEF TypeOK
    <3>2. \A i \in Jobs : IsLast(i)' => i # p /\ child[i] = 0
      BY <1>0, <2>2, <2>5 DEF IsLast, Resumed
    <3>3. \A i \in Jobs \ {k} : IsLast(i)' => IsLast(i)
      BY <1>0, <2>2, <3>1, <3>2 DEF IsLast, Resumed
    <3> QED
      BY <2>3, <3>2, <3>3 DEF ChainInv, OneLast
  <2>7. \A i : Begun(i)' <=> Begun(i)
    BY <2>2 DEF Begun
  <2>8. \A w \in Workers : pc[w] \in Writing \union {"opening"} => wjob[w] \in Jobs /\ wjob[w] # k
    BY <2>1 DEF Control, Shape, OutOfQueue, Writing, Importing
  <2>9. RunsNamed'
    <3>1. \A i, r \in Jobs : IsLast(i)' /\ runStatus[r] # "none" => runOf'[i] = r
      BY <2>3, <2>5, <2>6 DEF CountInv, RunsNamed
    <3>2. \A i \in Jobs : Begun(runOf'[i])
      BY <2>4, <2>5 DEF CountInv, RunsNamed
    <3>3. /\ \A w \in Workers : Begun(seen[w].run)
          /\ \A w \in Workers : pc[w] \in Writing \union {"opening"} => seen[w].run = runOf'[wjob[w]]
          /\ \A w \in Workers : pc[w] = "opening" /\ seen[w].run = 0 => seen[w].runStatus = "none"
      BY <2>5, <2>8 DEF CountInv, RunsNamed
    <3>4. /\ \A b \in Admins : Begun(asaw'[b].run)
          /\ \A b \in Admins : apc'[b] \notin {"resume", "enqueue"}
      BY <1>0, <2>5
    <3> QED
      BY <2>2, <2>7, <3>1, <3>2, <3>3, <3>4 DEF RunsNamed
  <2>10. RowsRead' /\ NoneBefore' /\ RunRowsAgree'
    <3>1. Stored' = Stored
      BY <2>2 DEF Stored
    <3> QED
      BY <2>2, <3>1 DEF CountInv, RowsRead, NoneBefore, RunRowsAgree
  <2> QED
    BY <2>9, <2>10 DEF CountInv
<1>6. CASE ResumeMark(a)
  <2>1. /\ apc[a] = "mark" /\ UNCHANGED <<status, runOf, runRows, runStatus, copies, pc, wjob, seen>>
        /\ child' = [child EXCEPT ![ajob[a]] = asaw[a].kid]
        /\ apc'[a] = "idle" /\ asaw'[a].run = 0
    BY <1>0, <1>6 DEF ResumeMark, AdminEnd, NoSaw, runVars, workerVars
  <2>2. ajob[a] \in Jobs /\ asaw[a].kid \in Jobs /\ 0 \notin Jobs
    BY <2>1, ImportAssumption DEF Control, Shape, ChainInv, Resuming, Jobs
  <2>3. child'[ajob[a]] # 0 /\ \A i \in Jobs \ {ajob[a]} : child'[i] = child[i]
    BY <2>1, <2>2 DEF TypeOK
  <2>4. \A j \in Jobs : IsLast(j)' => IsLast(j)
    BY <1>0, <2>1, <2>3 DEF IsLast, Resumed
  <2>5. /\ \A w \in Workers : Begun(seen[w].run)
        /\ \A w \in Workers : pc[w] \in Writing \union {"opening"} => seen[w].run = runOf[wjob[w]]
        /\ \A w \in Workers : pc[w] = "opening" /\ seen[w].run = 0 => seen[w].runStatus = "none"
        /\ \A w \in Workers : pc[w] \in Writing => seen[w].rows = runRows[seen[w].run]
    BY DEF CountInv, RunsNamed, RowsRead
  <2>6. /\ \A b \in Admins : Begun(asaw'[b].run)
        /\ \A b \in Admins : apc'[b] \notin {"resume", "enqueue"}
    BY <1>0, <2>1
  <2> QED
    BY <2>1, <2>4, <2>5, <2>6, CountKept
<1> QED
  BY <1>2, <1>3, <1>4, <1>5, <1>6
     DEF Ask, CancelRead, WriteOffRead, CancelCommit, WriteOffCommit, Drop, WellTimed,
         ChainInv, Resuming

\* Time changes no run, and what stays as it is counts as it did.
LEMMA TimeCounts ==
    ASSUME TypeOK, CountInv, UNCHANGED vars \/ Age \/ \E j \in Jobs : LapseLease(j)
    PROVE  CountInv'
<1>1. UNCHANGED <<status, child, runOf, runRows, runStatus, copies, pc, wjob, seen, apc, ajob, asaw>>
  BY DEF vars, jobVars, runVars, workerVars, adminVars, Age, LapseLease
<1>2. /\ \A j \in Jobs : IsLast(j)' <=> IsLast(j)
      /\ \A r : Begun(r)' <=> Begun(r)
      /\ Stored' = Stored
  BY <1>1 DEF IsLast, Resumed, Begun, Stored
<1> QED
  BY <1>1, <1>2 DEF CountInv, RunsNamed, RowsRead, NoneBefore, RunRowsAgree

\* Well timed, the run of the chain counts what is stored: the same lines for
\* every job that resumes it.
THEOREM RowsCounted == ASSUME WellTimed PROVE Spec => []RunRowsAgree
<1>1. Init => CountInv
  <2> SUFFICES ASSUME Init PROVE CountInv
    OBVIOUS
  <2>1. 0 \notin Jobs
    BY ImportAssumption DEF Jobs
  <2>2. RunsNamed
    BY <2>1 DEF Init, RunsNamed, Begun, Writing, NoSeen, NoSaw
  <2>3. Stored = {}
    BY DEF Init, Stored
  <2> QED
    BY <2>2, <2>3 DEF Init, CountInv, RowsRead, NoneBefore, RunRowsAgree, Writing
<1>2. TypeOK /\ IInv /\ ChainInv /\ CountInv /\ [Next]_vars => CountInv'
  <2> SUFFICES ASSUME TypeOK, Control, Evidence, ChainInv, CountInv, [Next]_vars PROVE CountInv'
    BY DEF IInv
  <2>1. ASSUME NEW w \in Workers, Work(w) \/ Process(w) PROVE CountInv'
    BY <2>1, WorkCounts, OpenCounts, ChunkCounts
  <2>2. ASSUME NEW a \in Admins, Ask(a) PROVE CountInv'
    BY <2>2, AskCounts
  <2> QED
    BY <2>1, <2>2, TimeCounts DEF Next
<1>3. CountInv => RunRowsAgree
  BY DEF CountInv
<1> QED
  BY <1>1, <1>2, <1>3, Invariance, ChainKeeps, PTL DEF Spec

=============================================================================
