------------------------ MODULE OperationQueueProofs ------------------------
(***************************************************************************)
(* The guard of SQLite, the keys of requests and the promise that work on  *)
(* evidence fails closed, for any number of workers, clients, keys and     *)
(* jobs, and any leases, crashes, failures and signals; and the limit on   *)
(* imports, as long as nobody cancels.                                     *)
(***************************************************************************)
EXTENDS OperationQueue, FiniteSetTheorems, TLAPS

\* A row whose number is given to no job holds nothing, and nobody holds it.
Known ==
    /\ \A j \in Jobs : status[j] = "absent" => kind[j] = "none" /\ done[j] = 0
    /\ \A w \in Workers : pc[w] \in Working => wjob[w] \in Jobs /\ status[wjob[w]] # "absent"
    /\ \A w \in Workers, j \in Jobs : wsaw[w][j] # NoRow => status[j] # "absent"
    /\ \A c \in Clients :
          cpc[c] \in {"cancel", "write_off"} =>
          creq[c].job \in Jobs /\ status[creq[c].job] # "absent"
    /\ \A c \in Clients :
          cpc[c] = "cancel" => CancelOutcome(creq[c].status, creq[c].kind \in Cooperative)
                                   \in {"cancelled", "cancel_requested"}

\* How far each kind of job can come.
AtWork ==
    \A w \in Workers :
        /\ pc[w] = "persist" => kind[wjob[w]] \in {"shadow_observation", "shadow_monitoring_cycle"}
        /\ pc[w] = "again" => kind[wjob[w]] \in AutoRetry
        /\ pc[w] = "releasing" => kind[wjob[w]] = "import_logs"
        /\ pc[w] \in {"recovering", "claiming"} => setting.engine = "sqlite"

\* What OneWorker rests on: the one worker of SQLite has a heartbeat to show.
Shown ==
    setting.engine = "sqlite" /\ OneAtATime =>
    /\ OneWorker
    /\ \A w \in Workers : pc[w] \notin {"off", "starting"} => beat[w]

\* Work on evidence has one worker, and while it is carried out the job is not
\* to be claimed.
Closed ==
    OneAtATime =>
    /\ \A j \in Jobs : kind[j] \notin AutoRetry => status[j] # "retry_wait"
    /\ \A w \in Workers :
          pc[w] \in Working /\ kind[wjob[w]] \notin AutoRetry =>
          /\ status[wjob[w]] # "queued"
          /\ \A v \in Workers : pc[v] \in Working /\ wjob[v] = wjob[w] => v = w

\* A detection run is carried out after its claim and never before.
CarriedOnce ==
    OneAtATime =>
    \A j \in Jobs : kind[j] = "run_detection" =>
        /\ done[j] <= 1
        /\ status[j] = "queued" => done[j] = 0
        /\ \A w \in Workers :
              /\ pc[w] = "work" /\ wjob[w] = j => done[j] = 0
              /\ pc[w] = "claiming" /\ wsaw[w][j] # NoRow => done[j] = 0

\* The inductive invariant.
IInv == TypeOK /\ OneJobPerKey /\ Known /\ AtWork /\ Shown /\ Closed /\ CarriedOnce

\* What a session read of one row.
Row == [status : Status, attempts : Nat]

\* What small sets and constants belong to.
LEMMA Members ==
    /\ 0 \in 0 .. MaxJobs /\ Jobs \subseteq 0 .. MaxJobs
    /\ NoSnap \in [Jobs -> Row] /\ NoReq \in Request
    /\ \A s \in Setting : s.kinds \subseteq JobKind
    /\ \A s \in Settings : s \in Setting
<1>1. 0 \in 0 .. MaxJobs /\ Jobs \subseteq 0 .. MaxJobs
  BY QueueAssumption DEF Jobs
<1>2. NoSnap \in [Jobs -> Row]
  BY DEF NoSnap, NoRow, Row, Status
<1>3. NoReq \in Request
  BY <1>1 DEF NoReq, Request, Status, LeaseState, NoToken
<1>4. /\ \A s \in Setting : s.kinds \subseteq JobKind
      /\ \A s \in Settings : s \in Setting
  BY QueueAssumption DEF Setting
<1> QED
  BY <1>1, <1>2, <1>3, <1>4

\* What a session reads of the rows is well typed.
LEMMA SnapType ==
    ASSUME TypeOK, NEW S
    PROVE  Snap(S) \in [Jobs -> Row]
BY DEF TypeOK, Snap, NoRow, Row, Status

\* So is what a request reads of a job.
LEMMA SeeType ==
    ASSUME TypeOK, NEW j \in Jobs
    PROVE  See(j) \in Request
<1>1. /\ kind[j] \in JobKind \union {"none"} /\ status[j] \in Status
      /\ token[j] \in Workers \union {NoToken} /\ lease[j] \in LeaseState
      /\ j \in 0 .. MaxJobs
  BY Members DEF TypeOK
<1> QED
  BY <1>1, Members DEF See, Request

\* Carrying work out counts.
LEMMA DoneType ==
    ASSUME TypeOK, NEW j, Done(j)
    PROVE  done' \in [Jobs -> Nat]
<1>1. done \in [Jobs -> Nat]
  BY DEF TypeOK
<1>2. \A i \in Jobs : done[i] \in Nat /\ done[i] + 1 \in Nat
  BY <1>1
<1> DEFINE n == IF kind[j] \in {"run_detection", "export_report"} THEN done[j] + 1 ELSE 1
<1>3. done' = [done EXCEPT ![j] = n]
  BY DEF Done
<1>4. j \in Jobs => n \in Nat
  BY <1>2
<1> HIDE DEF n
<1> QED
  BY <1>1, <1>3, <1>4

\* What ends a job keeps the types.
LEMMA GivesUpType ==
    ASSUME TypeOK, NEW w \in Workers, NEW s \in Status, NEW d \in BOOLEAN, GivesUp(w, s, d)
    PROVE  TypeOK'
<1>1. status' \in [Jobs -> Status] /\ due' \in [Jobs -> BOOLEAN]
  BY DEF TypeOK, GivesUp
<1>2. token' \in [Jobs -> Workers \union {NoToken}] /\ lease' \in [Jobs -> LeaseState]
  BY DEF TypeOK, GivesUp, LeaseState
<1>3. /\ pc' \in [Workers -> Pc] /\ wjob' \in [Workers -> 0 .. MaxJobs]
      /\ beat' \in [Workers -> BOOLEAN]
  BY Members DEF TypeOK, GivesUp, Leaves, Goto, Beat, Pc
<1> QED
  BY <1>1, <1>2, <1>3 DEF TypeOK, GivesUp, clientVars

\* So does what starts one.
LEMMA ClaimedType ==
    ASSUME TypeOK, NEW w \in Workers, NEW j \in Jobs, NEW tries \in Nat, Claimed(w, j, tries)
    PROVE  TypeOK'
<1>1. status' \in [Jobs -> Status] /\ due' \in [Jobs -> BOOLEAN]
  BY DEF TypeOK, Claimed, Status
<1>2. /\ token' \in [Jobs -> Workers \union {NoToken}] /\ lease' \in [Jobs -> LeaseState]
      /\ attempts' \in [Jobs -> Nat]
  BY DEF TypeOK, Claimed, LeaseState
<1>3. /\ pc' \in [Workers -> Pc] /\ wjob' \in [Workers -> 0 .. MaxJobs]
      /\ beat' \in [Workers -> BOOLEAN]
      /\ wsaw' \in [Workers -> [Jobs -> [status : Status, attempts : Nat]]]
  BY Members DEF TypeOK, Claimed, Goto, Beat, Pc, Row
<1> QED
  BY <1>1, <1>2, <1>3 DEF TypeOK, Claimed, clientVars

\* Every step keeps the types.
LEMMA TypeStep ==
    ASSUME TypeOK, [Next]_vars
    PROVE  TypeOK'
<1>1. ASSUME NEW w \in Workers, Start(w)
      PROVE  TypeOK'
  BY <1>1, Members DEF Start, TypeOK, Row, jobVars, clientVars, Goto, Pc
<1>2. ASSUME NEW w \in Workers, Started(w)
      PROVE  TypeOK'
  BY <1>2, Members DEF Started, TypeOK, Row, jobVars, clientVars, Goto, Beat, Pc
<1>3. ASSUME NEW w \in Workers, Signal(w)
      PROVE  TypeOK'
  BY <1>3, Members DEF Signal, TypeOK, Row, jobVars, clientVars, Mishap, Pc
<1>4. ASSUME NEW w \in Workers, Stop(w)
      PROVE  TypeOK'
  BY <1>4, Members DEF Stop, Ends, TypeOK, Row, jobVars, clientVars, Goto, Beat, Pc
<1>5. ASSUME NEW w \in Workers, Crash(w)
      PROVE  TypeOK'
  BY <1>5, Members DEF Crash, TypeOK, Row, jobVars, clientVars, Goto, Mishap, Pc
<1>6. ASSUME NEW w \in Workers, BeatOld(w)
      PROVE  TypeOK'
  BY <1>6, Members DEF BeatOld, TypeOK, Row, jobVars, clientVars, Pc
<1>7. ASSUME NEW w \in Workers, Recover(w)
      PROVE  TypeOK'
  BY <1>7, Members, SnapType DEF Recover, Recovered, TypeOK, Row, clientVars, Goto, Pc,
      Status, LeaseState, NoToken, RecoverOutcome
<1>8. ASSUME NEW w \in Workers, RecoverRead(w)
      PROVE  TypeOK'
  BY <1>8, Members, SnapType DEF RecoverRead, TypeOK, Row, jobVars, clientVars, Goto, Pc
<1>9. ASSUME NEW w \in Workers, RecoverCommit(w)
      PROVE  TypeOK'
  BY <1>9, Members DEF RecoverCommit, Recovered, TypeOK, Row, clientVars, Goto, Pc,
                       Status, LeaseState, NoToken, RecoverOutcome
<1>10. ASSUME NEW w \in Workers, Claim(w)
      PROVE  TypeOK'
  <2>1. \A j \in Jobs : attempts[j] \in Nat
    BY DEF TypeOK
  <2> QED
    BY <1>10, <2>1, ClaimedType DEF Claim
<1>11. ASSUME NEW w \in Workers, ClaimRead(w)
      PROVE  TypeOK'
  BY <1>11, Members, SnapType DEF ClaimRead, TypeOK, Row, jobVars, clientVars, Goto, Pc
<1>12. ASSUME NEW w \in Workers, ClaimCommit(w)
      PROVE  TypeOK'
  <2>1. \A j \in Jobs : wsaw[w][j].attempts \in Nat
    BY DEF TypeOK
  <2> QED
    BY <1>12, <2>1, ClaimedType DEF ClaimCommit
<1>13. ASSUME NEW w \in Workers, NothingToClaim(w)
      PROVE  TypeOK'
  BY <1>13, Members DEF NothingToClaim, TypeOK, Row, jobVars, clientVars, Goto, Pc
<1>14. ASSUME NEW w \in Workers, Carry(w)
      PROVE  TypeOK'
  <2>1. done' \in [Jobs -> Nat]
    BY <1>14, DoneType DEF Carry
  <2> QED
    BY <1>14, <2>1 DEF Carry, TypeOK, clientVars, Goto, Pc
<1>15. ASSUME NEW w \in Workers, Observe(w)
      PROVE  TypeOK'
  BY <1>15, Members DEF Observe, Step, TypeOK, Row, jobVars, clientVars, Goto, Pc
<1>16. ASSUME NEW w \in Workers, Persist(w)
      PROVE  TypeOK'
  <2>1. done' \in [Jobs -> Nat]
    BY <1>16, DoneType DEF Persist
  <2> QED
    BY <1>16, <2>1 DEF Persist, TypeOK, clientVars, Goto, Pc
<1>17. ASSUME NEW w \in Workers, CancelLook(w)
      PROVE  TypeOK'
  BY <1>17, Members DEF CancelLook, Step, TypeOK, Row, jobVars, clientVars, Goto, Pc
<1>18. ASSUME NEW w \in Workers, CancelRaises(w)
      PROVE  TypeOK'
  BY <1>18, Members DEF CancelRaises, Ends, TypeOK, Row, jobVars, clientVars, Goto,
                        Beat, Pc
<1>19. ASSUME NEW w \in Workers, CancelCommit(w)
      PROVE  TypeOK'
  BY <1>19, GivesUpType DEF CancelCommit, Status
<1>20. ASSUME NEW w \in Workers, Boundary(w)
      PROVE  TypeOK'
  <2>0. pc \in [Workers -> Pc] /\ beat \in [Workers -> BOOLEAN]
    BY DEF TypeOK
  <2>1. pc' \in [Workers -> Pc] /\ beat' \in [Workers -> BOOLEAN]
    <3>1. \/ \E p \in Pc : Step(w, p)
          \/ Beat(w, TRUE) /\ pc' = pc
      BY <1>20 DEF Boundary, Pc
    <3> QED
      BY <2>0, <3>1 DEF Step, Goto, Beat
  <2>2. lease' \in [Jobs -> LeaseState]
    BY <1>20 DEF Boundary, Step, TypeOK, jobVars, LeaseState
  <2> QED
    BY <1>20, <2>1, <2>2 DEF Boundary, Step, TypeOK, jobVars, clientVars
<1>21. ASSUME NEW w \in Workers, ImportEnds(w)
      PROVE  TypeOK'
  <2>1. done' \in [Jobs -> Nat]
    BY <1>21, DoneType DEF ImportEnds
  <2> QED
    BY <1>21, <2>1 DEF ImportEnds, TypeOK, clientVars, Goto, Pc
<1>22. ASSUME NEW w \in Workers, Release(w)
      PROVE  TypeOK'
  BY <1>22, GivesUpType DEF Release, Status
<1>23. ASSUME NEW w \in Workers, LeaseLost(w)
      PROVE  TypeOK'
  BY <1>23, Members DEF LeaseLost, Leaves, TypeOK, Row, jobVars, clientVars, Goto, Beat,
                        Pc
<1>24. ASSUME NEW w \in Workers, CompleteRead(w)
      PROVE  TypeOK'
  BY <1>24, Members DEF CompleteRead, Step, TypeOK, Row, jobVars, clientVars, Goto, Pc
<1>25. ASSUME NEW w \in Workers, CompleteCommit(w)
      PROVE  TypeOK'
  BY <1>25, GivesUpType DEF CompleteCommit, Status
<1>26. ASSUME NEW w \in Workers, Fail(w)
      PROVE  TypeOK'
  BY <1>26, Members DEF Fail, TypeOK, Row, jobVars, clientVars, Goto, Mishap, Pc
<1>27. ASSUME NEW w \in Workers, FailRead(w)
      PROVE  TypeOK'
  BY <1>27, Members DEF FailRead, Step, TypeOK, Row, jobVars, clientVars, Goto, Pc
<1>28. ASSUME NEW w \in Workers, FailCommit(w)
      PROVE  TypeOK'
  BY <1>28, GivesUpType DEF FailCommit, Status
<1>29. ASSUME NEW j \in Jobs, LapseLease(j)
      PROVE  TypeOK'
  BY <1>29, Members DEF LapseLease, TypeOK, Row, workerVars, clientVars, LeaseState
<1>30. ASSUME NEW j \in Jobs, FallsDue(j)
      PROVE  TypeOK'
  BY <1>30, Members DEF FallsDue, TypeOK, Row, workerVars, clientVars
<1>31. ASSUME NEW c \in Clients, NEW k \in setting.kinds,
             NEW x \in Keys \union {NoKey},
             SubmitLook(c, k, x)
      PROVE  TypeOK'
  <2>1. k \in JobKind
    BY Members DEF TypeOK
  <2>2. [NoReq EXCEPT !.kind = k, !.key = x] \in Request
    BY <2>1, Members DEF Request
  <2> QED
    BY <1>31, <2>2 DEF SubmitLook, Ask, TypeOK, jobVars, workerVars
<1>32. ASSUME NEW c \in Clients, Insert(c)
      PROVE  TypeOK'
  BY <1>32, Members DEF Insert, TypeOK, Row, workerVars, NewRow, Answered, Free, Status,
                        Request
<1>33. ASSUME NEW c \in Clients, InsertRefused(c)
      PROVE  TypeOK'
  BY <1>33, Members DEF InsertRefused, TypeOK, Row, jobVars, workerVars, Answered
<1>34. ASSUME NEW c \in Clients, NEW j \in Jobs, CancelRead(c, j)
      PROVE  TypeOK'
  BY <1>34, Members, SeeType DEF CancelRead, TypeOK, Row, jobVars, workerVars, Ask
<1>35. ASSUME NEW c \in Clients, NEW j \in Jobs, WriteOffRead(c, j)
      PROVE  TypeOK'
  BY <1>35, Members, SeeType DEF WriteOffRead, TypeOK, Row, jobVars, workerVars, Ask
<1>36. ASSUME NEW c \in Clients, NEW j \in Jobs, Retry(c, j)
      PROVE  TypeOK'
  BY <1>36, Members DEF Retry, TypeOK, Row, workerVars, clientVars, NewRow, Free,
                        Status, Request
<1>37. ASSUME NEW c \in Clients, CancelWrite(c)
      PROVE  TypeOK'
  BY <1>37, Members DEF CancelWrite, TypeOK, Row, workerVars, Written, Answered, Status,
                        Request, CancelOutcome, CancellableStatus, Flushed, NoToken,
                        LeaseState
<1>38. ASSUME NEW c \in Clients, WriteOffCommit(c)
      PROVE  TypeOK'
  BY <1>38, Members DEF WriteOffCommit, TypeOK, Row, workerVars, Written, Answered,
                        Status, Request, Flushed, NoToken, LeaseState
<1>39. CASE UNCHANGED vars
  BY <1>39 DEF vars, jobVars, workerVars, clientVars, TypeOK
<1> QED
  BY <1>1, <1>2, <1>3, <1>4, <1>5, <1>6, <1>7, <1>8, <1>9, <1>10, <1>11, <1>12, <1>13,
      <1>14, <1>15, <1>16, <1>17, <1>18, <1>19, <1>20, <1>21, <1>22, <1>23, <1>24,
      <1>25, <1>26, <1>27, <1>28, <1>29, <1>30, <1>31, <1>32, <1>33, <1>34, <1>35,
      <1>36, <1>37, <1>38, <1>39 DEF Next, Work, Upset, Requests
-----------------------------------------------------------------------------
(***************************************************************************)
(* Keys.                                                                   *)
(***************************************************************************)

\* A step makes one job, with a key that no job has, or leaves what jobs are
\* for and their keys as they are.
LEMMA NewRows ==
    ASSUME [Next]_vars
    PROVE  /\ setting' = setting
           /\ \/ UNCHANGED <<kind, key>>
              \/ \E j \in Jobs : \E k, x : Free(j) /\ ~Taken(x) /\ NewRow(j, k, x)
<1> DEFINE G == /\ setting' = setting
                /\ \/ UNCHANGED <<kind, key>>
                   \/ \E j \in Jobs : \E k, x : Free(j) /\ ~Taken(x) /\ NewRow(j, k, x)
<1>1. ASSUME NEW w \in Workers,
             Started(w) \/ Stop(w) \/ Recover(w) \/ RecoverRead(w) \/ RecoverCommit(w)
      PROVE  G
  BY <1>1 DEF Started, Stop, Recover, RecoverRead, RecoverCommit, Recovered, jobVars
<1>2. ASSUME NEW w \in Workers, Claim(w) \/ ClaimRead(w) \/ ClaimCommit(w) \/ NothingToClaim(w)
      PROVE  G
  BY <1>2 DEF Claim, ClaimRead, ClaimCommit, NothingToClaim, Claimed, jobVars
<1>3. ASSUME NEW w \in Workers, Carry(w) \/ Observe(w) \/ Persist(w) \/ Boundary(w) \/ ImportEnds(w)
      PROVE  G
  BY <1>3 DEF Carry, Observe, Persist, Boundary, ImportEnds, Step, jobVars
<1>4. ASSUME NEW w \in Workers,
             \/ CancelLook(w) \/ CancelRaises(w) \/ LeaseLost(w) \/ CompleteRead(w) \/ FailRead(w)
             \/ CancelCommit(w) \/ Release(w) \/ CompleteCommit(w) \/ FailCommit(w)
      PROVE  G
  BY <1>4 DEF CancelLook, CancelRaises, LeaseLost, CompleteRead, FailRead, CancelCommit,
              Release, CompleteCommit, FailCommit, Step, GivesUp, jobVars
<1>5. ASSUME NEW w \in Workers, Start(w) \/ BeatOld(w) \/ Upset(w)
      PROVE  G
  BY <1>5 DEF Start, BeatOld, Upset, Signal, Crash, Fail, jobVars
<1>6. ASSUME NEW j \in Jobs, LapseLease(j) \/ FallsDue(j)
      PROVE  G
  BY <1>6 DEF LapseLease, FallsDue
<1>7. ASSUME NEW c \in Clients, Requests(c)
      PROVE  G
  <2>1. CASE \/ \E k \in setting.kinds, x \in Keys \union {NoKey} : SubmitLook(c, k, x)
             \/ \E j \in Jobs : CancelRead(c, j) \/ WriteOffRead(c, j)
    BY <2>1 DEF SubmitLook, CancelRead, WriteOffRead, Ask, jobVars
  <2>2. CASE InsertRefused(c) \/ CancelWrite(c) \/ WriteOffCommit(c)
    BY <2>2 DEF InsertRefused, CancelWrite, WriteOffCommit, Written, jobVars
  <2>3. CASE Insert(c)
    BY <2>3 DEF Insert, NewRow
  <2>4. ASSUME NEW j \in Jobs, Retry(c, j) PROVE G
    BY <2>4 DEF Retry, NewRow, Taken
  <2> QED
    BY <1>7, <2>1, <2>2, <2>3, <2>4 DEF Requests
<1>8. CASE UNCHANGED vars
  BY <1>8 DEF vars, jobVars
<1> QED
  BY <1>1, <1>2, <1>3, <1>4, <1>5, <1>6, <1>7, <1>8 DEF Next, Work

\* No step gives a key to a second job.
LEMMA KeyStep ==
    ASSUME TypeOK, OneJobPerKey, [Next]_vars
    PROVE  OneJobPerKey'
<1>1. CASE UNCHANGED <<kind, key>>
  BY <1>1 DEF OneJobPerKey
<1>2. ASSUME NEW j \in Jobs, NEW k, NEW x, ~Taken(x), NewRow(j, k, x)
      PROVE  OneJobPerKey'
  <2>1. \A i \in Jobs : key'[i] = IF i = j THEN x ELSE key[i]
    BY <1>2 DEF NewRow, TypeOK
  <2>2. x # NoKey => \A i \in Jobs : key[i] # x
    BY <1>2 DEF Taken
  <2> QED
    BY <2>1, <2>2 DEF OneJobPerKey
<1> QED
  BY <1>1, <1>2, NewRows

-----------------------------------------------------------------------------
(***************************************************************************)
(* Rows and those who hold them.                                           *)
(***************************************************************************)

\* Recovery writes rows that are there, and queues only what is safe to repeat.
LEMMA RecoveredRows ==
    ASSUME NEW w \in Workers, NEW snap,
           \A j \in Jobs : snap[j] # NoRow => status[j] # "absent", Recovered(w, snap)
    PROVE  /\ \A j \in Jobs : status'[j] = "absent" <=> status[j] = "absent"
           /\ \A j \in Jobs :
                 \/ status'[j] = status[j]
                 \/ status'[j] \in {"cancelled", "failed"}
                 \/ status'[j] = "retry_wait" /\ kind[j] \in AutoRetry
<1>1. ASSUME NEW j \in Jobs
      PROVE  status'[j] = IF snap[j] # NoRow
                          THEN RecoverOutcome(snap[j].status, MayTryAgain(j, snap[j].attempts))
                          ELSE status[j]
  BY DEF Recovered
<1>2. ASSUME NEW j \in Jobs, NEW s, NEW tries
      PROVE  \/ RecoverOutcome(s, MayTryAgain(j, tries)) \in {"cancelled", "failed"}
             \/ RecoverOutcome(s, MayTryAgain(j, tries)) = "retry_wait" /\ kind[j] \in AutoRetry
  <2>1. MayTryAgain(j, tries) => kind[j] \in AutoRetry
    BY Zenon DEF MayTryAgain
  <2> QED
    BY <2>1 DEF RecoverOutcome
<1> QED
  BY <1>1, <1>2

\* Recovery takes no row away from who holds or read it.
LEMMA RecoveredKnown ==
    ASSUME TypeOK, Known, NEW w \in Workers, NEW snap,
           \A j \in Jobs : snap[j] # NoRow => status[j] # "absent", Recovered(w, snap)
    PROVE  Known'
<1>1. \A j \in Jobs : status'[j] = "absent" <=> status[j] = "absent"
  BY RecoveredRows
<1>2. \A v \in Workers : pc'[v] \in Working => pc[v] \in Working
  BY DEF TypeOK, Recovered, Goto, Working
<1>3. \A v \in Workers, j \in Jobs : wsaw'[v][j] # NoRow => wsaw[v][j] # NoRow
  BY DEF TypeOK, Recovered, NoSnap
<1>4. UNCHANGED <<kind, done, wjob, cpc, creq>>
  BY DEF Recovered, clientVars
<1> QED
  BY <1>1, <1>2, <1>3, <1>4 DEF Known

\* Nor does the end of a job.
LEMMA GivesUpKnown ==
    ASSUME TypeOK, Known, NEW w \in Workers, NEW s, s # "absent", NEW d, GivesUp(w, s, d),
           pc[w] \in Working
    PROVE  Known'
BY DEF TypeOK, Known, GivesUp, Leaves, Goto, Working, clientVars

\* A job's row, once made, is there for everybody who holds or read it.
LEMMA KnownStep ==
    ASSUME TypeOK, Known, [Next]_vars
    PROVE  Known'
<1>1. ASSUME NEW w \in Workers, Start(w)
      PROVE  Known'
  BY <1>1 DEF Start, TypeOK, Known, jobVars, clientVars, Goto, Working
<1>2. ASSUME NEW w \in Workers, Started(w)
      PROVE  Known'
  BY <1>2 DEF Started, TypeOK, Known, jobVars, clientVars, Goto, Beat, Working
<1>3. ASSUME NEW w \in Workers, Signal(w)
      PROVE  Known'
  BY <1>3 DEF Signal, TypeOK, Known, jobVars, clientVars, Mishap, Working
<1>4. ASSUME NEW w \in Workers, Stop(w)
      PROVE  Known'
  BY <1>4 DEF Stop, Ends, TypeOK, Known, jobVars, clientVars, Goto, Beat, Working,
              NoSnap
<1>5. ASSUME NEW w \in Workers, Crash(w)
      PROVE  Known'
  BY <1>5 DEF Crash, TypeOK, Known, jobVars, clientVars, Goto, Mishap, Working, NoSnap
<1>6. ASSUME NEW w \in Workers, BeatOld(w)
      PROVE  Known'
  BY <1>6 DEF BeatOld, TypeOK, Known, jobVars, clientVars, Working
<1>7. ASSUME NEW w \in Workers, Recover(w)
      PROVE  Known'
  <2>1. \A j \in Jobs : Snap(RanOut)[j] # NoRow => status[j] # "absent"
    BY DEF Snap, RanOut, LeaseRanOut, HeldStatus
  <2> QED
    BY <1>7, <2>1, RecoveredKnown DEF Recover
<1>8. ASSUME NEW w \in Workers, RecoverRead(w)
      PROVE  Known'
  BY <1>8 DEF RecoverRead, TypeOK, Known, jobVars, clientVars, Goto, Working, RanOut,
              LeaseRanOut, HeldStatus, Snap, RecoverOutcome
<1>9. ASSUME NEW w \in Workers, RecoverCommit(w)
      PROVE  Known'
  BY <1>9, RecoveredKnown DEF RecoverCommit, Known
<1>10. ASSUME NEW w \in Workers, Claim(w)
      PROVE  Known'
  BY <1>10 DEF Claim, Claimed, TypeOK, Known, clientVars, Goto, Beat, Working, Oldest,
               Waiting, CancellableStatus, NoSnap
<1>11. ASSUME NEW w \in Workers, ClaimRead(w)
      PROVE  Known'
  BY <1>11 DEF ClaimRead, TypeOK, Known, jobVars, clientVars, Goto, Working, Oldest,
               Waiting, CancellableStatus, Snap
<1>12. ASSUME NEW w \in Workers, ClaimCommit(w)
      PROVE  Known'
  BY <1>12 DEF ClaimCommit, Claimed, TypeOK, Known, clientVars, Goto, Beat, Working,
               NoSnap
<1>13. ASSUME NEW w \in Workers, NothingToClaim(w)
      PROVE  Known'
  BY <1>13 DEF NothingToClaim, TypeOK, Known, jobVars, clientVars, Goto, Working
<1>14. ASSUME NEW w \in Workers, Carry(w)
      PROVE  Known'
  BY <1>14 DEF Carry, TypeOK, Known, clientVars, Goto, Working, Done
<1>15. ASSUME NEW w \in Workers, Observe(w)
      PROVE  Known'
  BY <1>15 DEF Observe, Step, TypeOK, Known, jobVars, clientVars, Goto, Working
<1>16. ASSUME NEW w \in Workers, Persist(w)
      PROVE  Known'
  BY <1>16 DEF Persist, TypeOK, Known, clientVars, Goto, Working, Done
<1>17. ASSUME NEW w \in Workers, CancelLook(w)
      PROVE  Known'
  BY <1>17 DEF CancelLook, Step, TypeOK, Known, jobVars, clientVars, Goto, Working
<1>18. ASSUME NEW w \in Workers, CancelRaises(w)
      PROVE  Known'
  BY <1>18 DEF CancelRaises, Ends, TypeOK, Known, jobVars, clientVars, Goto, Beat,
               Working, NoSnap
<1>19. ASSUME NEW w \in Workers, CancelCommit(w)
      PROVE  Known'
  BY <1>19, GivesUpKnown DEF CancelCommit, Working
<1>20. ASSUME NEW w \in Workers, Boundary(w)
      PROVE  Known'
  <2>1. UNCHANGED <<status, kind, done, wjob, wsaw, cpc, creq>>
    BY <1>20 DEF Boundary, Step, jobVars, clientVars
  <2>2. \A v \in Workers : pc'[v] \in Working => pc[v] \in Working
    BY <1>20 DEF Boundary, Step, Goto, TypeOK, Working
  <2> QED
    BY <2>1, <2>2 DEF Known
<1>21. ASSUME NEW w \in Workers, ImportEnds(w)
      PROVE  Known'
  BY <1>21 DEF ImportEnds, TypeOK, Known, clientVars, Goto, Working, Done
<1>22. ASSUME NEW w \in Workers, Release(w)
      PROVE  Known'
  BY <1>22, GivesUpKnown DEF Release, Working
<1>23. ASSUME NEW w \in Workers, LeaseLost(w)
      PROVE  Known'
  BY <1>23 DEF LeaseLost, Leaves, TypeOK, Known, jobVars, clientVars, Goto, Beat,
               Working
<1>24. ASSUME NEW w \in Workers, CompleteRead(w)
      PROVE  Known'
  BY <1>24 DEF CompleteRead, Step, TypeOK, Known, jobVars, clientVars, Goto, Working
<1>25. ASSUME NEW w \in Workers, CompleteCommit(w)
      PROVE  Known'
  BY <1>25, GivesUpKnown DEF CompleteCommit, Working
<1>26. ASSUME NEW w \in Workers, Fail(w)
      PROVE  Known'
  BY <1>26 DEF Fail, TypeOK, Known, jobVars, clientVars, Goto, Mishap, Working
<1>27. ASSUME NEW w \in Workers, FailRead(w)
      PROVE  Known'
  BY <1>27 DEF FailRead, Step, TypeOK, Known, jobVars, clientVars, Goto, Working
<1>28. ASSUME NEW w \in Workers, FailCommit(w)
      PROVE  Known'
  BY <1>28, GivesUpKnown DEF FailCommit, Working
<1>29. ASSUME NEW j \in Jobs, LapseLease(j)
      PROVE  Known'
  BY <1>29 DEF LapseLease, TypeOK, Known, workerVars, clientVars
<1>30. ASSUME NEW j \in Jobs, FallsDue(j)
      PROVE  Known'
  BY <1>30 DEF FallsDue, TypeOK, Known, workerVars, clientVars
<1>31. ASSUME NEW c \in Clients, NEW k \in setting.kinds,
             NEW x \in Keys \union {NoKey},
             SubmitLook(c, k, x)
      PROVE  Known'
  BY <1>31 DEF SubmitLook, TypeOK, Known, jobVars, workerVars, Ask
<1>32. ASSUME NEW c \in Clients, Insert(c)
      PROVE  Known'
  BY <1>32 DEF Insert, TypeOK, Known, workerVars, NewRow, Answered, Free
<1>33. ASSUME NEW c \in Clients, InsertRefused(c)
      PROVE  Known'
  BY <1>33 DEF InsertRefused, TypeOK, Known, jobVars, workerVars, Answered
<1>34. ASSUME NEW c \in Clients, NEW j \in Jobs, CancelRead(c, j)
      PROVE  Known'
  BY <1>34 DEF CancelRead, TypeOK, Known, jobVars, workerVars, Ask, See, CancelOutcome,
               CancellableStatus
<1>35. ASSUME NEW c \in Clients, NEW j \in Jobs, WriteOffRead(c, j)
      PROVE  Known'
  BY <1>35 DEF WriteOffRead, TypeOK, Known, jobVars, workerVars, Ask, See, StaleStatus
<1>36. ASSUME NEW c \in Clients, NEW j \in Jobs, Retry(c, j)
      PROVE  Known'
  BY <1>36 DEF Retry, TypeOK, Known, workerVars, clientVars, NewRow, Free,
               RetryableStatus
<1>37. ASSUME NEW c \in Clients, CancelWrite(c)
      PROVE  Known'
  <2>1. CancelOutcome(creq[c].status, creq[c].kind \in Cooperative) # "absent"
    BY <1>37 DEF CancelWrite, Known
  <2>2. \A j \in Jobs : status'[j] = "absent" => status[j] = "absent"
    BY <1>37, <2>1 DEF CancelWrite, Written, TypeOK
  <2>3. UNCHANGED <<kind, done, wjob, pc, wsaw>>
    BY <1>37 DEF CancelWrite, Written, workerVars
  <2>4. \A d \in Clients : cpc'[d] # "idle" => cpc'[d] = cpc[d] /\ creq'[d] = creq[d]
    BY <1>37 DEF CancelWrite, Written, Answered, TypeOK
  <2>5. \A d \in Clients : cpc[d] \in {"cancel", "write_off"} =>
          creq[d].job \in Jobs /\ status'[creq[d].job] # "absent"
    BY <1>37, <2>1 DEF CancelWrite, Written, TypeOK, Known
  <2> QED
    BY <2>2, <2>3, <2>4, <2>5 DEF Known
<1>38. ASSUME NEW c \in Clients, WriteOffCommit(c)
      PROVE  Known'
  BY <1>38 DEF WriteOffCommit, TypeOK, Known, workerVars, Written, Answered
<1>39. CASE UNCHANGED vars
  BY <1>39 DEF vars, jobVars, workerVars, clientVars, TypeOK, Known
<1> QED
  BY <1>1, <1>2, <1>3, <1>4, <1>5, <1>6, <1>7, <1>8, <1>9, <1>10, <1>11, <1>12, <1>13,
      <1>14, <1>15, <1>16, <1>17, <1>18, <1>19, <1>20, <1>21, <1>22, <1>23, <1>24,
      <1>25, <1>26, <1>27, <1>28, <1>29, <1>30, <1>31, <1>32, <1>33, <1>34, <1>35,
      <1>36, <1>37, <1>38, <1>39 DEF Next, Work, Upset, Requests
-----------------------------------------------------------------------------
(***************************************************************************)
(* The worker of SQLite, and how far jobs come.                            *)
(***************************************************************************)

\* What a job is for does not change.
LEMMA KindStays ==
    ASSUME TypeOK, [Next]_vars, NEW j \in Jobs, status[j] # "absent"
    PROVE  kind'[j] = kind[j]
<1>1. ASSUME NEW i \in Jobs, NEW k, NEW x, Free(i), NewRow(i, k, x)
      PROVE  kind'[j] = kind[j]
  BY <1>1 DEF Free, NewRow, TypeOK
<1> QED
  BY <1>1, NewRows

\* Each kind of job comes as far as it did.
LEMMA AtWorkStep ==
    ASSUME TypeOK, Known, AtWork, [Next]_vars
    PROVE  AtWork'
<1>0. \A w \in Workers : pc[w] \in Working => kind'[wjob[w]] = kind[wjob[w]]
  BY KindStays DEF Known
<1>1. ASSUME NEW w \in Workers, Start(w)
      PROVE  AtWork'
  BY <1>1, <1>0 DEF Start, TypeOK, AtWork, jobVars, clientVars, Goto
<1>2. ASSUME NEW w \in Workers, Started(w)
      PROVE  AtWork'
  BY <1>2, <1>0 DEF Started, TypeOK, AtWork, jobVars, clientVars, Goto, Beat
<1>3. ASSUME NEW w \in Workers, Signal(w)
      PROVE  AtWork'
  BY <1>3, <1>0 DEF Signal, TypeOK, AtWork, jobVars, clientVars, Mishap
<1>4. ASSUME NEW w \in Workers, Stop(w)
      PROVE  AtWork'
  BY <1>4, <1>0 DEF Stop, Ends, TypeOK, AtWork, jobVars, clientVars, Goto, Beat
<1>5. ASSUME NEW w \in Workers, Crash(w)
      PROVE  AtWork'
  BY <1>5, <1>0 DEF Crash, TypeOK, AtWork, jobVars, clientVars, Goto, Mishap
<1>6. ASSUME NEW w \in Workers, BeatOld(w)
      PROVE  AtWork'
  BY <1>6, <1>0 DEF BeatOld, TypeOK, AtWork, jobVars, clientVars
<1>7. ASSUME NEW w \in Workers, Recover(w)
      PROVE  AtWork'
  BY <1>7, <1>0 DEF Recover, Recovered, TypeOK, AtWork, clientVars, Goto
<1>8. ASSUME NEW w \in Workers, RecoverRead(w)
      PROVE  AtWork'
  BY <1>8, <1>0 DEF RecoverRead, TypeOK, AtWork, jobVars, clientVars, Goto
<1>9. ASSUME NEW w \in Workers, RecoverCommit(w)
      PROVE  AtWork'
  BY <1>9, <1>0 DEF RecoverCommit, Recovered, TypeOK, AtWork, clientVars, Goto
<1>10. ASSUME NEW w \in Workers, Claim(w)
      PROVE  AtWork'
  BY <1>10, <1>0 DEF Claim, Claimed, TypeOK, AtWork, clientVars, Goto, Beat
<1>11. ASSUME NEW w \in Workers, ClaimRead(w)
      PROVE  AtWork'
  BY <1>11, <1>0 DEF ClaimRead, TypeOK, AtWork, jobVars, clientVars, Goto
<1>12. ASSUME NEW w \in Workers, ClaimCommit(w)
      PROVE  AtWork'
  BY <1>12, <1>0 DEF ClaimCommit, Claimed, TypeOK, AtWork, clientVars, Goto, Beat
<1>13. ASSUME NEW w \in Workers, NothingToClaim(w)
      PROVE  AtWork'
  BY <1>13, <1>0 DEF NothingToClaim, TypeOK, AtWork, jobVars, clientVars, Goto
<1>14. ASSUME NEW w \in Workers, Carry(w)
      PROVE  AtWork'
  BY <1>14, <1>0 DEF Carry, TypeOK, AtWork, clientVars, Goto
<1>15. ASSUME NEW w \in Workers, Observe(w)
      PROVE  AtWork'
  BY <1>15, <1>0 DEF Observe, Step, TypeOK, AtWork, jobVars, clientVars, Goto,
                     ToldToStop, Is
<1>16. ASSUME NEW w \in Workers, Persist(w)
      PROVE  AtWork'
  BY <1>16, <1>0 DEF Persist, TypeOK, AtWork, clientVars, Goto
<1>17. ASSUME NEW w \in Workers, CancelLook(w)
      PROVE  AtWork'
  BY <1>17, <1>0 DEF CancelLook, Step, TypeOK, AtWork, jobVars, clientVars, Goto
<1>18. ASSUME NEW w \in Workers, CancelRaises(w)
      PROVE  AtWork'
  BY <1>18, <1>0 DEF CancelRaises, Ends, TypeOK, AtWork, jobVars, clientVars, Goto, Beat
<1>19. ASSUME NEW w \in Workers, CancelCommit(w)
      PROVE  AtWork'
  BY <1>19, <1>0 DEF CancelCommit, GivesUp, Leaves, TypeOK, AtWork, clientVars, Goto,
                     Beat
<1>20. ASSUME NEW w \in Workers, Boundary(w)
      PROVE  AtWork'
  BY <1>20, <1>0 DEF Boundary, Step, TypeOK, AtWork, jobVars, clientVars, Goto, Beat, Is
<1>21. ASSUME NEW w \in Workers, ImportEnds(w)
      PROVE  AtWork'
  BY <1>21, <1>0 DEF ImportEnds, TypeOK, AtWork, clientVars, Goto
<1>22. ASSUME NEW w \in Workers, Release(w)
      PROVE  AtWork'
  BY <1>22, <1>0 DEF Release, GivesUp, Leaves, TypeOK, AtWork, clientVars, Goto, Beat
<1>23. ASSUME NEW w \in Workers, LeaseLost(w)
      PROVE  AtWork'
  BY <1>23, <1>0 DEF LeaseLost, Leaves, TypeOK, AtWork, jobVars, clientVars, Goto, Beat
<1>24. ASSUME NEW w \in Workers, CompleteRead(w)
      PROVE  AtWork'
  BY <1>24, <1>0 DEF CompleteRead, Step, TypeOK, AtWork, jobVars, clientVars, Goto
<1>25. ASSUME NEW w \in Workers, CompleteCommit(w)
      PROVE  AtWork'
  BY <1>25, <1>0 DEF CompleteCommit, GivesUp, Leaves, TypeOK, AtWork, clientVars, Goto,
                     Beat
<1>26. ASSUME NEW w \in Workers, Fail(w)
      PROVE  AtWork'
  BY <1>26, <1>0 DEF Fail, TypeOK, AtWork, jobVars, clientVars, Goto, Mishap
<1>27. ASSUME NEW w \in Workers, FailRead(w)
      PROVE  AtWork'
  BY <1>27, <1>0 DEF FailRead, Step, TypeOK, AtWork, jobVars, clientVars, Goto,
                     MayTryAgain
<1>28. ASSUME NEW w \in Workers, FailCommit(w)
      PROVE  AtWork'
  <2>1. PICK s, d : GivesUp(w, s, d)
    BY <1>28 DEF FailCommit
  <2> QED
    BY <2>1, <1>0 DEF GivesUp, Leaves, TypeOK, AtWork, clientVars, Goto, Beat
<1>29. ASSUME NEW j \in Jobs, LapseLease(j)
      PROVE  AtWork'
  BY <1>29, <1>0 DEF LapseLease, TypeOK, AtWork, workerVars, clientVars
<1>30. ASSUME NEW j \in Jobs, FallsDue(j)
      PROVE  AtWork'
  BY <1>30, <1>0 DEF FallsDue, TypeOK, AtWork, workerVars, clientVars
<1>31. ASSUME NEW c \in Clients, NEW k \in setting.kinds,
             NEW x \in Keys \union {NoKey},
             SubmitLook(c, k, x)
      PROVE  AtWork'
  BY <1>31, <1>0 DEF SubmitLook, TypeOK, AtWork, jobVars, workerVars, Ask
<1>32. ASSUME NEW c \in Clients, Insert(c)
      PROVE  AtWork'
  BY <1>32, <1>0 DEF Insert, TypeOK, AtWork, workerVars, NewRow, Working
<1>33. ASSUME NEW c \in Clients, InsertRefused(c)
      PROVE  AtWork'
  BY <1>33, <1>0 DEF InsertRefused, TypeOK, AtWork, jobVars, workerVars, Answered
<1>34. ASSUME NEW c \in Clients, NEW j \in Jobs, CancelRead(c, j)
      PROVE  AtWork'
  BY <1>34, <1>0 DEF CancelRead, TypeOK, AtWork, jobVars, workerVars, Ask, See
<1>35. ASSUME NEW c \in Clients, NEW j \in Jobs, WriteOffRead(c, j)
      PROVE  AtWork'
  BY <1>35, <1>0 DEF WriteOffRead, TypeOK, AtWork, jobVars, workerVars, Ask, See
<1>36. ASSUME NEW c \in Clients, NEW j \in Jobs, Retry(c, j)
      PROVE  AtWork'
  BY <1>36, <1>0 DEF Retry, TypeOK, AtWork, workerVars, NewRow, Working
<1>37. ASSUME NEW c \in Clients, CancelWrite(c)
      PROVE  AtWork'
  BY <1>37, <1>0 DEF CancelWrite, TypeOK, AtWork, workerVars, Written, Answered
<1>38. ASSUME NEW c \in Clients, WriteOffCommit(c)
      PROVE  AtWork'
  BY <1>38, <1>0 DEF WriteOffCommit, TypeOK, AtWork, workerVars, Written, Answered
<1>39. CASE UNCHANGED vars
  BY <1>39 DEF vars, jobVars, workerVars, clientVars, TypeOK, AtWork
<1> QED
  BY <1>1, <1>2, <1>3, <1>4, <1>5, <1>6, <1>7, <1>8, <1>9, <1>10, <1>11, <1>12, <1>13,
      <1>14, <1>15, <1>16, <1>17, <1>18, <1>19, <1>20, <1>21, <1>22, <1>23, <1>24,
      <1>25, <1>26, <1>27, <1>28, <1>29, <1>30, <1>31, <1>32, <1>33, <1>34, <1>35,
      <1>36, <1>37, <1>38, <1>39 DEF Next, Work, Upset, Requests

\* One worker on SQLite, which its heartbeat shows: the guard lets a second one
\* start when the first is gone.
LEMMA ShownStep ==
    ASSUME TypeOK, AtWork, Shown, [Next]_vars
    PROVE  Shown'
<1>0. setting' = setting
  BY NewRows
<1>1. ASSUME NEW w \in Workers, Start(w)
      PROVE  Shown'
  BY <1>1, <1>0 DEF Start, TypeOK, Shown, OneWorker, OneAtATime, jobVars, clientVars,
                    Goto, Guard
<1>2. ASSUME NEW w \in Workers, Started(w)
      PROVE  Shown'
  BY <1>2, <1>0 DEF Started, TypeOK, Shown, OneWorker, OneAtATime, jobVars, clientVars,
                    Goto, Beat
<1>3. ASSUME NEW w \in Workers, Signal(w)
      PROVE  Shown'
  BY <1>3, <1>0 DEF Signal, TypeOK, Shown, OneWorker, OneAtATime, jobVars, clientVars,
                    Mishap
<1>4. ASSUME NEW w \in Workers, Stop(w)
      PROVE  Shown'
  BY <1>4, <1>0 DEF Stop, Ends, TypeOK, Shown, OneWorker, OneAtATime, jobVars,
                    clientVars, Goto, Beat
<1>5. ASSUME NEW w \in Workers, Crash(w)
      PROVE  Shown'
  BY <1>5, <1>0 DEF Crash, TypeOK, Shown, OneWorker, OneAtATime, jobVars, clientVars,
                    Goto, Mishap
<1>6. ASSUME NEW w \in Workers, BeatOld(w)
      PROVE  Shown'
  BY <1>6, <1>0 DEF BeatOld, TypeOK, Shown, OneWorker, OneAtATime, jobVars, clientVars,
                    Working
<1>7. ASSUME NEW w \in Workers, Recover(w)
      PROVE  Shown'
  BY <1>7, <1>0 DEF Recover, Recovered, TypeOK, Shown, OneWorker, OneAtATime,
                    clientVars, Goto
<1>8. ASSUME NEW w \in Workers, RecoverRead(w)
      PROVE  Shown'
  BY <1>8, <1>0 DEF RecoverRead, TypeOK, Shown, OneWorker, OneAtATime, jobVars,
                    clientVars, Goto
<1>9. ASSUME NEW w \in Workers, RecoverCommit(w)
      PROVE  Shown'
  BY <1>9, <1>0 DEF RecoverCommit, Recovered, TypeOK, Shown, OneWorker, OneAtATime,
                    clientVars, Goto
<1>10. ASSUME NEW w \in Workers, Claim(w)
      PROVE  Shown'
  BY <1>10, <1>0 DEF Claim, Claimed, TypeOK, Shown, OneWorker, OneAtATime, clientVars,
                     Goto, Beat
<1>11. ASSUME NEW w \in Workers, ClaimRead(w)
      PROVE  Shown'
  BY <1>11, <1>0 DEF ClaimRead, TypeOK, Shown, OneWorker, OneAtATime, jobVars,
                     clientVars, Goto
<1>12. ASSUME NEW w \in Workers, ClaimCommit(w)
      PROVE  Shown'
  BY <1>12, <1>0 DEF ClaimCommit, Claimed, TypeOK, Shown, OneWorker, OneAtATime,
                     clientVars, Goto, Beat
<1>13. ASSUME NEW w \in Workers, NothingToClaim(w)
      PROVE  Shown'
  BY <1>13, <1>0 DEF NothingToClaim, TypeOK, Shown, OneWorker, OneAtATime, jobVars,
                     clientVars, Goto
<1>14. ASSUME NEW w \in Workers, Carry(w)
      PROVE  Shown'
  BY <1>14, <1>0 DEF Carry, TypeOK, Shown, OneWorker, OneAtATime, clientVars, Goto
<1>15. ASSUME NEW w \in Workers, Observe(w)
      PROVE  Shown'
  BY <1>15, <1>0 DEF Observe, Step, TypeOK, Shown, OneWorker, OneAtATime, jobVars,
                     clientVars, Goto
<1>16. ASSUME NEW w \in Workers, Persist(w)
      PROVE  Shown'
  BY <1>16, <1>0 DEF Persist, TypeOK, Shown, OneWorker, OneAtATime, clientVars, Goto
<1>17. ASSUME NEW w \in Workers, CancelLook(w)
      PROVE  Shown'
  BY <1>17, <1>0 DEF CancelLook, Step, TypeOK, Shown, OneWorker, OneAtATime, jobVars,
                     clientVars, Goto
<1>18. ASSUME NEW w \in Workers, CancelRaises(w)
      PROVE  Shown'
  BY <1>18, <1>0 DEF CancelRaises, Ends, TypeOK, Shown, OneWorker, OneAtATime, jobVars,
                     clientVars, Goto, Beat
<1>19. ASSUME NEW w \in Workers, CancelCommit(w)
      PROVE  Shown'
  BY <1>19, <1>0 DEF CancelCommit, GivesUp, Leaves, TypeOK, Shown, OneWorker,
                     OneAtATime, clientVars, Goto, Beat
<1>20. ASSUME NEW w \in Workers, Boundary(w)
      PROVE  Shown'
  <2>1. pc[w] = "work" /\ pc'[w] \in {"work", "cancel", "releasing"}
    BY <1>20 DEF Boundary, Step, Goto, TypeOK
  <2>2. \A v \in Workers : v # w => pc'[v] = pc[v]
    BY <1>20 DEF Boundary, Step, Goto, TypeOK
  <2>3. \A v \in Workers : beat[v] => beat'[v]
    BY <1>20 DEF Boundary, Step, Beat, TypeOK
  <2> QED
    BY <2>1, <2>2, <2>3, <1>0 DEF Shown, OneWorker, OneAtATime
<1>21. ASSUME NEW w \in Workers, ImportEnds(w)
      PROVE  Shown'
  BY <1>21, <1>0 DEF ImportEnds, TypeOK, Shown, OneWorker, OneAtATime, clientVars, Goto
<1>22. ASSUME NEW w \in Workers, Release(w)
      PROVE  Shown'
  BY <1>22, <1>0 DEF Release, GivesUp, Leaves, TypeOK, Shown, OneWorker, OneAtATime,
                     clientVars, Goto, Beat
<1>23. ASSUME NEW w \in Workers, LeaseLost(w)
      PROVE  Shown'
  BY <1>23, <1>0 DEF LeaseLost, Leaves, TypeOK, Shown, OneWorker, OneAtATime, jobVars,
                     clientVars, Goto, Beat
<1>24. ASSUME NEW w \in Workers, CompleteRead(w)
      PROVE  Shown'
  BY <1>24, <1>0 DEF CompleteRead, Step, TypeOK, Shown, OneWorker, OneAtATime, jobVars,
                     clientVars, Goto
<1>25. ASSUME NEW w \in Workers, CompleteCommit(w)
      PROVE  Shown'
  BY <1>25, <1>0 DEF CompleteCommit, GivesUp, Leaves, TypeOK, Shown, OneWorker,
                     OneAtATime, clientVars, Goto, Beat
<1>26. ASSUME NEW w \in Workers, Fail(w)
      PROVE  Shown'
  BY <1>26, <1>0 DEF Fail, TypeOK, Shown, OneWorker, OneAtATime, jobVars, clientVars,
                     Goto, Mishap
<1>27. ASSUME NEW w \in Workers, FailRead(w)
      PROVE  Shown'
  BY <1>27, <1>0 DEF FailRead, Step, TypeOK, Shown, OneWorker, OneAtATime, jobVars,
                     clientVars, Goto
<1>28. ASSUME NEW w \in Workers, FailCommit(w)
      PROVE  Shown'
  <2>1. pc[w] \in {"again", "failed"} /\ \E s, d : GivesUp(w, s, d)
    BY <1>28 DEF FailCommit
  <2>2. PICK s, d : GivesUp(w, s, d)
    BY <2>1
  <2> QED
    BY <2>1, <2>2, <1>0 DEF GivesUp, Leaves, TypeOK, Shown, OneWorker, OneAtATime,
                            clientVars, Goto, Beat
<1>29. ASSUME NEW j \in Jobs, LapseLease(j)
      PROVE  Shown'
  BY <1>29, <1>0 DEF LapseLease, TypeOK, Shown, OneWorker, OneAtATime, workerVars,
                     clientVars
<1>30. ASSUME NEW j \in Jobs, FallsDue(j)
      PROVE  Shown'
  BY <1>30, <1>0 DEF FallsDue, TypeOK, Shown, OneWorker, OneAtATime, workerVars,
                     clientVars
<1>31. ASSUME NEW c \in Clients, NEW k \in setting.kinds,
             NEW x \in Keys \union {NoKey},
             SubmitLook(c, k, x)
      PROVE  Shown'
  BY <1>31, <1>0 DEF SubmitLook, TypeOK, Shown, OneWorker, OneAtATime, jobVars,
                     workerVars, Ask
<1>32. ASSUME NEW c \in Clients, Insert(c)
      PROVE  Shown'
  BY <1>32, <1>0 DEF Insert, TypeOK, Shown, OneWorker, OneAtATime, workerVars, NewRow,
                     Answered, Free
<1>33. ASSUME NEW c \in Clients, InsertRefused(c)
      PROVE  Shown'
  BY <1>33, <1>0 DEF InsertRefused, TypeOK, Shown, OneWorker, OneAtATime, jobVars,
                     workerVars, Answered
<1>34. ASSUME NEW c \in Clients, NEW j \in Jobs, CancelRead(c, j)
      PROVE  Shown'
  BY <1>34, <1>0 DEF CancelRead, TypeOK, Shown, OneWorker, OneAtATime, jobVars,
                     workerVars, Ask, See
<1>35. ASSUME NEW c \in Clients, NEW j \in Jobs, WriteOffRead(c, j)
      PROVE  Shown'
  BY <1>35, <1>0 DEF WriteOffRead, TypeOK, Shown, OneWorker, OneAtATime, jobVars,
                     workerVars, Ask, See
<1>36. ASSUME NEW c \in Clients, NEW j \in Jobs, Retry(c, j)
      PROVE  Shown'
  BY <1>36, <1>0 DEF Retry, TypeOK, Shown, OneWorker, OneAtATime, workerVars,
                     clientVars, NewRow, Free
<1>37. ASSUME NEW c \in Clients, CancelWrite(c)
      PROVE  Shown'
  BY <1>37, <1>0 DEF CancelWrite, TypeOK, Shown, OneWorker, OneAtATime, workerVars,
                     Written, Answered
<1>38. ASSUME NEW c \in Clients, WriteOffCommit(c)
      PROVE  Shown'
  BY <1>38, <1>0 DEF WriteOffCommit, TypeOK, Shown, OneWorker, OneAtATime, workerVars,
                     Written, Answered
<1>39. CASE UNCHANGED vars
  BY <1>39 DEF vars, jobVars, workerVars, clientVars, TypeOK, Shown, OneWorker,
               OneAtATime
<1> QED
  BY <1>1, <1>2, <1>3, <1>4, <1>5, <1>6, <1>7, <1>8, <1>9, <1>10, <1>11, <1>12, <1>13,
      <1>14, <1>15, <1>16, <1>17, <1>18, <1>19, <1>20, <1>21, <1>22, <1>23, <1>24,
      <1>25, <1>26, <1>27, <1>28, <1>29, <1>30, <1>31, <1>32, <1>33, <1>34, <1>35,
      <1>36, <1>37, <1>38, <1>39 DEF Next, Work, Upset, Requests

-----------------------------------------------------------------------------
(***************************************************************************)
(* Work on evidence fails closed.                                          *)
(***************************************************************************)

\* An import that lost its lease is not tried again by itself.
LEMMA ImportKind == "import_logs" \notin AutoRetry
BY DEF AutoRetry

\* Who ends a job is done with it, and puts it back only where nobody else has it.
LEMMA ClosedEnd ==
    ASSUME TypeOK, Known, Closed, setting' = setting, NEW w \in Workers, pc[w] \in Working,
           NEW s, NEW d, GivesUp(w, s, d),
           s = "retry_wait" => kind[wjob[w]] \in AutoRetry,
           s = "queued" => kind[wjob[w]] \notin AutoRetry
    PROVE  Closed'
<1>1. wjob[w] \in Jobs /\ kind' = kind /\ pc'[w] = "top"
  BY DEF GivesUp, Leaves, Goto, TypeOK, Known
<1>2. \A j \in Jobs : status'[j] = IF j = wjob[w] THEN s ELSE status[j]
  BY DEF GivesUp, TypeOK
<1>3. \A v \in Workers : pc'[v] \in Working => v # w /\ pc[v] \in Working /\ wjob'[v] = wjob[v]
  BY DEF GivesUp, Leaves, Goto, TypeOK, Working
<1>4. \A v \in Workers : pc[v] \in Working => wjob[v] \in Jobs
  BY DEF Known
<1> QED
  BY <1>1, <1>2, <1>3, <1>4 DEF Closed, OneAtATime

\* Recovery queues again only what is safe to repeat.
LEMMA RecoveredClosed ==
    ASSUME TypeOK, Known, Closed, setting' = setting, NEW w \in Workers, NEW snap,
           \A j \in Jobs : snap[j] # NoRow => status[j] # "absent", Recovered(w, snap)
    PROVE  Closed'
<1>1. UNCHANGED <<kind, wjob>>
  BY DEF Recovered
<1>2. \A v \in Workers : pc'[v] \in Working => pc[v] \in Working /\ wjob[v] \in Jobs
  BY DEF Recovered, Goto, TypeOK, Working, Known
<1> QED
  BY <1>1, <1>2, RecoveredRows DEF Closed, OneAtATime

\* Work on evidence fails closed: who claims it finds it queued, which it is not
\* while somebody carries it out.
LEMMA ClosedStep ==
    ASSUME TypeOK, Known, AtWork, Shown, Closed, [Next]_vars
    PROVE  Closed'
<1>0. setting' = setting
  BY NewRows
<1>kind. \A j \in Jobs : status[j] # "absent" => kind'[j] = kind[j]
  BY KindStays
<1>1. ASSUME NEW w \in Workers, Start(w)
      PROVE  Closed'
  BY <1>1, <1>0, <1>kind DEF Start, TypeOK, Known, Closed, OneAtATime, jobVars,
                             clientVars, Goto, Working
<1>2. ASSUME NEW w \in Workers, Started(w)
      PROVE  Closed'
  BY <1>2, <1>0, <1>kind DEF Started, TypeOK, Known, Closed, OneAtATime, jobVars,
                             clientVars, Goto, Beat, Working
<1>3. ASSUME NEW w \in Workers, Signal(w)
      PROVE  Closed'
  BY <1>3, <1>0, <1>kind DEF Signal, TypeOK, Known, Closed, OneAtATime, jobVars,
                             clientVars, Mishap, Working
<1>4. ASSUME NEW w \in Workers, Stop(w)
      PROVE  Closed'
  BY <1>4, <1>0, <1>kind DEF Stop, Ends, TypeOK, Known, Closed, OneAtATime, jobVars,
                             clientVars, Goto, Beat, Working
<1>5. ASSUME NEW w \in Workers, Crash(w)
      PROVE  Closed'
  BY <1>5, <1>0, <1>kind DEF Crash, TypeOK, Known, Closed, OneAtATime, jobVars,
                             clientVars, Goto, Mishap, Working
<1>6. ASSUME NEW w \in Workers, BeatOld(w)
      PROVE  Closed'
  BY <1>6, <1>0, <1>kind DEF BeatOld, TypeOK, Known, Closed, OneAtATime, jobVars,
                             clientVars, Working
<1>7. ASSUME NEW w \in Workers, Recover(w)
      PROVE  Closed'
  <2>1. \A j \in Jobs : Snap(RanOut)[j] # NoRow => status[j] # "absent"
    BY DEF Snap, RanOut, LeaseRanOut, HeldStatus
  <2> QED
    BY <1>7, <1>0, <2>1, RecoveredClosed DEF Recover
<1>8. ASSUME NEW w \in Workers, RecoverRead(w)
      PROVE  Closed'
  BY <1>8, <1>0, <1>kind DEF RecoverRead, TypeOK, Known, Closed, OneAtATime, jobVars,
                             clientVars, Goto, Working
<1>9. ASSUME NEW w \in Workers, RecoverCommit(w)
      PROVE  Closed'
  BY <1>9, <1>0, RecoveredClosed DEF RecoverCommit, Known
<1>10. ASSUME NEW w \in Workers, Claim(w)
      PROVE  Closed'
  BY <1>10, <1>0, <1>kind DEF Claim, Claimed, TypeOK, Known, Closed, OneAtATime,
                              clientVars, Goto, Beat, Working, Oldest, Waiting,
                              CancellableStatus
<1>11. ASSUME NEW w \in Workers, ClaimRead(w)
      PROVE  Closed'
  BY <1>11, <1>0, <1>kind DEF ClaimRead, TypeOK, Known, Closed, OneAtATime, jobVars,
                              clientVars, Goto, Working
<1>12. ASSUME NEW w \in Workers, ClaimCommit(w)
      PROVE  Closed'
  <2>1. PICK j \in Jobs : Claimed(w, j, wsaw[w][j].attempts)
    BY <1>12 DEF ClaimCommit
  <2>2. OneAtATime => \A v \in Workers : pc[v] # "off" => v = w
    BY <1>12 DEF ClaimCommit, AtWork, Shown, OneWorker
  <2>3. \A v \in Workers : v # w => pc'[v] = pc[v]
    BY <2>1 DEF Claimed, Goto, TypeOK
  <2>4. /\ wjob'[w] = j /\ kind' = kind
        /\ \A i \in Jobs : status'[i] = IF i = j THEN "running" ELSE status[i]
    BY <2>1 DEF Claimed, TypeOK
  <2> QED
    BY <2>2, <2>3, <2>4, <1>0 DEF Closed, OneAtATime, Working
<1>13. ASSUME NEW w \in Workers, NothingToClaim(w)
      PROVE  Closed'
  BY <1>13, <1>0, <1>kind DEF NothingToClaim, TypeOK, Known, Closed, OneAtATime,
                              jobVars, clientVars, Goto, Working
<1>14. ASSUME NEW w \in Workers, Carry(w)
      PROVE  Closed'
  BY <1>14, <1>0, <1>kind DEF Carry, TypeOK, Known, Closed, OneAtATime, clientVars,
                              Goto, Working
<1>15. ASSUME NEW w \in Workers, Observe(w)
      PROVE  Closed'
  BY <1>15, <1>0, <1>kind DEF Observe, Step, TypeOK, Known, Closed, OneAtATime, jobVars,
                              clientVars, Goto, Working
<1>16. ASSUME NEW w \in Workers, Persist(w)
      PROVE  Closed'
  BY <1>16, <1>0, <1>kind DEF Persist, TypeOK, Known, Closed, OneAtATime, clientVars,
                              Goto, Working
<1>17. ASSUME NEW w \in Workers, CancelLook(w)
      PROVE  Closed'
  BY <1>17, <1>0, <1>kind DEF CancelLook, Step, TypeOK, Known, Closed, OneAtATime,
                              jobVars, clientVars, Goto, Working
<1>18. ASSUME NEW w \in Workers, CancelRaises(w)
      PROVE  Closed'
  BY <1>18, <1>0, <1>kind DEF CancelRaises, Ends, TypeOK, Known, Closed, OneAtATime,
                              jobVars, clientVars, Goto, Beat, Working
<1>19. ASSUME NEW w \in Workers, CancelCommit(w)
      PROVE  Closed'
  BY <1>19, <1>0, ClosedEnd DEF CancelCommit, Working
<1>20. ASSUME NEW w \in Workers, Boundary(w)
      PROVE  Closed'
  <2>1. UNCHANGED <<status, kind, wjob>>
    BY <1>20 DEF Boundary, Step, jobVars
  <2>2. \A v \in Workers : pc'[v] \in Working => pc[v] \in Working
    BY <1>20 DEF Boundary, Step, Goto, TypeOK, Working
  <2> QED
    BY <2>1, <2>2, <1>0 DEF Closed, OneAtATime
<1>21. ASSUME NEW w \in Workers, ImportEnds(w)
      PROVE  Closed'
  BY <1>21, <1>0, <1>kind DEF ImportEnds, TypeOK, Known, Closed, OneAtATime, clientVars,
                              Goto, Working
<1>22. ASSUME NEW w \in Workers, Release(w)
      PROVE  Closed'
  BY <1>22, <1>0, ClosedEnd, ImportKind DEF Release, AtWork, Working
<1>23. ASSUME NEW w \in Workers, LeaseLost(w)
      PROVE  Closed'
  BY <1>23, <1>0, <1>kind DEF LeaseLost, Leaves, TypeOK, Known, Closed, OneAtATime,
                              jobVars, clientVars, Goto, Beat, Working
<1>24. ASSUME NEW w \in Workers, CompleteRead(w)
      PROVE  Closed'
  BY <1>24, <1>0, <1>kind DEF CompleteRead, Step, TypeOK, Known, Closed, OneAtATime,
                              jobVars, clientVars, Goto, Working
<1>25. ASSUME NEW w \in Workers, CompleteCommit(w)
      PROVE  Closed'
  BY <1>25, <1>0, ClosedEnd DEF CompleteCommit, Working
<1>26. ASSUME NEW w \in Workers, Fail(w)
      PROVE  Closed'
  BY <1>26, <1>0, <1>kind DEF Fail, TypeOK, Known, Closed, OneAtATime, jobVars,
                              clientVars, Goto, Mishap, Working
<1>27. ASSUME NEW w \in Workers, FailRead(w)
      PROVE  Closed'
  BY <1>27, <1>0, <1>kind DEF FailRead, Step, TypeOK, Known, Closed, OneAtATime,
                              jobVars, clientVars, Goto, Working
<1>28. ASSUME NEW w \in Workers, FailCommit(w)
      PROVE  Closed'
  BY <1>28, <1>0, ClosedEnd DEF FailCommit, AtWork, Working
<1>29. ASSUME NEW j \in Jobs, LapseLease(j)
      PROVE  Closed'
  BY <1>29, <1>0, <1>kind DEF LapseLease, TypeOK, Known, Closed, OneAtATime, workerVars,
                              clientVars
<1>30. ASSUME NEW j \in Jobs, FallsDue(j)
      PROVE  Closed'
  BY <1>30, <1>0, <1>kind DEF FallsDue, TypeOK, Known, Closed, OneAtATime, workerVars,
                              clientVars
<1>31. ASSUME NEW c \in Clients, NEW k \in setting.kinds,
             NEW x \in Keys \union {NoKey},
             SubmitLook(c, k, x)
      PROVE  Closed'
  BY <1>31, <1>0, <1>kind DEF SubmitLook, TypeOK, Known, Closed, OneAtATime, jobVars,
                              workerVars, Ask
<1>32. ASSUME NEW c \in Clients, Insert(c)
      PROVE  Closed'
  BY <1>32, <1>0, <1>kind DEF Insert, TypeOK, Known, Closed, OneAtATime, workerVars,
                              NewRow, Answered, Free
<1>33. ASSUME NEW c \in Clients, InsertRefused(c)
      PROVE  Closed'
  BY <1>33, <1>0, <1>kind DEF InsertRefused, TypeOK, Known, Closed, OneAtATime, jobVars,
                              workerVars, Answered
<1>34. ASSUME NEW c \in Clients, NEW j \in Jobs, CancelRead(c, j)
      PROVE  Closed'
  BY <1>34, <1>0, <1>kind DEF CancelRead, TypeOK, Known, Closed, OneAtATime, jobVars,
                              workerVars, Ask, See
<1>35. ASSUME NEW c \in Clients, NEW j \in Jobs, WriteOffRead(c, j)
      PROVE  Closed'
  BY <1>35, <1>0, <1>kind DEF WriteOffRead, TypeOK, Known, Closed, OneAtATime, jobVars,
                              workerVars, Ask, See
<1>36. ASSUME NEW c \in Clients, NEW j \in Jobs, Retry(c, j)
      PROVE  Closed'
  BY <1>36, <1>0, <1>kind DEF Retry, TypeOK, Known, Closed, OneAtATime, workerVars,
                              clientVars, NewRow, Free
<1>37. ASSUME NEW c \in Clients, CancelWrite(c)
      PROVE  Closed'
  <2>1. UNCHANGED <<kind, pc, wjob>>
    BY <1>37 DEF CancelWrite, Written, workerVars
  <2>2. \A j \in Jobs : status'[j] = status[j] \/ status'[j] \in {"cancelled", "cancel_requested"}
    BY <1>37 DEF CancelWrite, Written, TypeOK, Known
  <2>3. \A w \in Workers : pc[w] \in Working => wjob[w] \in Jobs
    BY DEF Known
  <2> QED
    BY <2>1, <2>2, <2>3, <1>0 DEF Closed, OneAtATime
<1>38. ASSUME NEW c \in Clients, WriteOffCommit(c)
      PROVE  Closed'
  BY <1>38, <1>0, <1>kind DEF WriteOffCommit, TypeOK, Known, Closed, OneAtATime,
                              workerVars, Written, Answered
<1>39. CASE UNCHANGED vars
  BY <1>39 DEF vars, jobVars, workerVars, clientVars, TypeOK, Known, Closed, OneAtATime
<1> QED
  BY <1>1, <1>2, <1>3, <1>4, <1>5, <1>6, <1>7, <1>8, <1>9, <1>10, <1>11, <1>12, <1>13,
      <1>14, <1>15, <1>16, <1>17, <1>18, <1>19, <1>20, <1>21, <1>22, <1>23, <1>24,
      <1>25, <1>26, <1>27, <1>28, <1>29, <1>30, <1>31, <1>32, <1>33, <1>34, <1>35,
      <1>36, <1>37, <1>38, <1>39 DEF Next, Work, Upset, Requests

-----------------------------------------------------------------------------
(***************************************************************************)
(* A detection run is carried out once.                                    *)
(***************************************************************************)

\* Who ends a job that is not to be queued leaves it carried out as often as it was.
LEMMA CarriedEnd ==
    ASSUME TypeOK, Known, CarriedOnce, setting' = setting, NEW w \in Workers, pc[w] \in Working,
           NEW s, NEW d, GivesUp(w, s, d), s = "queued" => kind[wjob[w]] = "import_logs"
    PROVE  CarriedOnce'
<1>1. wjob[w] \in Jobs /\ UNCHANGED <<kind, done, wsaw>> /\ pc'[w] = "top"
  BY DEF GivesUp, Leaves, Goto, TypeOK, Known
<1>2. \A j \in Jobs : status'[j] = IF j = wjob[w] THEN s ELSE status[j]
  BY DEF GivesUp, TypeOK
<1>3. \A v \in Workers : v # w => pc'[v] = pc[v] /\ wjob'[v] = wjob[v]
  BY DEF GivesUp, Leaves, Goto, TypeOK
<1> QED
  BY <1>1, <1>2, <1>3 DEF CarriedOnce, OneAtATime

\* Recovery queues no detection run again.
LEMMA RecoveredCarried ==
    ASSUME TypeOK, CarriedOnce, setting' = setting, NEW w \in Workers, NEW snap,
           \A j \in Jobs : snap[j] # NoRow => status[j] # "absent", Recovered(w, snap)
    PROVE  CarriedOnce'
<1>1. UNCHANGED <<kind, wjob, done>>
  BY DEF Recovered
<1>2. \A v \in Workers : pc'[v] \in {"work", "claiming"} =>
         pc'[v] = pc[v] /\ wsaw'[v] = wsaw[v]
  BY DEF Recovered, Goto, TypeOK
<1> QED
  BY <1>1, <1>2, RecoveredRows DEF CarriedOnce, OneAtATime

\* A detection run is carried out by the one who claimed it, and is queued by nobody
\* afterwards.
LEMMA CarriedStep ==
    ASSUME TypeOK, Known, AtWork, Shown, Closed, CarriedOnce, [Next]_vars
    PROVE  CarriedOnce'
<1>0. setting' = setting /\ \A j \in Jobs : done[j] \in Nat
  BY NewRows DEF TypeOK
<1>1. ASSUME NEW w \in Workers, Start(w)
      PROVE  CarriedOnce'
  BY <1>1, <1>0 DEF Start, TypeOK, CarriedOnce, OneAtATime, jobVars, clientVars, Goto
<1>2. ASSUME NEW w \in Workers, Started(w)
      PROVE  CarriedOnce'
  BY <1>2, <1>0 DEF Started, TypeOK, CarriedOnce, OneAtATime, jobVars, clientVars, Goto,
                    Beat
<1>3. ASSUME NEW w \in Workers, Signal(w)
      PROVE  CarriedOnce'
  BY <1>3, <1>0 DEF Signal, TypeOK, CarriedOnce, OneAtATime, jobVars, clientVars, Mishap
<1>4. ASSUME NEW w \in Workers, Stop(w)
      PROVE  CarriedOnce'
  BY <1>4, <1>0 DEF Stop, Ends, TypeOK, CarriedOnce, OneAtATime, jobVars, clientVars,
                    Goto, Beat, NoSnap
<1>5. ASSUME NEW w \in Workers, Crash(w)
      PROVE  CarriedOnce'
  BY <1>5, <1>0 DEF Crash, TypeOK, CarriedOnce, OneAtATime, jobVars, clientVars, Goto,
                    Mishap, NoSnap
<1>6. ASSUME NEW w \in Workers, BeatOld(w)
      PROVE  CarriedOnce'
  BY <1>6, <1>0 DEF BeatOld, TypeOK, CarriedOnce, OneAtATime, jobVars, clientVars
<1>7. ASSUME NEW w \in Workers, Recover(w)
      PROVE  CarriedOnce'
  <2>1. \A j \in Jobs : Snap(RanOut)[j] # NoRow => status[j] # "absent"
    BY DEF Snap, RanOut, LeaseRanOut, HeldStatus
  <2> QED
    BY <1>7, <1>0, <2>1, RecoveredCarried DEF Recover
<1>8. ASSUME NEW w \in Workers, RecoverRead(w)
      PROVE  CarriedOnce'
  BY <1>8, <1>0 DEF RecoverRead, TypeOK, CarriedOnce, OneAtATime, jobVars, clientVars,
                    Goto
<1>9. ASSUME NEW w \in Workers, RecoverCommit(w)
      PROVE  CarriedOnce'
  BY <1>9, <1>0, RecoveredCarried DEF RecoverCommit, Known
<1>10. ASSUME NEW w \in Workers, Claim(w)
      PROVE  CarriedOnce'
  <2>1. PICK j \in Jobs : /\ \E n : Claimed(w, j, n)
                             /\ (OneAtATime /\ kind[j] = "run_detection" => done[j] = 0)
    BY <1>10 DEF Claim, Oldest, Waiting, CancellableStatus, Closed, AutoRetry,
                 CarriedOnce
  <2>2. /\ \A v \in Workers : v # w => pc'[v] = pc[v] /\ wjob'[v] = wjob[v] /\ wsaw'[v] = wsaw[v]
        /\ pc'[w] = "work" /\ wjob'[w] = j
        /\ \A i \in Jobs : status'[i] = IF i = j THEN "running" ELSE status[i]
        /\ UNCHANGED <<kind, done>>
    BY <2>1 DEF Claimed, Goto, TypeOK
  <2> QED
    BY <2>1, <2>2, <1>0 DEF CarriedOnce, OneAtATime
<1>11. ASSUME NEW w \in Workers, ClaimRead(w)
      PROVE  CarriedOnce'
  <2>1. /\ UNCHANGED <<status, kind, done, wjob>>
        /\ \A v \in Workers : v # w => pc'[v] = pc[v] /\ wsaw'[v] = wsaw[v]
        /\ pc'[w] = "claiming"
    BY <1>11 DEF ClaimRead, Goto, TypeOK, jobVars
  <2>2. PICK j \in Jobs : Oldest(j) /\ wsaw'[w] = Snap({j})
    BY <1>11 DEF ClaimRead, TypeOK
  <2>3. \A i \in Jobs : wsaw'[w][i] # NoRow => i = j
    BY <2>2 DEF Snap
  <2>4. OneAtATime /\ kind[j] = "run_detection" => done[j] = 0
    BY <2>2 DEF Oldest, Waiting, CancellableStatus, Closed, AutoRetry, CarriedOnce
  <2> QED
    BY <2>1, <2>3, <2>4, <1>0 DEF CarriedOnce, OneAtATime
<1>12. ASSUME NEW w \in Workers, ClaimCommit(w)
      PROVE  CarriedOnce'
  <2>1. PICK j \in Jobs : /\ \E n : Claimed(w, j, n)
                             /\ (OneAtATime /\ kind[j] = "run_detection" => done[j] = 0)
    BY <1>12 DEF ClaimCommit, CarriedOnce
  <2>2. /\ \A v \in Workers : v # w => pc'[v] = pc[v] /\ wjob'[v] = wjob[v] /\ wsaw'[v] = wsaw[v]
        /\ pc'[w] = "work" /\ wjob'[w] = j
        /\ \A i \in Jobs : status'[i] = IF i = j THEN "running" ELSE status[i]
        /\ UNCHANGED <<kind, done>>
    BY <2>1 DEF Claimed, Goto, TypeOK
  <2> QED
    BY <2>1, <2>2, <1>0 DEF CarriedOnce, OneAtATime
<1>13. ASSUME NEW w \in Workers, NothingToClaim(w)
      PROVE  CarriedOnce'
  BY <1>13, <1>0 DEF NothingToClaim, TypeOK, CarriedOnce, OneAtATime, jobVars,
                     clientVars, Goto
<1>14. ASSUME NEW w \in Workers, Carry(w)
      PROVE  CarriedOnce'
  <2>1. wjob[w] \in Jobs /\ pc[w] \in Working /\ pc[w] = "work"
    BY <1>14 DEF Carry, Known, Working
  <2>2. /\ UNCHANGED <<status, kind, wjob, wsaw>>
        /\ \A v \in Workers : pc'[v] = IF v = w THEN "end" ELSE pc[v]
        /\ \A j \in Jobs : j # wjob[w] => done'[j] = done[j]
        /\ kind[wjob[w]] = "run_detection" => done'[wjob[w]] = done[wjob[w]] + 1
    BY <1>14, <2>1 DEF Carry, Done, Goto, TypeOK
  <2>3. ASSUME OneAtATime, kind[wjob[w]] = "run_detection"
        PROVE  /\ done[wjob[w]] = 0 /\ status[wjob[w]] # "queued"
               /\ \A v \in Workers : v # w => /\ ~(pc[v] = "work" /\ wjob[v] = wjob[w])
                                             /\ pc[v] # "claiming"
    <3>1. done[wjob[w]] = 0
      BY <2>1, <2>3 DEF CarriedOnce
    <3>2. /\ status[wjob[w]] # "queued"
          /\ \A v \in Workers : v # w => ~(pc[v] = "work" /\ wjob[v] = wjob[w])
      BY <2>1, <2>3 DEF Closed, AutoRetry, Working
    <3>3. \A v \in Workers : v # w => pc[v] # "claiming"
      BY <2>1, <2>3 DEF AtWork, Shown, OneWorker
    <3> QED
      BY <3>1, <3>2, <3>3
  <2> QED
    BY <2>1, <2>2, <2>3, <1>0 DEF CarriedOnce, OneAtATime
<1>15. ASSUME NEW w \in Workers, Observe(w)
      PROVE  CarriedOnce'
  BY <1>15, <1>0 DEF Observe, Step, TypeOK, CarriedOnce, OneAtATime, jobVars,
                     clientVars, Goto
<1>16. ASSUME NEW w \in Workers, Persist(w)
      PROVE  CarriedOnce'
  <2>1. kind[wjob[w]] # "run_detection" /\ wjob[w] \in Jobs
    BY <1>16 DEF Persist, AtWork, Known, Working
  <2>2. /\ UNCHANGED <<status, kind, wjob, wsaw>>
        /\ \A v \in Workers : pc'[v] \in {"work", "claiming"} => pc'[v] = pc[v]
        /\ \A j \in Jobs : j # wjob[w] => done'[j] = done[j]
    BY <1>16 DEF Persist, Done, Goto, TypeOK
  <2> QED
    BY <2>1, <2>2, <1>0 DEF CarriedOnce, OneAtATime
<1>17. ASSUME NEW w \in Workers, CancelLook(w)
      PROVE  CarriedOnce'
  BY <1>17, <1>0 DEF CancelLook, Step, TypeOK, CarriedOnce, OneAtATime, jobVars,
                     clientVars, Goto
<1>18. ASSUME NEW w \in Workers, CancelRaises(w)
      PROVE  CarriedOnce'
  BY <1>18, <1>0 DEF CancelRaises, Ends, TypeOK, CarriedOnce, OneAtATime, jobVars,
                     clientVars, Goto, Beat, NoSnap
<1>19. ASSUME NEW w \in Workers, CancelCommit(w)
      PROVE  CarriedOnce'
  BY <1>19, <1>0, CarriedEnd DEF CancelCommit, Working
<1>20. ASSUME NEW w \in Workers, Boundary(w)
      PROVE  CarriedOnce'
  <2>1. UNCHANGED <<status, kind, done, wjob, wsaw>>
    BY <1>20 DEF Boundary, Step, jobVars
  <2>2. \A v \in Workers : pc'[v] \in {"work", "claiming"} => pc'[v] = pc[v]
    BY <1>20 DEF Boundary, Step, Goto, TypeOK
  <2> QED
    BY <2>1, <2>2, <1>0 DEF CarriedOnce, OneAtATime
<1>21. ASSUME NEW w \in Workers, ImportEnds(w)
      PROVE  CarriedOnce'
  <2>1. kind[wjob[w]] # "run_detection" /\ wjob[w] \in Jobs
    BY <1>21 DEF ImportEnds, AtWork, Known, Working, Is
  <2>2. /\ UNCHANGED <<status, kind, wjob, wsaw>>
        /\ \A v \in Workers : pc'[v] \in {"work", "claiming"} => pc'[v] = pc[v]
        /\ \A j \in Jobs : j # wjob[w] => done'[j] = done[j]
    BY <1>21 DEF ImportEnds, Done, Goto, TypeOK
  <2> QED
    BY <2>1, <2>2, <1>0 DEF CarriedOnce, OneAtATime
<1>22. ASSUME NEW w \in Workers, Release(w)
      PROVE  CarriedOnce'
  BY <1>22, <1>0, CarriedEnd DEF Release, AtWork, Working
<1>23. ASSUME NEW w \in Workers, LeaseLost(w)
      PROVE  CarriedOnce'
  BY <1>23, <1>0 DEF LeaseLost, Leaves, TypeOK, CarriedOnce, OneAtATime, jobVars,
                     clientVars, Goto, Beat
<1>24. ASSUME NEW w \in Workers, CompleteRead(w)
      PROVE  CarriedOnce'
  BY <1>24, <1>0 DEF CompleteRead, Step, TypeOK, CarriedOnce, OneAtATime, jobVars,
                     clientVars, Goto
<1>25. ASSUME NEW w \in Workers, CompleteCommit(w)
      PROVE  CarriedOnce'
  BY <1>25, <1>0, CarriedEnd DEF CompleteCommit, Working
<1>26. ASSUME NEW w \in Workers, Fail(w)
      PROVE  CarriedOnce'
  BY <1>26, <1>0 DEF Fail, TypeOK, CarriedOnce, OneAtATime, jobVars, clientVars, Goto,
                     Mishap
<1>27. ASSUME NEW w \in Workers, FailRead(w)
      PROVE  CarriedOnce'
  BY <1>27, <1>0 DEF FailRead, Step, TypeOK, CarriedOnce, OneAtATime, jobVars,
                     clientVars, Goto
<1>28. ASSUME NEW w \in Workers, FailCommit(w)
      PROVE  CarriedOnce'
  BY <1>28, <1>0, CarriedEnd DEF FailCommit, Working
<1>29. ASSUME NEW j \in Jobs, LapseLease(j)
      PROVE  CarriedOnce'
  BY <1>29, <1>0 DEF LapseLease, TypeOK, CarriedOnce, OneAtATime, workerVars, clientVars
<1>30. ASSUME NEW j \in Jobs, FallsDue(j)
      PROVE  CarriedOnce'
  BY <1>30, <1>0 DEF FallsDue, TypeOK, CarriedOnce, OneAtATime, workerVars, clientVars
<1>31. ASSUME NEW c \in Clients, NEW k \in setting.kinds,
             NEW x \in Keys \union {NoKey},
             SubmitLook(c, k, x)
      PROVE  CarriedOnce'
  BY <1>31, <1>0 DEF SubmitLook, TypeOK, CarriedOnce, OneAtATime, jobVars, workerVars,
                     Ask
<1>32. ASSUME NEW c \in Clients, Insert(c)
      PROVE  CarriedOnce'
  <2>1. PICK j \in Jobs : \E k, x : Free(j) /\ NewRow(j, k, x)
    BY <1>32 DEF Insert
  <2>2. /\ status[j] = "absent" /\ done[j] = 0 /\ UNCHANGED <<done, pc, wjob, wsaw>>
        /\ \A i \in Jobs : i # j => status'[i] = status[i] /\ kind'[i] = kind[i]
    BY <2>1 DEF Free, NewRow, Known, workerVars, TypeOK
  <2> QED
    BY <2>2, <1>0 DEF CarriedOnce, OneAtATime
<1>33. ASSUME NEW c \in Clients, InsertRefused(c)
      PROVE  CarriedOnce'
  BY <1>33, <1>0 DEF InsertRefused, TypeOK, CarriedOnce, OneAtATime, jobVars,
                     workerVars, Answered
<1>34. ASSUME NEW c \in Clients, NEW j \in Jobs, CancelRead(c, j)
      PROVE  CarriedOnce'
  BY <1>34, <1>0 DEF CancelRead, TypeOK, CarriedOnce, OneAtATime, jobVars, workerVars,
                     Ask, See
<1>35. ASSUME NEW c \in Clients, NEW j \in Jobs, WriteOffRead(c, j)
      PROVE  CarriedOnce'
  BY <1>35, <1>0 DEF WriteOffRead, TypeOK, CarriedOnce, OneAtATime, jobVars, workerVars,
                     Ask, See
<1>36. ASSUME NEW c \in Clients, NEW j \in Jobs, Retry(c, j)
      PROVE  CarriedOnce'
  <2>1. PICK n \in Jobs : \E k, x : Free(n) /\ NewRow(n, k, x)
    BY <1>36 DEF Retry
  <2>2. /\ status[n] = "absent" /\ done[n] = 0 /\ UNCHANGED <<done, pc, wjob, wsaw>>
        /\ \A i \in Jobs : i # n => status'[i] = status[i] /\ kind'[i] = kind[i]
    BY <2>1 DEF Free, NewRow, Known, workerVars, TypeOK
  <2> QED
    BY <2>2, <1>0 DEF CarriedOnce, OneAtATime
<1>37. ASSUME NEW c \in Clients, CancelWrite(c)
      PROVE  CarriedOnce'
  <2>1. UNCHANGED <<kind, pc, wjob, wsaw, done>>
    BY <1>37 DEF CancelWrite, Written, workerVars
  <2>2. \A j \in Jobs : status'[j] = status[j] \/ status'[j] \in {"cancelled", "cancel_requested"}
    BY <1>37 DEF CancelWrite, Written, TypeOK, Known
  <2> QED
    BY <2>1, <2>2, <1>0 DEF CarriedOnce, OneAtATime
<1>38. ASSUME NEW c \in Clients, WriteOffCommit(c)
      PROVE  CarriedOnce'
  BY <1>38, <1>0 DEF WriteOffCommit, TypeOK, CarriedOnce, OneAtATime, workerVars,
                     Written, Answered
<1>39. CASE UNCHANGED vars
  BY <1>39 DEF vars, jobVars, workerVars, clientVars, TypeOK, CarriedOnce, OneAtATime
<1> QED
  BY <1>1, <1>2, <1>3, <1>4, <1>5, <1>6, <1>7, <1>8, <1>9, <1>10, <1>11, <1>12, <1>13,
      <1>14, <1>15, <1>16, <1>17, <1>18, <1>19, <1>20, <1>21, <1>22, <1>23, <1>24,
      <1>25, <1>26, <1>27, <1>28, <1>29, <1>30, <1>31, <1>32, <1>33, <1>34, <1>35,
      <1>36, <1>37, <1>38, <1>39 DEF Next, Work, Upset, Requests

-----------------------------------------------------------------------------
(***************************************************************************)
(* The invariant, and what it says.                                        *)
(***************************************************************************)

LEMMA InitHolds == Init => IInv
<1> SUFFICES ASSUME Init PROVE IInv
  OBVIOUS
<1>1. TypeOK
  BY Members DEF Init, TypeOK, JobKind, Status, LeaseState, Pc, NoToken, Row
<1>2. OneJobPerKey
  BY DEF Init, OneJobPerKey
<1>3. Known
  BY DEF Init, Known, NoSnap, Working
<1>4. AtWork /\ Shown
  BY DEF Init, AtWork, Shown, OneWorker
<1>5. Closed /\ CarriedOnce
  BY DEF Init, Closed, CarriedOnce, Working
<1> QED
  BY <1>1, <1>2, <1>3, <1>4, <1>5 DEF IInv

\* The inductive invariant of the queue, its workers and their guard.
THEOREM Invariance == Spec => []IInv
<1>1. Init => IInv
  BY InitHolds
<1>2. IInv /\ [Next]_vars => IInv'
  <2> SUFFICES ASSUME IInv, [Next]_vars PROVE IInv'
    OBVIOUS
  <2>1. TypeOK' /\ OneJobPerKey' /\ Known'
    BY TypeStep, KeyStep, KnownStep DEF IInv
  <2>2. AtWork' /\ Shown'
    BY AtWorkStep, ShownStep DEF IInv
  <2>3. Closed' /\ CarriedOnce'
    BY ClosedStep, CarriedStep DEF IInv
  <2> QED
    BY <2>1, <2>2, <2>3 DEF IInv
<1> QED
  BY <1>1, <1>2, PTL DEF Spec

\* Every state of the queue is well typed.
THEOREM TypeCorrect == Spec => []TypeOK
<1>1. IInv => TypeOK
  BY DEF IInv
<1> QED
  BY <1>1, Invariance, PTL

\* An idempotency key makes one job, for requests at any moment: enqueue_job
\* looks for the key without a lock, and the index decides.
THEOREM KeysMakeOneJob == Spec => []OneJobPerKey
<1>1. IInv => OneJobPerKey
  BY DEF IInv
<1> QED
  BY <1>1, Invariance, PTL

\* enforce_worker_concurrency keeps SQLite single-worker, for workers that are
\* not started at the same moment and whose jobs do not outlast their heartbeats.
THEOREM SingleWorker == Spec => []OneWorker
<1>1. IInv => OneWorker
  BY DEF IInv, Shown, OneWorker
<1> QED
  BY <1>1, Invariance, PTL

\* recover_expired_leases: work on evidence is in the hands of one worker, and a
\* detection run is carried out at most once, whatever leases, crashes and
\* requests do.
THEOREM FailsClosed == Spec => []EvidenceFailsClosed
<1>1. IInv => EvidenceFailsClosed
  <2> SUFFICES ASSUME IInv, OneAtATime
      PROVE  /\ \A v, w \in Workers :
                   v # w /\ pc[v] \in Working /\ pc[w] \in Working /\ wjob[v] = wjob[w]
                   => kind[wjob[w]] \in AutoRetry
             /\ \A j \in Jobs : kind[j] = "run_detection" => done[j] <= 1
    BY DEF EvidenceFailsClosed
  <2> QED
    BY DEF IInv, Closed, CarriedOnce
<1> QED
  BY <1>1, Invariance, PTL

-----------------------------------------------------------------------------
(***************************************************************************)
(* The limit on imports.                                                   *)
(***************************************************************************)

Pending == {c \in Clients : cpc[c] = "insert" /\ creq[c].kind = "import_logs"}

\* Requests and workers where nobody cancels, and no lease runs out under a
\* worker that may be told to stop.
Asks == \A c \in Clients : /\ cpc[c] \in {"idle", "insert"}
                           /\ cpc[c] = "insert" => c \in setting.clients

Unstopped == setting.mishaps = 0 => \A w \in Workers : ~stop[w] /\ pc[w] # "releasing"

Holds(w) == pc[w] \in Working =>
            status[wjob[w]] = "running" /\ token[wjob[w]] = w /\ lease[wjob[w]] = "live"

Held == "late_lease" \notin setting.faults => \A w \in Workers : Holds(w)

\* What SQLite's worker is about to claim still waits.
ToClaim == \A w \in Workers, j \in Jobs :
              pc[w] = "claiming" /\ wsaw[w][j] # NoRow => status[j] \in CancellableStatus

Calm == Undisturbed => Asks /\ Unstopped /\ Held /\ ToClaim

\* The jobs there are and the ones that requests are about to make.
WithinLimit ==
    Undisturbed => Cardinality(OpenImports) + Cardinality(Pending)
                       <= MaxQueued + Cardinality(setting.clients) - 1

\* A worker's step leaves the requests alone and makes no job.
LEMMA WorkerFrame ==
    ASSUME NEW w \in Workers, Work(w) \/ Start(w) \/ BeatOld(w) \/ Upset(w)
    PROVE  UNCHANGED <<setting, kind, key, cpc, creq>>
<1> DEFINE G == UNCHANGED <<setting, kind, key, cpc, creq>>
<1>1. ASSUME Started(w) \/ Stop(w) \/ Recover(w) \/ RecoverRead(w) \/ RecoverCommit(w)
      PROVE  G
  BY <1>1 DEF Started, Stop, Recover, RecoverRead, RecoverCommit, Recovered, jobVars, clientVars
<1>2. ASSUME Claim(w) \/ ClaimRead(w) \/ ClaimCommit(w) \/ NothingToClaim(w)
      PROVE  G
  BY <1>2 DEF Claim, ClaimRead, ClaimCommit, NothingToClaim, Claimed, jobVars, clientVars
<1>3. ASSUME Carry(w) \/ Observe(w) \/ Persist(w) \/ Boundary(w) \/ ImportEnds(w)
      PROVE  G
  BY <1>3 DEF Carry, Observe, Persist, Boundary, ImportEnds, Step, jobVars, clientVars
<1>4. ASSUME \/ CancelLook(w) \/ CancelRaises(w) \/ LeaseLost(w) \/ CompleteRead(w) \/ FailRead(w)
             \/ Start(w) \/ BeatOld(w) \/ Signal(w) \/ Crash(w) \/ Fail(w)
      PROVE  G
  BY <1>4 DEF CancelLook, CancelRaises, LeaseLost, CompleteRead, FailRead, Start, BeatOld,
              Signal, Crash, Fail, Step, jobVars, clientVars
<1>5. ASSUME CancelCommit(w) \/ Release(w) \/ CompleteCommit(w) \/ FailCommit(w)
      PROVE  G
  BY <1>5 DEF CancelCommit, Release, CompleteCommit, FailCommit, GivesUp, clientVars
<1> QED
  BY <1>1, <1>2, <1>3, <1>4, <1>5 DEF Work, Upset

\* Where nobody cancels, a request's step makes a job or leaves the rows alone,
\* and never touches a worker.
LEMMA RequestFrame ==
    ASSUME NEW c \in Clients, Requests(c), Asks
    PROVE  /\ UNCHANGED <<setting, workerVars, token, lease>>
           /\ \/ UNCHANGED <<kind, status>>
              \/ \E j \in Jobs : \E k, x :
                    /\ Free(j) /\ NewRow(j, k, x)
                    /\ k = "import_logs" => Insert(c) /\ creq[c].kind = k
<1> DEFINE G == /\ UNCHANGED <<setting, workerVars, token, lease>>
                /\ \/ UNCHANGED <<kind, status>>
                   \/ \E j \in Jobs : \E k, x :
                         /\ Free(j) /\ NewRow(j, k, x)
                         /\ k = "import_logs" => Insert(c) /\ creq[c].kind = k
<1>1. ASSUME NEW k, NEW x, SubmitLook(c, k, x)
      PROVE  G
  BY <1>1 DEF SubmitLook, Ask, jobVars
<1>2. ASSUME InsertRefused(c)
      PROVE  G
  BY <1>2 DEF InsertRefused, jobVars
<1>3. ASSUME NEW j \in Jobs, CancelRead(c, j) \/ WriteOffRead(c, j)
      PROVE  G
  BY <1>3 DEF CancelRead, WriteOffRead, Ask, jobVars
<1>4. ASSUME Insert(c)
      PROVE  G
  <2>1. PICK j \in Jobs : Free(j) /\ NewRow(j, creq[c].kind, creq[c].key)
    BY <1>4 DEF Insert
  <2>2. UNCHANGED <<setting, workerVars, token, lease>>
    BY <2>1 DEF NewRow
  <2> QED
    BY <1>4, <2>1, <2>2
<1>5. ASSUME NEW j \in Jobs, Retry(c, j)
      PROVE  G
  <2>1. PICK i \in Jobs : Free(i) /\ NewRow(i, kind[j], NoKey)
    BY <1>5 DEF Retry
  <2>2. UNCHANGED <<setting, workerVars, token, lease>>
    BY <2>1 DEF NewRow
  <2> QED
    BY <1>5, <2>1, <2>2 DEF Retry
<1>6. ~CancelWrite(c) /\ ~WriteOffCommit(c)
  BY DEF Asks, CancelWrite, WriteOffCommit
<1> QED
  BY <1>1, <1>2, <1>3, <1>4, <1>5, <1>6 DEF Requests

\* So the requests stay what they are.
LEMMA AsksStep ==
    ASSUME TypeOK, Asks, Undisturbed, [Next]_vars
    PROVE  Asks'
<1>0. setting' = setting
  BY NewRows
<1>1. ASSUME NEW w \in Workers, Work(w) \/ Start(w) \/ BeatOld(w) \/ Upset(w)
      PROVE  Asks'
  BY <1>1, WorkerFrame DEF Asks
<1>2. ASSUME NEW j \in Jobs, LapseLease(j) \/ FallsDue(j)
      PROVE  Asks'
  BY <1>2 DEF LapseLease, FallsDue, clientVars, Asks
<1>3. ASSUME NEW c \in Clients, Requests(c)
      PROVE  Asks'
  <2>1. ASSUME NEW k, NEW x, SubmitLook(c, k, x)
        PROVE  Asks'
    BY <2>1, <1>0 DEF SubmitLook, Ask, Asks, TypeOK
  <2>2. ASSUME Insert(c) \/ InsertRefused(c)
        PROVE  Asks'
    BY <2>2, <1>0 DEF Insert, InsertRefused, Answered, Asks, TypeOK
  <2>3. \A j \in Jobs : ~CancelRead(c, j) /\ ~WriteOffRead(c, j)
    BY DEF Undisturbed, CancelRead, WriteOffRead
  <2>4. ASSUME NEW j \in Jobs, Retry(c, j)
        PROVE  Asks'
    BY <2>4, <1>0 DEF Retry, clientVars, Asks
  <2>5. ~CancelWrite(c) /\ ~WriteOffCommit(c)
    BY DEF Asks, CancelWrite, WriteOffCommit
  <2> QED
    BY <1>3, <2>1, <2>2, <2>3, <2>4, <2>5 DEF Requests
<1>4. CASE UNCHANGED vars
  BY <1>4, <1>0 DEF vars, clientVars, Asks
<1> QED
  BY <1>1, <1>2, <1>3, <1>4 DEF Next

\* Without signals no worker is told to stop, and none releases its job.
LEMMA UnstoppedStep ==
    ASSUME TypeOK, Asks, Unstopped, [Next]_vars
    PROVE  Unstopped'
<1>0. setting' = setting /\ mishaps \in Nat
  BY NewRows DEF TypeOK
<1> SUFFICES ASSUME setting.mishaps = 0, NEW v \in Workers
             PROVE  ~stop'[v] /\ pc'[v] # "releasing"
  BY <1>0 DEF Unstopped
<1> DEFINE G == ~stop'[v] /\ pc'[v] # "releasing"
<1>v. ~stop[v] /\ pc[v] # "releasing"
  BY DEF Unstopped
<1>n. DOMAIN pc = Workers /\ DOMAIN stop = Workers
  BY DEF TypeOK
<1>1. ASSUME NEW w \in Workers, Started(w) \/ Stop(w) \/ Recover(w) \/ RecoverRead(w) \/ RecoverCommit(w)
      PROVE  G
  BY <1>1, <1>v, <1>n DEF Started, Stop, Ends, Goto, Recover, RecoverRead, RecoverCommit, Recovered
<1>2. ASSUME NEW w \in Workers, Claim(w) \/ ClaimRead(w) \/ ClaimCommit(w) \/ NothingToClaim(w)
      PROVE  G
  BY <1>2, <1>v, <1>n DEF Claim, ClaimRead, ClaimCommit, NothingToClaim, Claimed, Goto
<1>3. ASSUME NEW w \in Workers, Carry(w) \/ Observe(w) \/ Persist(w) \/ ImportEnds(w)
      PROVE  G
  BY <1>3, <1>v, <1>n DEF Carry, Observe, Persist, ImportEnds, Step, Goto
<1>4. ASSUME NEW w \in Workers, Boundary(w)
      PROVE  G
  <2>1. ~stop[w]
    BY DEF Unstopped
  <2> QED
    BY <1>4, <1>v, <1>n, <2>1 DEF Boundary, Step, Goto
<1>5. ASSUME NEW w \in Workers,
             \/ CancelLook(w) \/ CancelRaises(w) \/ LeaseLost(w) \/ CompleteRead(w) \/ FailRead(w)
             \/ Start(w) \/ BeatOld(w)
      PROVE  G
  BY <1>5, <1>v, <1>n DEF CancelLook, CancelRaises, Ends, LeaseLost, Leaves, CompleteRead,
                          FailRead, Start, BeatOld, Step, Goto
<1>6. ASSUME NEW w \in Workers, CancelCommit(w) \/ Release(w) \/ CompleteCommit(w) \/ FailCommit(w)
      PROVE  G
  BY <1>6, <1>v, <1>n DEF CancelCommit, Release, CompleteCommit, FailCommit, GivesUp, Leaves, Goto
<1>7. \A w \in Workers : ~Upset(w)
  BY <1>0 DEF Upset, Signal, Crash, Fail, Mishap
<1>8. ASSUME NEW j \in Jobs, LapseLease(j) \/ FallsDue(j)
      PROVE  G
  BY <1>8, <1>v DEF LapseLease, FallsDue, workerVars
<1>9. ASSUME NEW c \in Clients, Requests(c)
      PROVE  G
  BY <1>9, <1>v, RequestFrame DEF workerVars
<1>10. CASE UNCHANGED vars
  BY <1>10, <1>v DEF vars, workerVars
<1> QED
  BY <1>1, <1>2, <1>3, <1>4, <1>5, <1>6, <1>7, <1>8, <1>9, <1>10 DEF Next, Work

\* While no lease runs out under its worker, a worker at work has its job: it is
\* running, its lease is live, and nobody takes it.
LEMMA HeldStep ==
    ASSUME IInv, Asks, Held, OneAtATime, "late_lease" \notin setting.faults,
           [Next]_vars, NEW v \in Workers
    PROVE  Holds(v)'
<1>0. setting' = setting /\ Holds(v)
  BY NewRows DEF Held
<1>d. /\ DOMAIN pc = Workers /\ DOMAIN wjob = Workers
      /\ DOMAIN status = Jobs /\ DOMAIN token = Jobs /\ DOMAIN lease = Jobs
  BY DEF IInv, TypeOK
<1>k. pc[v] \in Working => wjob[v] \in Jobs
  BY DEF IInv, Known
<1>s. setting.engine = "sqlite" /\ pc[v] # "off" => \A w \in Workers : pc[w] # "off" => w = v
  BY DEF IInv, Shown, OneWorker
<1>1. ASSUME NEW w \in Workers, Started(w) \/ Stop(w) \/ RecoverRead(w) \/ ClaimRead(w) \/ NothingToClaim(w)
      PROVE  Holds(v)'
  <2>1. CASE Started(w)
    BY <1>0, <1>d, <2>1 DEF Started, Goto, jobVars, Holds, Working
  <2>2. CASE Stop(w)
    BY <1>0, <1>d, <2>2 DEF Stop, Ends, Goto, jobVars, Holds, Working
  <2>3. CASE RecoverRead(w)
    BY <1>0, <1>d, <2>3 DEF RecoverRead, Goto, jobVars, Holds, Working
  <2>4. CASE ClaimRead(w) \/ NothingToClaim(w)
    BY <1>0, <1>d, <2>4 DEF ClaimRead, NothingToClaim, Goto, jobVars, Holds, Working
  <2> QED
    BY <1>1, <2>1, <2>2, <2>3, <2>4
<1>2. ASSUME NEW w \in Workers, Recover(w)
      PROVE  Holds(v)'
  <2>1. \A j \in Jobs : Snap(RanOut)[j] # NoRow => lease[j] = "expired"
    BY DEF Snap, RanOut, LeaseRanOut
  <2>2. Recovered(w, Snap(RanOut))
    BY <1>2 DEF Recover
  <2>3. pc'[v] \in Working => pc[v] \in Working /\ wjob'[v] = wjob[v]
    BY <2>2, <1>d DEF Recovered, Goto, Working
  <2>4. \A j \in Jobs : lease[j] = "live" =>
            status'[j] = status[j] /\ token'[j] = token[j] /\ lease'[j] = lease[j]
    BY <2>1, <2>2 DEF Recovered
  <2> QED
    BY <2>3, <2>4, <1>0, <1>k DEF Holds
<1>3. ASSUME NEW w \in Workers, RecoverCommit(w)
      PROVE  Holds(v)'
  <2>1. pc[w] = "recovering" /\ setting.engine = "sqlite"
    BY <1>3 DEF RecoverCommit, IInv, AtWork
  <2>2. pc'[v] \in Working => pc[v] \in Working /\ v # w
    BY <1>3, <1>d DEF RecoverCommit, Recovered, Goto, Working
  <2>3. pc[v] \in Working => pc[v] # "off"
    BY DEF Working
  <2> QED
    BY <2>1, <2>2, <2>3, <1>s DEF Holds
<1>4. ASSUME NEW w \in Workers, NEW j \in Jobs, NEW tries,
             Claimed(w, j, tries), v # w => pc[v] \notin Working \/ status[j] # "running"
      PROVE  Holds(v)'
  <2>1. CASE v = w
    BY <1>4, <1>d, <2>1 DEF Claimed, Goto, Holds
  <2>2. CASE v # w
    BY <1>4, <1>d, <1>0, <1>k, <2>2 DEF Claimed, Goto, Holds
  <2> QED
    BY <2>1, <2>2
<1>5. ASSUME NEW w \in Workers, Claim(w)
      PROVE  Holds(v)'
  <2>1. PICK j \in Jobs : Oldest(j) /\ Claimed(w, j, attempts[j])
    BY <1>5 DEF Claim
  <2>2. status[j] # "running"
    BY <2>1 DEF Oldest, Waiting, CancellableStatus
  <2> QED
    BY <1>4, <2>1, <2>2
<1>6. ASSUME NEW w \in Workers, ClaimCommit(w)
      PROVE  Holds(v)'
  <2>1. PICK j \in Jobs : Claimed(w, j, wsaw[w][j].attempts)
    BY <1>6 DEF ClaimCommit
  <2>2. pc[w] = "claiming" /\ setting.engine = "sqlite"
    BY <1>6 DEF ClaimCommit, IInv, AtWork
  <2>3. v # w => pc[v] \notin Working
    BY <2>2, <1>s DEF Working
  <2> QED
    BY <1>4, <2>1, <2>3
<1>7. ASSUME NEW w \in Workers,
             \/ Carry(w) \/ Persist(w) \/ Observe(w) \/ ImportEnds(w)
             \/ CancelLook(w) \/ CompleteRead(w) \/ FailRead(w) \/ Fail(w)
      PROVE  Holds(v)'
  <2>1. pc[w] \in Working /\ UNCHANGED <<status, token, lease, wjob>>
    BY <1>7 DEF Carry, Persist, Observe, ImportEnds, CancelLook, CompleteRead, FailRead,
                Fail, Step, jobVars, Working
  <2>2. \A u \in Workers : u # w => pc'[u] = pc[u]
    BY <1>7, <1>d DEF Carry, Persist, Observe, ImportEnds, CancelLook, CompleteRead,
                      FailRead, Fail, Step, Goto
  <2> QED
    BY <2>1, <2>2, <1>0 DEF Holds
<1>8. ASSUME NEW w \in Workers, Boundary(w)
      PROVE  Holds(v)'
  <2>1. pc[w] \in Working /\ UNCHANGED <<status, token, wjob>>
    BY <1>8 DEF Boundary, Step, jobVars, Working
  <2>2. \A u \in Workers : u # w => pc'[u] = pc[u]
    BY <1>8, <1>d DEF Boundary, Step, Goto
  <2>3. \A j \in Jobs : lease[j] = "live" => lease'[j] = "live"
    BY <1>8, <1>d DEF Boundary, Step, jobVars
  <2> QED
    BY <2>1, <2>2, <2>3, <1>0, <1>k DEF Holds
<1>9. ASSUME NEW w \in Workers, CancelRaises(w) \/ LeaseLost(w) \/ Start(w) \/ BeatOld(w) \/ Signal(w) \/ Crash(w)
      PROVE  Holds(v)'
  <2>1. UNCHANGED <<status, token, lease>>
    BY <1>9 DEF CancelRaises, LeaseLost, Start, BeatOld, Signal, Crash, jobVars
  <2>2. pc'[v] \in Working => pc[v] \in Working /\ wjob'[v] = wjob[v]
    BY <1>9, <1>d DEF CancelRaises, Ends, LeaseLost, Leaves, Start, BeatOld, Signal, Crash,
                      Goto, Working
  <2> QED
    BY <2>1, <2>2, <1>0 DEF Holds
<1>10. ASSUME NEW w \in Workers, NEW s, NEW d, pc[w] \in Working, GivesUp(w, s, d)
       PROVE  Holds(v)'
  <2>1. pc'[v] \in Working => v # w /\ pc[v] \in Working /\ wjob'[v] = wjob[v]
    BY <1>10, <1>d DEF GivesUp, Leaves, Goto, Working
  <2>2. Holds(w) /\ wjob[w] \in Jobs
    BY <1>10 DEF Held, IInv, Known
  <2>3. pc[v] \in Working /\ v # w => wjob[v] # wjob[w]
    BY <1>0, <1>10, <2>2 DEF Holds
  <2>4. \A j \in Jobs : j # wjob[w] =>
            status'[j] = status[j] /\ token'[j] = token[j] /\ lease'[j] = lease[j]
    BY <1>10, <1>d DEF GivesUp
  <2> QED
    BY <2>1, <2>3, <2>4, <1>0, <1>k DEF Holds
<1>11. ASSUME NEW w \in Workers, CancelCommit(w) \/ Release(w) \/ CompleteCommit(w) \/ FailCommit(w)
       PROVE  Holds(v)'
  <2>1. pc[w] \in Working /\ \E s, d : GivesUp(w, s, d)
    BY <1>11 DEF CancelCommit, Release, CompleteCommit, FailCommit, Working
  <2> QED
    BY <1>10, <2>1
<1>12. ASSUME NEW j \in Jobs, LapseLease(j) \/ FallsDue(j)
       PROVE  Holds(v)'
  <2>1. CASE LapseLease(j)
    <3>1. UNCHANGED <<status, token, pc, wjob>> /\ ~InHand(j) /\ lease' = [lease EXCEPT ![j] = "expired"]
      BY <2>1 DEF LapseLease, workerVars
    <3>2. pc[v] \in Working => wjob[v] # j
      BY <1>0, <3>1 DEF Holds, InHand
    <3> QED
      BY <3>1, <3>2, <1>0, <1>d, <1>k DEF Holds
  <2>2. CASE FallsDue(j)
    BY <2>2, <1>0 DEF FallsDue, workerVars, Holds
  <2> QED
    BY <1>12, <2>1, <2>2
<1>13. ASSUME NEW c \in Clients, Requests(c)
       PROVE  Holds(v)'
  <2>1. UNCHANGED <<pc, wjob, token, lease>>
    BY <1>13, RequestFrame DEF workerVars
  <2>2. \A j \in Jobs : status[j] = "running" => status'[j] = "running"
    <3>1. ASSUME NEW j \in Jobs, NEW k, NEW x, Free(j), NewRow(j, k, x)
          PROVE  \A i \in Jobs : status[i] = "running" => status'[i] = "running"
      BY <3>1, <1>d DEF Free, NewRow
    <3> QED
      BY <1>13, RequestFrame, <3>1
  <2> QED
    BY <2>1, <2>2, <1>0, <1>k DEF Holds
<1>14. CASE UNCHANGED vars
  BY <1>14, <1>0 DEF vars, jobVars, workerVars, Holds
<1> QED
  BY <1>1, <1>2, <1>3, <1>5, <1>6, <1>7, <1>8, <1>9, <1>11, <1>12, <1>13, <1>14
     DEF Next, Work, Upset

\* On SQLite no other worker ends what this one is about to claim.
LEMMA ToClaimStep ==
    ASSUME IInv, Asks, ToClaim, OneAtATime, [Next]_vars
    PROVE  ToClaim'
<1> SUFFICES ASSUME NEW v \in Workers, NEW i \in Jobs,
                    pc'[v] = "claiming", wsaw'[v][i] # NoRow
             PROVE  status'[i] \in CancellableStatus
  BY DEF ToClaim
<1> DEFINE G == status'[i] \in CancellableStatus
<1>v. pc[v] = "claiming" /\ wsaw[v][i] # NoRow => status[i] \in CancellableStatus
  BY DEF ToClaim
<1>d. DOMAIN pc = Workers /\ DOMAIN wsaw = Workers /\ DOMAIN status = Jobs
  BY DEF IInv, TypeOK
<1>s. pc[v] = "claiming" => \A w \in Workers : pc[w] # "off" => w = v
  BY DEF IInv, Shown, OneWorker, AtWork
<1>1. ASSUME NEW w \in Workers, ClaimRead(w)
      PROVE  G
  <2>1. CASE v = w
    <3>1. PICK j \in Jobs : Oldest(j) /\ wsaw' = [wsaw EXCEPT ![w] = Snap({j})]
      BY <1>1 DEF ClaimRead
    <3>2. i = j
      BY <3>1, <2>1, <1>d DEF Snap
    <3> QED
      BY <1>1, <3>1, <3>2 DEF ClaimRead, jobVars, Oldest, Waiting
  <2>2. CASE v # w
    BY <1>1, <2>2, <1>v, <1>d DEF ClaimRead, Goto, jobVars
  <2> QED
    BY <2>1, <2>2
<1>2. ASSUME NEW w \in Workers,
             \/ Started(w) \/ Stop(w) \/ Recover(w) \/ RecoverRead(w) \/ RecoverCommit(w)
             \/ Claim(w) \/ ClaimCommit(w) \/ NothingToClaim(w)
      PROVE  G
  <2>1. pc[w] # "off" /\ pc'[w] # "claiming"
    BY <1>2, <1>d DEF Started, Stop, Ends, Recover, RecoverRead, RecoverCommit, Recovered,
                      Claim, ClaimCommit, Claimed, NothingToClaim, Goto
  <2>2. pc'[v] = pc[v] \/ v = w
    <3>1. CASE Started(w) \/ Stop(w) \/ Recover(w) \/ RecoverRead(w) \/ RecoverCommit(w)
      BY <1>d, <3>1 DEF Started, Stop, Ends, Recover, RecoverRead, RecoverCommit, Recovered, Goto
    <3>2. CASE Claim(w) \/ ClaimCommit(w) \/ NothingToClaim(w)
      BY <1>d, <3>2 DEF Claim, ClaimCommit, Claimed, NothingToClaim, Goto
    <3> QED
      BY <1>2, <3>1, <3>2
  <2> QED
    BY <2>1, <2>2, <1>s
<1>3. ASSUME NEW w \in Workers,
             \/ Carry(w) \/ Persist(w) \/ Observe(w) \/ ImportEnds(w) \/ Boundary(w)
             \/ CancelLook(w) \/ CancelRaises(w) \/ LeaseLost(w) \/ CompleteRead(w)
             \/ FailRead(w) \/ Fail(w)
      PROVE  G
  <2>1. pc[w] # "off" /\ pc'[w] # "claiming"
    BY <1>3, <1>d DEF Carry, Persist, Observe, ImportEnds, Boundary, CancelLook, CancelRaises,
                      Ends, LeaseLost, Leaves, CompleteRead, FailRead, Fail, Step, Goto
  <2>2. pc'[v] = pc[v] \/ v = w
    BY <1>3, <1>d DEF Carry, Persist, Observe, ImportEnds, Boundary, CancelLook, CancelRaises,
                      Ends, LeaseLost, Leaves, CompleteRead, FailRead, Fail, Step, Goto
  <2> QED
    BY <2>1, <2>2, <1>s
<1>4. ASSUME NEW w \in Workers, CancelCommit(w) \/ Release(w) \/ CompleteCommit(w) \/ FailCommit(w)
      PROVE  G
  <2>1. pc[w] # "off" /\ pc'[w] # "claiming"
    BY <1>4, <1>d DEF CancelCommit, Release, CompleteCommit, FailCommit, GivesUp, Leaves, Goto
  <2>2. pc'[v] = pc[v] \/ v = w
    BY <1>4, <1>d DEF CancelCommit, Release, CompleteCommit, FailCommit, GivesUp, Leaves, Goto
  <2> QED
    BY <2>1, <2>2, <1>s
<1>5. ASSUME NEW w \in Workers, Start(w) \/ BeatOld(w) \/ Signal(w) \/ Crash(w)
      PROVE  G
  <2>1. status' = status
    BY <1>5 DEF Start, BeatOld, Signal, Crash, jobVars
  <2>2. pc[v] = "claiming" /\ wsaw'[v] = wsaw[v]
    BY <1>5, <1>d DEF Start, BeatOld, Signal, Crash, Goto, NoSnap
  <2> QED
    BY <2>1, <2>2, <1>v
<1>6. ASSUME NEW j \in Jobs, LapseLease(j) \/ FallsDue(j)
      PROVE  G
  BY <1>6, <1>v DEF LapseLease, FallsDue, workerVars
<1>7. ASSUME NEW c \in Clients, Requests(c)
      PROVE  G
  <2>1. pc' = pc /\ wsaw' = wsaw
    BY <1>7, RequestFrame DEF workerVars
  <2>2. ASSUME NEW j \in Jobs, NEW k, NEW x, Free(j), NewRow(j, k, x)
        PROVE  status[i] \in CancellableStatus => status'[i] \in CancellableStatus
    BY <2>2, <1>d DEF Free, NewRow, CancellableStatus
  <2> QED
    BY <1>7, <2>1, <2>2, <1>v, RequestFrame
<1>8. CASE UNCHANGED vars
  BY <1>8, <1>v DEF vars, jobVars, workerVars
<1> QED
  BY <1>1, <1>2, <1>3, <1>4, <1>5, <1>6, <1>7, <1>8 DEF Next, Work, Upset

\* Nothing but an insert adds to the imports that wait or are held.
LEMMA OpenStays ==
    ASSUME IInv, Calm, Undisturbed, [Next]_vars
    PROVE  \/ OpenImports' \subseteq OpenImports
           \/ \E c \in Clients, j \in Jobs :
                 /\ Insert(c) /\ creq[c].kind = "import_logs"
                 /\ OpenImports' \subseteq OpenImports \union {j}
<1> DEFINE Open(j) == /\ kind[j] = "import_logs"
                      /\ \/ status[j] \in CancellableStatus
                         \/ status[j] \in HeldStatus /\ token[j] # NoToken
           G == \A j \in Jobs : Open(j)' => Open(j)
<1>g. G => OpenImports' \subseteq OpenImports
  BY DEF OpenImports
<1>d. /\ DOMAIN status = Jobs /\ DOMAIN token = Jobs
      /\ \A w \in Workers : w # NoToken
  BY QueueAssumption DEF IInv, TypeOK
<1>u. UNCHANGED <<kind, status, token>> => G
  OBVIOUS
<1>1. ASSUME NEW w \in Workers, NEW snap, Recovered(w, snap)
      PROVE  G
  <2> TAKE j \in Jobs
  <2> HAVE Open(j)'
  <2>1. kind'[j] = kind[j] /\ kind[j] = "import_logs"
    BY <1>1 DEF Recovered
  <2>2. snap[j] # NoRow => status'[j] \in {"cancelled", "failed"}
    BY <1>1, <2>1, ImportKind DEF Recovered, RecoverOutcome, MayTryAgain
  <2>3. snap[j] = NoRow => status'[j] = status[j] /\ token'[j] = token[j]
    BY <1>1 DEF Recovered
  <2> QED
    BY <2>1, <2>2, <2>3 DEF CancellableStatus, HeldStatus
<1>2. ASSUME NEW w \in Workers, NEW j \in Jobs, NEW tries, Claimed(w, j, tries),
             status[j] \in CancellableStatus
      PROVE  G
  BY <1>2, <1>d DEF Claimed
<1>3. ASSUME NEW w \in Workers, Recover(w) \/ RecoverCommit(w)
      PROVE  G
  BY <1>1, <1>3 DEF Recover, RecoverCommit
<1>4. ASSUME NEW w \in Workers, Claim(w)
      PROVE  G
  BY <1>2, <1>4 DEF Claim, Oldest, Waiting
<1>5. ASSUME NEW w \in Workers, ClaimCommit(w)
      PROVE  G
  BY <1>2, <1>5 DEF ClaimCommit, Calm, ToClaim
<1>6. ASSUME NEW w \in Workers,
             \/ Started(w) \/ Stop(w) \/ RecoverRead(w) \/ ClaimRead(w) \/ NothingToClaim(w)
             \/ Carry(w) \/ Persist(w) \/ Observe(w) \/ ImportEnds(w) \/ Boundary(w)
             \/ CancelLook(w) \/ CancelRaises(w) \/ LeaseLost(w) \/ CompleteRead(w)
             \/ FailRead(w) \/ Start(w) \/ BeatOld(w) \/ Upset(w)
      PROVE  G
  <2>1. UNCHANGED <<kind, status, token>>
    BY <1>6 DEF Started, Stop, RecoverRead, ClaimRead, NothingToClaim, Carry, Persist, Observe,
                ImportEnds, Boundary, CancelLook, CancelRaises, LeaseLost, CompleteRead,
                FailRead, Start, BeatOld, Upset, Signal, Crash, Fail, Step, jobVars
  <2> QED
    BY <2>1, <1>u
<1>7. ASSUME NEW w \in Workers, NEW s, NEW d, GivesUp(w, s, d), wjob[w] \in Jobs,
             Open(wjob[w]) \/ kind[wjob[w]] # "import_logs" \/ s \in TerminalStatus
      PROVE  G
  <2> TAKE j \in Jobs
  <2> HAVE Open(j)'
  <2>1. kind' = kind /\ \A i \in Jobs : i # wjob[w] => status'[i] = status[i] /\ token'[i] = token[i]
    BY <1>7, <1>d DEF GivesUp
  <2>2. status'[wjob[w]] = s
    BY <1>7, <1>d DEF GivesUp
  <2>3. s \in TerminalStatus => j # wjob[w]
    BY <2>2 DEF TerminalStatus, CancellableStatus, HeldStatus
  <2> QED
    BY <2>1, <2>3, <1>7
<1>8. ASSUME NEW w \in Workers, CancelCommit(w) \/ CompleteCommit(w)
      PROVE  G
  <2>1. wjob[w] \in Jobs /\ \E s \in TerminalStatus : \E d : GivesUp(w, s, d)
    BY <1>8 DEF CancelCommit, CompleteCommit, IInv, Known, Working, TerminalStatus
  <2> QED
    BY <1>7, <2>1
<1>9. ASSUME NEW w \in Workers, FailCommit(w)
      PROVE  G
  <2>1. CASE pc[w] = "again"
    <3>1. kind[wjob[w]] # "import_logs" /\ wjob[w] \in Jobs
      BY <2>1, ImportKind DEF IInv, AtWork, Known, Working
    <3> QED
      BY <1>9, <2>1, <3>1, <1>7 DEF FailCommit
  <2>2. CASE pc[w] = "failed"
    <3>1. wjob[w] \in Jobs /\ GivesUp(w, "failed", TRUE) /\ "failed" \in TerminalStatus
      BY <1>9, <2>2 DEF FailCommit, IInv, Known, Working, TerminalStatus
    <3> QED
      BY <3>1, <1>7
  <2> QED
    BY <1>9, <2>1, <2>2 DEF FailCommit
<1>10. ASSUME NEW w \in Workers, Release(w)
       PROVE  G
  <2>1. wjob[w] \in Jobs /\ kind[wjob[w]] = "import_logs" /\ pc[w] = "releasing"
    BY <1>10 DEF Release, IInv, AtWork, Known, Working
  <2>2. setting.mishaps # 0
    BY <2>1 DEF Calm, Unstopped
  <2>3. Holds(w)
    BY <2>2 DEF Calm, Held, Undisturbed
  <2>4. status[wjob[w]] = "running" /\ token[wjob[w]] = w
    BY <2>1, <2>3 DEF Holds, Working
  <2>5. Open(wjob[w])
    BY <2>1, <2>4, <1>d DEF HeldStatus
  <2> QED
    BY <1>10, <1>7, <2>1, <2>5 DEF Release
<1>11. ASSUME NEW j \in Jobs, LapseLease(j) \/ FallsDue(j)
       PROVE  G
  BY <1>11, <1>u DEF LapseLease, FallsDue
<1>12. ASSUME NEW c \in Clients, Requests(c)
       PROVE  \/ G
              \/ \E j \in Jobs : /\ Insert(c) /\ creq[c].kind = "import_logs"
                                 /\ \A i \in Jobs : Open(i)' => Open(i) \/ i = j
  <2>0. Asks /\ token' = token
    BY <1>12, RequestFrame DEF Calm
  <2>1. CASE UNCHANGED <<kind, status>>
    BY <2>0, <2>1, <1>u
  <2>2. ASSUME NEW j \in Jobs, NEW k, NEW x, Free(j), NewRow(j, k, x)
        PROVE  /\ \A i \in Jobs : i # j => kind'[i] = kind[i] /\ status'[i] = status[i]
               /\ kind'[j] = k
    BY <2>2 DEF NewRow, IInv, TypeOK
  <2>3. ASSUME NEW j \in Jobs, NEW k, NEW x, Free(j), NewRow(j, k, x),
               k = "import_logs" => Insert(c) /\ creq[c].kind = k
        PROVE  \/ G
               \/ /\ Insert(c) /\ creq[c].kind = "import_logs"
                  /\ \A i \in Jobs : Open(i)' => Open(i) \/ i = j
    BY <2>0, <2>2, <2>3
  <2> QED
    BY <1>12, <2>0, <2>1, <2>3, RequestFrame
<1>13. ASSUME UNCHANGED vars
       PROVE  G
  <2>1. UNCHANGED <<kind, status, token>>
    BY <1>13 DEF vars, jobVars
  <2> QED
    BY <2>1, <1>u
<1>14. G \/ \E c \in Clients, j \in Jobs :
               /\ Insert(c) /\ creq[c].kind = "import_logs"
               /\ \A i \in Jobs : Open(i)' => Open(i) \/ i = j
  <2> HIDE DEF G, Open
  <2>1. ASSUME NEW w \in Workers, Work(w) \/ Start(w) \/ BeatOld(w) \/ Upset(w)
        PROVE  G
    BY <2>1, <1>3, <1>4, <1>5, <1>6, <1>8, <1>9, <1>10 DEF Work
  <2> QED
    BY <2>1, <1>11, <1>12, <1>13 DEF Next
<1>15. ASSUME NEW j \in Jobs, \A i \in Jobs : Open(i)' => Open(i) \/ i = j
       PROVE  OpenImports' \subseteq OpenImports \union {j}
  BY <1>15 DEF OpenImports
<1> QED
  BY <1>14, <1>15, <1>g

\* The jobs that are counted and the requests are finitely many.
LEMMA LimitFinite ==
    ASSUME TypeOK, Asks
    PROVE  /\ IsFiniteSet(OpenImports) /\ Cardinality(OpenImports) \in Nat
           /\ IsFiniteSet(Pending) /\ Cardinality(Pending) \in Nat
           /\ IsFiniteSet(setting.clients) /\ Cardinality(setting.clients) \in Nat
           /\ Pending \subseteq setting.clients
<1>1. MaxJobs \in Nat /\ IsFiniteSet(Clients) /\ setting.clients \subseteq Clients
  BY QueueAssumption DEF TypeOK, Setting
<1>2. IsFiniteSet(Jobs)
  BY <1>1, FS_Interval DEF Jobs
<1>3. OpenImports \subseteq Jobs /\ Pending \subseteq Clients /\ Pending \subseteq setting.clients
  BY DEF OpenImports, Pending, Asks
<1> QED
  BY <1>1, <1>2, <1>3, FS_Subset, FS_CardinalityType

\* The limit holds of the jobs there are and those about to be made.
LEMMA LimitStep ==
    ASSUME IInv, TypeOK', Calm, Calm', WithinLimit, [Next]_vars
    PROVE  WithinLimit'
<1>0. setting' = setting /\ (Undisturbed' <=> Undisturbed)
  BY NewRows DEF Undisturbed, OneAtATime
<1> SUFFICES ASSUME Undisturbed
             PROVE  Cardinality(OpenImports') + Cardinality(Pending')
                        <= MaxQueued + Cardinality(setting.clients) - 1
  BY <1>0 DEF WithinLimit
<1>a. Asks /\ Asks' /\ TypeOK /\ Undisturbed'
  BY <1>0 DEF Calm, IInv
<1>f. /\ IsFiniteSet(OpenImports) /\ Cardinality(OpenImports) \in Nat
      /\ IsFiniteSet(Pending) /\ Cardinality(Pending) \in Nat
      /\ IsFiniteSet(setting.clients) /\ Cardinality(setting.clients) \in Nat
  BY <1>a, LimitFinite
<1>g. /\ IsFiniteSet(OpenImports') /\ Cardinality(OpenImports') \in Nat
      /\ IsFiniteSet(Pending') /\ Cardinality(Pending') \in Nat
      /\ Pending' \subseteq setting.clients
  <2>1. OpenImports' \subseteq Jobs /\ Pending' \subseteq Clients
    BY DEF OpenImports, Pending
  <2>2. Pending' \subseteq setting.clients
    BY <1>0, <1>a DEF Pending, Asks
  <2>3. IsFiniteSet(Jobs) /\ IsFiniteSet(Clients)
    BY QueueAssumption, FS_Interval DEF Jobs
  <2> QED
    BY <2>1, <2>2, <2>3, FS_Subset, FS_CardinalityType
<1>l. /\ Cardinality(OpenImports) + Cardinality(Pending)
             <= MaxQueued + Cardinality(setting.clients) - 1
      /\ MaxQueued \in Nat
  BY QueueAssumption DEF WithinLimit
<1>d. DOMAIN cpc = Clients /\ DOMAIN creq = Clients
  BY <1>a DEF TypeOK
<1>1. ASSUME OpenImports' \subseteq OpenImports, Pending' \subseteq Pending
      PROVE  Cardinality(OpenImports') + Cardinality(Pending')
                 <= MaxQueued + Cardinality(setting.clients) - 1
  <2>1. Cardinality(OpenImports') <= Cardinality(OpenImports)
    BY <1>1, <1>f, FS_Subset
  <2>2. Cardinality(Pending') <= Cardinality(Pending)
    BY <1>1, <1>f, FS_Subset
  <2> QED
    BY <2>1, <2>2, <1>f, <1>g, <1>l
<1>2. ASSUME NEW c \in Clients, NEW j \in Jobs, Insert(c), creq[c].kind = "import_logs",
             OpenImports' \subseteq OpenImports \union {j}
      PROVE  Cardinality(OpenImports') + Cardinality(Pending')
                 <= MaxQueued + Cardinality(setting.clients) - 1
  <2>1. c \in Pending /\ Pending' \subseteq Pending \ {c}
    BY <1>2, <1>d DEF Insert, Answered, Pending
  <2>2. /\ IsFiniteSet(OpenImports \union {j})
        /\ Cardinality(OpenImports \union {j}) <= Cardinality(OpenImports) + 1
        /\ Cardinality(OpenImports \union {j}) \in Nat
    <3>1. /\ IsFiniteSet(OpenImports \union {j})
          /\ Cardinality(OpenImports \union {j})
                 = IF j \in OpenImports THEN Cardinality(OpenImports)
                                        ELSE Cardinality(OpenImports) + 1
      BY <1>f, FS_AddElement
    <3> QED
      BY <3>1, <1>f
  <2>3. Cardinality(OpenImports') <= Cardinality(OpenImports) + 1
    <3>1. Cardinality(OpenImports') <= Cardinality(OpenImports \union {j})
      BY <1>2, <2>2, FS_Subset
    <3> QED
      BY <3>1, <2>2, <1>f, <1>g
  <2>4. /\ IsFiniteSet(Pending \ {c})
        /\ Cardinality(Pending \ {c}) = Cardinality(Pending) - 1
    BY <2>1, <1>f, FS_RemoveElement
  <2>5. Cardinality(Pending') <= Cardinality(Pending) - 1
    BY <2>1, <2>4, FS_Subset
  <2> QED
    BY <2>3, <2>5, <1>f, <1>g, <1>l
<1>3. ASSUME NEW c \in Clients, NEW x, SubmitLook(c, "import_logs", x)
      PROVE  Cardinality(OpenImports') + Cardinality(Pending')
                 <= MaxQueued + Cardinality(setting.clients) - 1
  <2> DEFINE A == {j \in Jobs : kind[j] = "import_logs" /\ status[j] \in ActiveStatus}
  <2>1. Cardinality(A) < MaxQueued
    BY <1>3 DEF SubmitLook, ActiveImports
  <2>2. OpenImports' \subseteq A
    BY <1>3 DEF SubmitLook, Ask, jobVars, OpenImports, CancellableStatus, HeldStatus, ActiveStatus
  <2>3. IsFiniteSet(A) /\ Cardinality(A) \in Nat
    <3>1. A \subseteq Jobs /\ IsFiniteSet(Jobs)
      BY QueueAssumption, FS_Interval DEF Jobs
    <3> QED
      BY <3>1, FS_Subset, FS_CardinalityType
  <2>4. Cardinality(OpenImports') <= Cardinality(A)
    BY <2>2, <2>3, FS_Subset
  <2>5. Cardinality(Pending') <= Cardinality(setting.clients)
    BY <1>f, <1>g, FS_Subset
  <2> HIDE DEF A
  <2> QED
    BY <2>1, <2>3, <2>4, <2>5, <1>f, <1>g, <1>l
<1>4. \/ Pending' \subseteq Pending
      \/ \E c \in Clients : \E x : SubmitLook(c, "import_logs", x)
  <2>1. ASSUME NEW w \in Workers, Work(w) \/ Start(w) \/ BeatOld(w) \/ Upset(w)
        PROVE  Pending' \subseteq Pending
    BY <2>1, WorkerFrame DEF Pending
  <2>2. ASSUME NEW j \in Jobs, LapseLease(j) \/ FallsDue(j)
        PROVE  Pending' \subseteq Pending
    BY <2>2 DEF LapseLease, FallsDue, clientVars, Pending
  <2>3. ASSUME NEW c \in Clients, NEW k, NEW x, SubmitLook(c, k, x), k # "import_logs"
        PROVE  Pending' \subseteq Pending
    BY <2>3, <1>d DEF SubmitLook, Ask, Pending, NoReq
  <2>4. ASSUME NEW c \in Clients, Insert(c) \/ InsertRefused(c) \/ CancelWrite(c) \/ WriteOffCommit(c)
        PROVE  Pending' \subseteq Pending
    BY <2>4, <1>d DEF Insert, InsertRefused, CancelWrite, WriteOffCommit, Written, Answered, Pending
  <2>5. ASSUME NEW c \in Clients, NEW j \in Jobs, CancelRead(c, j) \/ WriteOffRead(c, j) \/ Retry(c, j)
        PROVE  Pending' \subseteq Pending
    BY <2>5, <1>d DEF CancelRead, WriteOffRead, Retry, Ask, clientVars, Pending
  <2>6. ASSUME UNCHANGED vars
        PROVE  Pending' \subseteq Pending
    BY <2>6 DEF vars, clientVars, Pending
  <2>7. ASSUME NEW c \in Clients, Requests(c)
        PROVE  \/ Pending' \subseteq Pending
               \/ \E x : SubmitLook(c, "import_logs", x)
    BY <2>7, <2>3, <2>4, <2>5 DEF Requests
  <2> QED
    BY <2>1, <2>2, <2>6, <2>7 DEF Next
<1>5. ASSUME NEW c \in Clients, Insert(c)
      PROVE  Pending' \subseteq Pending
  BY <1>5, <1>d DEF Insert, Answered, Pending
<1> QED
  BY <1>1, <1>2, <1>3, <1>4, OpenStays

\* Where nobody cancels, workers keep apart and no lease runs out under a worker
\* that may be told to stop, every step keeps all of it.
THEOREM LimitKeeps == Spec => [](IInv /\ Calm /\ WithinLimit)
<1>1. Init => Calm /\ WithinLimit
  <2> SUFFICES ASSUME Init PROVE Calm /\ WithinLimit
    OBVIOUS
  <2>1. Asks /\ Unstopped /\ Held /\ ToClaim
    BY DEF Init, Asks, Unstopped, Held, Holds, ToClaim, Working
  <2>2. OpenImports = {} /\ Pending = {}
    BY DEF Init, OpenImports, Pending
  <2>3. Cardinality({}) = 0
    BY FS_EmptySet
  <2>4. setting \in Setting /\ IsFiniteSet(setting.clients)
    BY QueueAssumption, FS_Subset DEF Init, Setting
  <2>5. Cardinality(setting.clients) \in Nat
    BY <2>4, FS_CardinalityType
  <2>6. MaxQueued \in Nat \ {0}
    BY QueueAssumption
  <2> QED
    BY <2>1, <2>2, <2>3, <2>5, <2>6 DEF Calm, WithinLimit
<1>2. IInv /\ IInv' /\ Calm /\ WithinLimit /\ [Next]_vars => Calm' /\ WithinLimit'
  <2> SUFFICES ASSUME IInv, IInv', Calm, WithinLimit, [Next]_vars
               PROVE  Calm' /\ WithinLimit'
    OBVIOUS
  <2>1. setting' = setting /\ (Undisturbed' <=> Undisturbed)
    BY NewRows DEF Undisturbed, OneAtATime
  <2>2. Calm'
    <3> SUFFICES ASSUME Undisturbed PROVE Asks' /\ Unstopped' /\ Held' /\ ToClaim'
      BY <2>1 DEF Calm
    <3>1. Asks /\ Unstopped /\ Held /\ ToClaim /\ OneAtATime /\ TypeOK
      BY DEF Calm, Undisturbed, IInv
    <3>2. Asks' /\ Unstopped' /\ ToClaim'
      BY <3>1, AsksStep, UnstoppedStep, ToClaimStep
    <3>3. Held'
      <4>1. ASSUME "late_lease" \notin setting.faults, NEW v \in Workers
            PROVE  Holds(v)'
        BY <3>1, <4>1, HeldStep
      <4> QED
        BY <4>1, <2>1 DEF Held
    <3> QED
      BY <3>2, <3>3
  <2> QED
    BY <2>2, LimitStep DEF IInv
<1> QED
  BY <1>1, <1>2, Invariance, PTL DEF Spec

\* The limit on imports, counted before a job is made, is passed by no more than
\* the requests in flight, and a key makes one job.
THEOREM QueueStaysSound == Spec => []QueueSound
<1>1. IInv /\ Calm /\ WithinLimit => QueueSound
  <2> SUFFICES ASSUME IInv, Calm, WithinLimit PROVE QueueSound
    OBVIOUS
  <2>1. ImportLimit
    <3> SUFFICES ASSUME Undisturbed
                 PROVE  Cardinality(OpenImports) <= MaxQueued + Cardinality(setting.clients) - 1
      BY DEF ImportLimit
    <3>1. Asks /\ TypeOK
      BY DEF Calm, IInv
    <3>2. /\ Cardinality(OpenImports) \in Nat /\ Cardinality(Pending) \in Nat
          /\ Cardinality(setting.clients) \in Nat /\ MaxQueued \in Nat
      BY <3>1, LimitFinite, QueueAssumption
    <3> QED
      BY <3>2 DEF WithinLimit
  <2> QED
    BY <2>1 DEF QueueSound, IInv
<1> QED
  BY <1>1, LimitKeeps, PTL

=============================================================================
