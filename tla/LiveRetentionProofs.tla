------------------------ MODULE LiveRetentionProofs -------------------------
(***************************************************************************)
(* An hour's logs are deleted only once they were counted in a summary,    *)
(* are counted in one only, and stay while something needs them: for any   *)
(* number of workers, logs and hours, and any limits.                      *)
(***************************************************************************)
EXTENDS LiveRetention, FiniteSetTheorems, TLAPS

\* On SQLite, logs become evidence by their first check only: a run that checks
\* checked logs again meets no foreign key there.
NoLateEvidence == "sqlite" \in Databases => "evidence" \notin Asked

\* Every log of an hour before h that is still there was counted, and no log
\* of such an hour comes any more.
Covered(h) == h <= clock /\ \A i \in Stored : hour[i] < h => counted[i] >= 1

LogsKept ==
    /\ \A i \in Logs : log[i] = "none" =>
          counted[i] = 0 /\ ~checked[i] /\ need[i] = {} /\ asking[i] = {}
    /\ \A i \in Logs : hour[i] <= clock /\ asking[i] \subseteq Asked

\* Where a pass is, all before it is covered, and it has read what it needs to
\* cover the hour it is at.
PassKept(w) ==
    /\ pc[w] # "idle" => w \in up
    /\ limit[w] + Keep <= clock
    /\ pc[w] \in {"hours", "summarise", "logs", "delete"} => Covered(at[w])
    /\ pc[w] = "summarise" =>
          /\ at[w] + 1 <= clock
          /\ \A i \in Stored : hour[i] = at[w] => i \in chosen[w]
          /\ \A i \in chosen[w] : log[i] # "none" /\ hour[i] = at[w]
    /\ pc[w] = "delete" =>
          /\ chosen[w] # {}
          /\ \A i \in chosen[w] : log[i] # "none" /\ checked[i] /\ counted[i] >= 1

SummariesKept == \A h \in Summarised : Covered(h + 1)

RetentionInv == TypeOK /\ LogsKept /\ SummariesKept /\ \A w \in Workers : PassKept(w)

-----------------------------------------------------------------------------
\* A set of naturals has a smallest element.
LEMMA Smallest ==
    ASSUME NEW T \in SUBSET Nat, T # {}
    PROVE  \E x \in T : \A y \in T : x <= y
<1> DEFINE Below == OpToRel(<, Nat)
<1>1. IsWellFoundedOn(Below, Nat)
  BY NatLessThanWellFounded
<1>2. \A x, y \in Nat : x < y => <<x, y>> \in Below
  BY DEF OpToRel
<1> HIDE DEF Below
<1>3. PICK x \in T : \A y \in T : ~ (<<y, x>> \in Below)
  BY <1>1, WFMin
<1>4. \A y \in T : x \in Nat /\ y \in Nat /\ ~(y < x)
  BY <1>2, <1>3
<1> QED
  BY <1>3, <1>4

\* A bounded set of naturals has a greatest element.
LEMMA Greatest ==
    ASSUME NEW n \in Nat, NEW T \in SUBSET (0 .. n), T # {}
    PROVE  \E x \in T : \A y \in T : y <= x
<1> DEFINE U == {n - y : y \in T}
<1>1. U \in SUBSET Nat /\ U # {}
  <2>1. \A y \in T : n - y \in Nat
    OBVIOUS
  <2> QED
    BY <2>1
<1>2. PICK u \in U : \A v \in U : u <= v
  BY <1>1, Smallest
<1>3. PICK x \in T : u = n - x
  BY <1>2
<1>4. \A y \in T : n - x <= n - y
  BY <1>2, <1>3
<1> QED
  BY <1>3, <1>4

\* What the SELECT of a chunk returns is some of what may be deleted: not none
\* when there is any, so that the cursor can move to the last of them.
LEMMA ChunkOf ==
    ASSUME NEW T \in SUBSET Logs, T # {}
    PROVE  \E i \in T : Cardinality({j \in T : j < i}) < Chunk
<1>1. T \in SUBSET Nat
  BY RetentionAssumption DEF Logs
<1>2. PICK i \in T : \A j \in T : i <= j
  BY <1>1, Smallest
<1>3. \A j \in T : ~(j < i)
  BY <1>1, <1>2
<1>4. {j \in T : j < i} = {}
  BY <1>3
<1>5. Cardinality({j \in T : j < i}) = 0
  BY <1>4, FS_EmptySet
<1>6. Cardinality({j \in T : j < i}) < Chunk
  BY <1>5, RetentionAssumption
<1> QED
  BY <1>2, <1>6

\* The cursor moves to a log.
LEMMA LastOf ==
    ASSUME NEW T \in SUBSET Logs, T # {}
    PROVE  (CHOOSE i \in T : \A j \in T : j <= i) \in Logs
<1>1. T \in SUBSET (0 .. Count) /\ Count \in Nat
  BY RetentionAssumption DEF Logs
<1>2. \E i \in T : \A j \in T : j <= i
  BY <1>1, Greatest
<1> QED
  BY <1>2

\* No step goes back: the clock, the counts and the logs' states only advance,
\* and a log that comes is of the present hour.
LEMMA Advance ==
    ASSUME TypeOK, LogsKept, [Next]_vars
    PROVE  /\ db' = db /\ up' = up /\ clock <= clock'
           /\ \A i \in Logs :
                 /\ counted[i] <= counted'[i]
                 /\ log[i] # "none" => /\ log'[i] # "none" /\ hour'[i] = hour[i]
                                       /\ checked[i] => checked'[i]
                 /\ log'[i] = "stored" => log[i] = "stored" \/ (log[i] = "none" /\ hour'[i] = clock)
<1> DEFINE Forward ==
      /\ db' = db /\ up' = up /\ clock <= clock'
      /\ \A i \in Logs :
            /\ counted[i] <= counted'[i]
            /\ log[i] # "none" => /\ log'[i] # "none" /\ hour'[i] = hour[i]
                                  /\ checked[i] => checked'[i]
            /\ log'[i] = "stored" => log[i] = "stored" \/ (log[i] = "none" /\ hour'[i] = clock)
<1>0. /\ clock \in Int /\ log \in [Logs -> {"none", "stored", "gone"}]
      /\ hour \in [Logs -> Hours] /\ checked \in [Logs -> BOOLEAN]
      /\ counted \in [Logs -> Nat]
  <2>1. Hours \subseteq Int
    BY RetentionAssumption DEF Hours
  <2> QED
    BY <2>1 DEF TypeOK
<1>1. ASSUME UNCHANGED <<db, up, clock, log, hour, checked, counted>> PROVE Forward
  BY <1>0, <1>1
<1>2. ASSUME NEW w \in Workers,
             Begin(w) \/ ReadHour(w) \/ HoursDone(w) \/ ReadChunk(w) \/ End(w)
               \/ ReadEvidence(w) \/ Restart(w)
      PROVE  Forward
  BY <1>1, <1>2 DEF Begin, ReadHour, HoursDone, ReadChunk, End, ReadEvidence, Restart, logVars
<1>3. ASSUME NEW w \in Workers, Summarise(w) PROVE Forward
  <2>1. UNCHANGED <<db, up, clock, log, hour, checked>>
    BY <1>3 DEF Summarise, logVars
  <2>2. \A i \in Logs : counted[i] <= counted'[i]
    BY <1>0, <1>3 DEF Summarise
  <2> QED
    BY <1>0, <2>1, <2>2
<1>4. ASSUME NEW w \in Workers, DeleteChunk(w) \/ Unlink(w) PROVE Forward
  <2>1. UNCHANGED <<db, up, clock, hour, checked, counted>>
    BY <1>4 DEF DeleteChunk, Unlink
  <2>2. log' = log \/ log' = [i \in Logs |-> IF i \in chosen[w] THEN "gone" ELSE log[i]]
    BY <1>4 DEF DeleteChunk, Unlink
  <2>3. \A i \in Logs : log'[i] \in {log[i], "gone"}
    BY <2>2
  <2> QED
    BY <1>0, <2>1, <2>3
<1>5. ASSUME NEW i \in Logs, Store(i) PROVE Forward
  <2>1. /\ UNCHANGED <<db, up, clock, checked, counted>>
        /\ log[i] = "none"
        /\ \A j \in Logs : log'[j] = IF j = i THEN "stored" ELSE log[j]
        /\ \A j \in Logs : hour'[j] = IF j = i THEN clock ELSE hour[j]
    BY <1>0, <1>5 DEF Store
  <2> QED
    BY <1>0, <2>1
<1>6. ASSUME NEW i \in Logs, Check(i) PROVE Forward
  <2>1. /\ UNCHANGED <<db, up, clock, log, hour, counted>>
        /\ \A j \in Logs : checked[j] => checked'[j]
    BY <1>0, <1>6 DEF Check
  <2> QED
    BY <1>0, <2>1
<1>7. ASSUME NEW i \in Logs, NEW what \in Asked, Ask(i, what) \/ Refer(i, what) PROVE Forward
  BY <1>1, <1>7 DEF Ask, Refer
<1>8. CASE Hour
  BY <1>0, <1>8 DEF Hour, logVars
<1>9. CASE UNCHANGED vars
  BY <1>1, <1>9 DEF vars, logVars
<1> QED
  BY <1>2, <1>3, <1>4, <1>5, <1>6, <1>7, <1>8, <1>9 DEF Next, Pass

\* Once covered, hours stay so.
LEMMA CoveredStays ==
    ASSUME TypeOK, TypeOK', LogsKept, [Next]_vars, NEW h \in Int, Covered(h)
    PROVE  Covered(h)'
<1>1. Hours \subseteq Int
  BY RetentionAssumption DEF Hours
<1>2. /\ clock \in Int /\ clock' \in Int /\ h <= clock
      /\ \A i \in Logs : counted[i] \in Int /\ counted'[i] \in Int /\ hour[i] \in Int
  <2>1. /\ clock \in Hours /\ clock' \in Hours /\ hour \in [Logs -> Hours]
        /\ counted \in [Logs -> Nat] /\ counted' \in [Logs -> Nat]
    BY DEF TypeOK
  <2>2. h <= clock
    BY DEF Covered
  <2>3. \A i \in Logs : counted[i] \in Int /\ counted'[i] \in Int /\ hour[i] \in Int
    <3>1. \A i \in Logs : hour[i] \in Int
      BY <1>1, <2>1
    <3>2. \A i \in Logs : counted[i] \in Nat /\ counted'[i] \in Nat
      BY <2>1
    <3> QED
      BY <3>1, <3>2
  <2> QED
    BY <1>1, <2>1, <2>2, <2>3
<1>3. /\ clock <= clock'
      /\ \A i \in Logs :
            /\ counted[i] <= counted'[i]
            /\ log[i] # "none" => hour'[i] = hour[i]
            /\ log'[i] = "stored" => log[i] = "stored" \/ (log[i] = "none" /\ hour'[i] = clock)
  BY Advance
<1>4. h <= clock'
  BY <1>2, <1>3
<1>5. ASSUME NEW i \in Logs, log'[i] = "stored", hour'[i] < h PROVE counted'[i] >= 1
  <2>1. log[i] = "stored" /\ hour[i] < h
    BY <1>2, <1>3, <1>5
  <2>2. counted[i] >= 1
    BY <2>1 DEF Covered, Stored
  <2> QED
    BY <1>2, <1>3, <2>2
<1> QED
  BY <1>4, <1>5 DEF Covered, Stored

-----------------------------------------------------------------------------
\* The variables of logs keep their types in every step.
LEMMA StepLogTypes ==
    ASSUME TypeOK, [Next]_vars
    PROVE  /\ log' \in [Logs -> {"none", "stored", "gone"}]
           /\ hour' \in [Logs -> Hours]
           /\ checked' \in [Logs -> BOOLEAN]
           /\ need' \in [Logs -> SUBSET Needs]
           /\ asking' \in [Logs -> SUBSET Needs]
<1> DEFINE Types ==
      /\ log \in [Logs -> {"none", "stored", "gone"}]
      /\ hour \in [Logs -> Hours]
      /\ checked \in [Logs -> BOOLEAN]
      /\ need \in [Logs -> SUBSET Needs]
      /\ asking \in [Logs -> SUBSET Needs]
<1>1. Types
  BY DEF TypeOK
<1>2. ASSUME UNCHANGED logVars PROVE Types'
  BY <1>1, <1>2 DEF logVars
<1>3. ASSUME NEW w \in Workers,
             Begin(w) \/ ReadHour(w) \/ Summarise(w) \/ HoursDone(w) \/ ReadChunk(w) \/ End(w)
               \/ ReadEvidence(w) \/ Restart(w)
      PROVE  Types'
  BY <1>2, <1>3 DEF Begin, ReadHour, Summarise, HoursDone, ReadChunk, End, ReadEvidence, Restart
<1>4. ASSUME NEW w \in Workers, DeleteChunk(w) PROVE Types'
  <2>1. UNCHANGED <<hour, checked, need, asking>>
    BY <1>4 DEF DeleteChunk
  <2>2. log' \in [Logs -> {"none", "stored", "gone"}]
    BY <1>1, <1>4 DEF DeleteChunk
  <2> QED
    BY <1>1, <2>1, <2>2
<1>5. ASSUME NEW w \in Workers, Unlink(w) PROVE Types'
  <2>1. UNCHANGED <<hour, checked, asking>>
    BY <1>5 DEF Unlink
  <2>2. log' \in [Logs -> {"none", "stored", "gone"}] /\ need' \in [Logs -> SUBSET Needs]
    BY <1>1, <1>5 DEF Unlink
  <2> QED
    BY <1>1, <2>1, <2>2
<1>6. ASSUME NEW i \in Logs, Store(i) PROVE Types'
  BY <1>1, <1>6 DEF Store, TypeOK
<1>7. ASSUME NEW i \in Logs, Check(i) PROVE Types'
  <2>1. UNCHANGED <<log, hour, asking>>
    BY <1>7 DEF Check
  <2>2. checked' \in [Logs -> BOOLEAN]
    BY <1>1, <1>7 DEF Check
  <2>3. need' \in [Logs -> SUBSET Needs]
    <3>1. PICK new \in SUBSET {"evidence"} : need' = [need EXCEPT ![i] = @ \union new]
      BY <1>7 DEF Check
    <3>2. need[i] \union new \in SUBSET Needs
      BY <1>1 DEF Needs
    <3> QED
      BY <1>1, <3>1, <3>2
  <2> QED
    BY <1>1, <2>1, <2>2, <2>3
<1>8. ASSUME NEW i \in Logs, NEW what \in Asked, Ask(i, what) \/ Refer(i, what) PROVE Types'
  <2>1. UNCHANGED <<log, hour, checked>>
    BY <1>8 DEF Ask, Refer
  <2>2. what \in Needs
    BY RetentionAssumption DEF Needs
  <2>3. asking[i] \union {what} \in SUBSET Needs /\ asking[i] \ {what} \in SUBSET Needs
        /\ need[i] \union {what} \in SUBSET Needs
    BY <1>1, <2>2
  <2>4. asking' \in [Logs -> SUBSET Needs] /\ need' \in [Logs -> SUBSET Needs]
    BY <1>1, <1>8, <2>3 DEF Ask, Refer
  <2> QED
    BY <1>1, <2>1, <2>4
<1>9. CASE Hour \/ UNCHANGED vars
  BY <1>2, <1>9 DEF Hour, vars
<1> QED
  BY <1>3, <1>4, <1>5, <1>6, <1>7, <1>8, <1>9 DEF Next, Pass

\* A pass that ends leaves its variables in their types.
LEMMA LeaveTypes ==
    ASSUME TypeOK, NEW w \in Workers, Leave(w)
    PROVE  /\ pc' \in [Workers ->
                        {"idle", "hours", "summarise", "logs", "delete", "unlink"}]
           /\ limit' \in [Workers -> -Keep .. MaxHour]
           /\ at' \in [Workers -> Hours]
           /\ chosen' \in [Workers -> SUBSET Logs]
           /\ units' \in [Workers -> 0 .. Units]
<1>1. -Keep \in -Keep .. MaxHour /\ 0 \in Hours /\ 0 \in 0 .. Units
  BY RetentionAssumption DEF Hours
<1> QED
  BY <1>1 DEF TypeOK, Leave, Goto

\* A pass that works on keeps its variables in their types.
LEMMA UnitTypes ==
    ASSUME TypeOK, NEW w \in Workers, Unit(w) PROVE units' \in [Workers -> 0 .. Units]
<1>1. \A v \in Workers : units[v] \in 0 .. Units /\ (units[v] < Units => units[v] + 1 \in 0 .. Units)
  <2>1. Units \in Nat
    BY RetentionAssumption
  <2>2. \A v \in Workers : units[v] \in 0 .. Units
    BY DEF TypeOK
  <2> QED
    BY <2>1, <2>2
<1> QED
  BY <1>1 DEF TypeOK, Unit

\* The hour a pass carries on from has begun.
LEMMA NextHourIsPast ==
    ASSUME TypeOK, LogsKept, SummariesKept, NEW h \in NextHour
    PROVE  h \in Hours /\ Covered(h)
<1>1. Hours \subseteq Int /\ MaxHour \in Nat
  BY RetentionAssumption DEF Hours
<1>2. CASE summaries # {}
  <2>1. PICK g \in Hours : Newest(g, Summarised) /\ h = g + 1
    BY <1>2 DEF NextHour
  <2>2. Covered(g + 1)
    BY <2>1 DEF Newest, SummariesKept
  <2>3. g + 1 <= clock /\ clock \in Hours /\ g \in Hours
    BY <2>2 DEF Covered, TypeOK
  <2> QED
    BY <1>1, <2>1, <2>2, <2>3 DEF Hours
<1>3. CASE summaries = {}
  <2>1. h \in Hours /\ Oldest(h, {hour[i] : i \in Stored})
    BY <1>3 DEF NextHour
  <2>2. PICK i \in Stored : h = hour[i]
    BY <2>1 DEF Oldest
  <2>3. h <= clock
    BY <2>2 DEF LogsKept, Stored
  <2>4. \A j \in Stored : h <= hour[j] /\ hour[j] \in Int
    BY <1>1, <2>1 DEF Oldest, Stored, TypeOK
  <2>5. ASSUME NEW j \in Stored PROVE ~(hour[j] < h)
    <3>1. h \in Int /\ hour[j] \in Int /\ h <= hour[j]
      BY <1>1, <2>1, <2>4
    <3> QED
      BY ONLY <3>1
  <2> QED
    BY <2>1, <2>3, <2>5 DEF Covered
<1> QED
  BY <1>2, <1>3

\* The variables of passes keep their types in every step.
LEMMA StepPassTypes ==
    ASSUME RetentionInv, [Next]_vars
    PROVE  /\ pc' \in [Workers ->
                        {"idle", "hours", "summarise", "logs", "delete", "unlink"}]
           /\ limit' \in [Workers -> -Keep .. MaxHour]
           /\ at' \in [Workers -> Hours]
           /\ chosen' \in [Workers -> SUBSET Logs]
           /\ units' \in [Workers -> 0 .. Units]
<1> DEFINE Types ==
      /\ pc \in [Workers -> {"idle", "hours", "summarise", "logs", "delete", "unlink"}]
      /\ limit \in [Workers -> -Keep .. MaxHour]
      /\ at \in [Workers -> Hours]
      /\ chosen \in [Workers -> SUBSET Logs]
      /\ units \in [Workers -> 0 .. Units]
<1>0. TypeOK /\ LogsKept /\ SummariesKept /\ \A w \in Workers : PassKept(w)
  BY DEF RetentionInv
<1>1. Types
  BY <1>0 DEF TypeOK
<1>2. ASSUME UNCHANGED <<pc, limit, at, chosen, units>> PROVE Types'
  BY <1>1, <1>2
<1>3. ASSUME NEW w \in Workers, Begin(w) PROVE Types'
  <2>1. PICK h \in NextHour : at' = [at EXCEPT ![w] = h]
    BY <1>3 DEF Begin
  <2>2. h \in Hours
    BY <1>0, <2>1, NextHourIsPast
  <2>3. clock - Keep \in -Keep .. MaxHour
    <3>1. clock \in Hours
      BY <1>0 DEF TypeOK
    <3>2. Keep \in Nat /\ MaxHour \in Nat
      BY RetentionAssumption
    <3> QED
      BY <3>1, <3>2 DEF Hours
  <2>4. /\ limit' = [limit EXCEPT ![w] = clock - Keep] /\ pc' = [pc EXCEPT ![w] = "hours"]
        /\ UNCHANGED <<chosen, units>>
    BY <1>3 DEF Begin, Goto
  <2> QED
    BY <1>1, <2>1, <2>2, <2>3, <2>4
<1>4. ASSUME NEW w \in Workers, ReadHour(w) PROVE Types'
  <2>1. {i \in Stored : hour[i] = at[w]} \in SUBSET Logs
    BY DEF Stored
  <2> QED
    BY <1>1, <1>4, <2>1 DEF ReadHour, Goto
<1>5. ASSUME NEW w \in Workers, Summarise(w) PROVE Types'
  <2>1. CASE Clashing({<<at[w], Address(i)>> : i \in chosen[w]})
    BY <1>0, <1>5, <2>1, LeaveTypes DEF Summarise
  <2>2. CASE ~Clashing({<<at[w], Address(i)>> : i \in chosen[w]})
    <3>1. /\ pc[w] = "summarise" /\ pc' = [pc EXCEPT ![w] = "hours"]
          /\ at' = [at EXCEPT ![w] = at[w] + 1]
          /\ chosen' = [chosen EXCEPT ![w] = {}]
          /\ Unit(w) /\ limit' = limit
      BY <1>5, <2>2 DEF Summarise, Goto
    <3>2. at[w] + 1 \in Hours
      <4>1. at[w] + 1 <= clock /\ at[w] \in Hours /\ clock \in Hours
        BY <1>0, <3>1 DEF PassKept, TypeOK
      <4> QED
        BY <4>1, RetentionAssumption DEF Hours
    <3>3. units' \in [Workers -> 0 .. Units]
      BY <1>0, <3>1, UnitTypes
    <3> QED
      BY <1>1, <3>1, <3>2, <3>3
  <2> QED
    BY <2>1, <2>2
<1>6. ASSUME NEW w \in Workers, HoursDone(w) PROVE Types'
  BY <1>1, <1>6 DEF HoursDone, Goto
<1>7. ASSUME NEW w \in Workers, ReadChunk(w) PROVE Types'
  <2>1. {i \in Deletable(w) : Cardinality({j \in Deletable(w) : j < i}) < Chunk} \in SUBSET Logs
    BY DEF Deletable, Stored
  <2> QED
    BY <1>1, <1>7, <2>1 DEF ReadChunk, Goto
<1>8. ASSUME NEW w \in Workers, DeleteChunk(w) PROVE Types'
  <2>1. CASE Refused(chosen[w])
    BY <1>0, <1>8, <2>1, LeaveTypes DEF DeleteChunk
  <2>2. CASE ~Refused(chosen[w])
    <3>1. /\ pc' = [pc EXCEPT ![w] = "logs"] /\ chosen' = [chosen EXCEPT ![w] = {}]
          /\ Unit(w) /\ UNCHANGED <<limit, at>>
      BY <1>8, <2>2 DEF DeleteChunk, Goto
    <3>2. units' \in [Workers -> 0 .. Units]
      BY <1>0, <3>1, UnitTypes
    <3> QED
      BY <1>1, <3>1, <3>2
  <2> QED
    BY <2>1, <2>2
<1>9. ASSUME NEW w \in Workers, End(w) \/ Unlink(w) \/ Restart(w) PROVE Types'
  BY <1>0, <1>9, LeaveTypes DEF End, Unlink, Restart
<1>10. ASSUME NEW w \in Workers, ReadEvidence(w) PROVE Types'
  <2>1. PICK S \in SUBSET ClosedEvidence : chosen' = [chosen EXCEPT ![w] = S]
    BY <1>10 DEF ReadEvidence
  <2>2. S \in SUBSET Logs
    BY DEF ClosedEvidence, Stored
  <2> QED
    BY <1>1, <1>10, <2>1, <2>2 DEF ReadEvidence, Goto
<1>11. ASSUME NEW i \in Logs, Store(i) \/ Check(i) PROVE Types'
  BY <1>2, <1>11 DEF Store, Check, passVars
<1>12. ASSUME NEW i \in Logs, NEW what \in Asked, Ask(i, what) \/ Refer(i, what) PROVE Types'
  BY <1>2, <1>12 DEF Ask, Refer, passVars
<1>13. CASE Hour \/ UNCHANGED vars
  BY <1>2, <1>13 DEF Hour, vars, passVars
<1> QED
  BY <1>3, <1>4, <1>5, <1>6, <1>7, <1>8, <1>9, <1>10, <1>11, <1>12, <1>13 DEF Next, Pass

\* So do the summaries, the counts, the cursors and the rest.
LEMMA StepOtherTypes ==
    ASSUME RetentionInv, [Next]_vars
    PROVE  /\ db' \in Databases /\ up' \subseteq Workers
           /\ clock' \in Hours
           /\ summaries' \in SUBSET (Hours \X {"an address", "no address"})
           /\ through' \in [Workers -> 0 .. Count]
           /\ restarts' \in 0 .. MaxRestarts
           /\ counted' \in [Logs -> Nat]
<1> DEFINE Types ==
      /\ db \in Databases /\ up \subseteq Workers
      /\ clock \in Hours
      /\ summaries \in SUBSET (Hours \X {"an address", "no address"})
      /\ through \in [Workers -> 0 .. Count]
      /\ restarts \in 0 .. MaxRestarts
      /\ counted \in [Logs -> Nat]
<1>0. TypeOK /\ \A w \in Workers : PassKept(w)
  BY DEF RetentionInv
<1>1. Types
  BY <1>0 DEF TypeOK
<1>2. ASSUME UNCHANGED <<db, up, clock, summaries, through, restarts, counted>> PROVE Types'
  BY <1>1, <1>2
<1>3. ASSUME NEW w \in Workers,
             Begin(w) \/ ReadHour(w) \/ HoursDone(w) \/ ReadChunk(w) \/ ReadEvidence(w) \/ Unlink(w)
      PROVE  Types'
  BY <1>2, <1>3 DEF Begin, ReadHour, HoursDone, ReadChunk, ReadEvidence, Unlink
<1>4. ASSUME NEW w \in Workers, Summarise(w) PROVE Types'
  <2>1. UNCHANGED <<db, up, clock, through, restarts>>
    BY <1>4 DEF Summarise
  <2>2. counted' \in [Logs -> Nat]
    <3>1. \/ counted' = counted
          \/ counted' = [i \in Logs |-> counted[i] + IF i \in chosen[w] THEN 1 ELSE 0]
      BY <1>4 DEF Summarise
    <3>2. counted \in [Logs -> Nat]
      BY <1>1
    <3>3. \A i \in Logs : counted[i] + (IF i \in chosen[w] THEN 1 ELSE 0) \in Nat
      BY <3>2
    <3> QED
      BY <3>1, <3>2, <3>3
  <2>3. summaries' \in SUBSET (Hours \X {"an address", "no address"})
    <3>1. {<<at[w], Address(i)>> : i \in chosen[w]} \in SUBSET (Hours \X {"an address", "no address"})
      <4>1. at[w] \in Hours
        BY <1>0 DEF TypeOK
      <4>2. \A i \in chosen[w] : Address(i) \in {"an address", "no address"}
        BY DEF Address
      <4>3. \A i \in chosen[w] : <<at[w], Address(i)>> \in Hours \X {"an address", "no address"}
        BY <4>1, <4>2
      <4> QED
        BY <4>3
    <3>2. \/ summaries' = summaries
          \/ summaries' = summaries \union {<<at[w], Address(i)>> : i \in chosen[w]}
      BY <1>4 DEF Summarise
    <3> QED
      BY <1>1, <3>1, <3>2
  <2> QED
    BY <1>1, <2>1, <2>2, <2>3
<1>5. ASSUME NEW w \in Workers, DeleteChunk(w) PROVE Types'
  <2>1. UNCHANGED <<db, up, clock, summaries, restarts, counted>>
    BY <1>5 DEF DeleteChunk
  <2>2. chosen[w] \in SUBSET Logs /\ chosen[w] # {}
    BY <1>0, <1>5 DEF DeleteChunk, PassKept, TypeOK
  <2>3. (CHOOSE i \in chosen[w] : \A j \in chosen[w] : j <= i) \in 0 .. Count
    <3>1. (CHOOSE i \in chosen[w] : \A j \in chosen[w] : j <= i) \in Logs
      BY <2>2, LastOf
    <3>2. Logs \subseteq 0 .. Count
      BY RetentionAssumption DEF Logs
    <3> QED
      BY <3>1, <3>2
  <2>4. through' = through \/ through' = MovedOn(w)
    BY <1>5 DEF DeleteChunk
  <2>5. through' \in [Workers -> 0 .. Count]
    BY <1>1, <2>3, <2>4 DEF MovedOn
  <2> QED
    BY <1>1, <2>1, <2>5
<1>6. ASSUME NEW w \in Workers, End(w) PROVE Types'
  <2>1. UNCHANGED <<db, up, clock, through, restarts, counted>> /\ summaries' \subseteq summaries
    BY <1>6 DEF End
  <2> QED
    BY <1>1, <2>1
<1>7. ASSUME NEW w \in Workers, Restart(w) PROVE Types'
  <2>1. UNCHANGED <<db, up, clock, summaries, counted>> /\ through' = [through EXCEPT ![w] = 0]
        /\ restarts < MaxRestarts /\ restarts' = restarts + 1
    BY <1>7 DEF Restart
  <2>2. 0 \in 0 .. Count /\ restarts' \in 0 .. MaxRestarts
    <3>1. Count \in Nat /\ MaxRestarts \in Nat
      BY RetentionAssumption
    <3>2. restarts \in 0 .. MaxRestarts
      BY <1>1
    <3>3. restarts < MaxRestarts /\ restarts' = restarts + 1
      BY <2>1
    <3> QED
      BY <3>1, <3>2, <3>3
  <2> QED
    BY <1>1, <2>1, <2>2
<1>8. ASSUME NEW i \in Logs, Store(i) \/ Check(i) PROVE Types'
  BY <1>2, <1>8 DEF Store, Check, passVars
<1>9. ASSUME NEW i \in Logs, NEW what \in Asked, Ask(i, what) \/ Refer(i, what) PROVE Types'
  BY <1>2, <1>9 DEF Ask, Refer, passVars
<1>10. CASE Hour
  <2>1. UNCHANGED <<db, up, summaries, through, restarts, counted>>
        /\ clock < MaxHour /\ clock' = clock + 1
    BY <1>10 DEF Hour, passVars
  <2>2. clock' \in Hours
    <3>1. MaxHour \in Nat /\ clock \in 0 .. MaxHour
      BY <1>1, RetentionAssumption DEF Hours
    <3> QED
      BY <2>1, <3>1 DEF Hours
  <2> QED
    BY <1>1, <2>1, <2>2
<1>11. CASE UNCHANGED vars
  BY <1>2, <1>11 DEF vars, passVars
<1> QED
  BY <1>3, <1>4, <1>5, <1>6, <1>7, <1>8, <1>9, <1>10, <1>11 DEF Next, Pass

\* Each step keeps every variable in its type.
LEMMA StepTypes == ASSUME RetentionInv, [Next]_vars PROVE TypeOK'
<1>1. TypeOK
  BY DEF RetentionInv
<1> QED
  BY <1>1, StepLogTypes, StepPassTypes, StepOtherTypes DEF TypeOK

\* A log that did not come yet is not counted, checked or needed, and none is
\* of an hour to come.
LEMMA StepLogs == ASSUME RetentionInv, [Next]_vars PROVE LogsKept'
<1>0. TypeOK /\ LogsKept /\ \A w \in Workers : PassKept(w)
  BY DEF RetentionInv
<1>1. /\ clock \in Int /\ clock' \in Int
      /\ \A i \in Logs : hour[i] \in Int /\ hour'[i] \in Int
      /\ log \in [Logs -> {"none", "stored", "gone"}]
      /\ checked \in [Logs -> BOOLEAN] /\ need \in [Logs -> SUBSET Needs]
      /\ asking \in [Logs -> SUBSET Needs] /\ counted \in [Logs -> Nat]
  <2>1. Hours \subseteq Int
    BY RetentionAssumption DEF Hours
  <2>2. TypeOK'
    BY StepTypes
  <2> QED
    BY <1>0, <2>1, <2>2 DEF TypeOK
<1>2. \A i \in Logs : hour'[i] <= clock'
  <2>1. ASSUME NEW i \in Logs PROVE hour'[i] = hour[i] \/ hour'[i] = clock
    <3>1. ASSUME NEW j \in Logs, Store(j) PROVE hour'[i] = hour[i] \/ hour'[i] = clock
      BY <1>0, <3>1 DEF Store, TypeOK
    <3>2. CASE \A j \in Logs : ~Store(j)
      <4>1. hour' = hour
        BY <3>2 DEF Next, Pass, Begin, ReadHour, Summarise, HoursDone, ReadChunk, DeleteChunk,
                    End, ReadEvidence, Unlink, Restart, Check, Ask, Refer, Hour, vars, logVars
      <4> QED
        BY <4>1
    <3> QED
      BY <3>1, <3>2
  <2>2. clock <= clock'
    BY <1>0, Advance
  <2> QED
    BY <1>0, <1>1, <2>1, <2>2 DEF LogsKept
<1>3. ASSUME NEW i \in Logs
      PROVE  /\ asking'[i] \subseteq Asked
             /\ log'[i] = "none" =>
                  counted'[i] = 0 /\ ~checked'[i] /\ need'[i] = {} /\ asking'[i] = {}
  <2> DEFINE Kept ==
        /\ asking[i] \subseteq Asked
        /\ log[i] = "none" => counted[i] = 0 /\ ~checked[i] /\ need[i] = {} /\ asking[i] = {}
  <2>1. Kept
    BY <1>0 DEF LogsKept
  <2>2. ASSUME UNCHANGED <<log, checked, need, asking, counted>> PROVE Kept'
    BY <2>1, <2>2
  <2>3. ASSUME NEW w \in Workers,
               Begin(w) \/ ReadHour(w) \/ HoursDone(w) \/ ReadChunk(w) \/ End(w)
                 \/ ReadEvidence(w) \/ Restart(w)
        PROVE  Kept'
    BY <2>2, <2>3 DEF Begin, ReadHour, HoursDone, ReadChunk, End, ReadEvidence, Restart, logVars
  <2>4. ASSUME NEW w \in Workers, Summarise(w) PROVE Kept'
    <3>1. UNCHANGED <<log, checked, need, asking>>
      BY <2>4 DEF Summarise, logVars
    <3>2. counted'[i] = counted[i] \/ (i \in chosen[w] /\ pc[w] = "summarise")
      BY <1>1, <2>4 DEF Summarise
    <3>3. i \in chosen[w] /\ pc[w] = "summarise" => log[i] # "none"
      BY <1>0 DEF PassKept
    <3> QED
      BY <2>1, <3>1, <3>2, <3>3
  <2>5. ASSUME NEW w \in Workers, DeleteChunk(w) \/ Unlink(w) PROVE Kept'
    <3>1. UNCHANGED <<checked, asking, counted>>
      BY <2>5 DEF DeleteChunk, Unlink
    <3>2. log'[i] \in {log[i], "gone"} /\ need'[i] \subseteq need[i]
      BY <1>1, <2>5 DEF DeleteChunk, Unlink
    <3> QED
      BY <2>1, <3>1, <3>2
  <2>6. ASSUME NEW j \in Logs, Store(j) PROVE Kept'
    <3>1. UNCHANGED <<checked, need, asking, counted>> /\ log'[i] \in {log[i], "stored"}
      BY <1>1, <2>6 DEF Store
    <3> QED
      BY <2>1, <3>1
  <2>7. ASSUME NEW j \in Logs, Check(j) PROVE Kept'
    <3>1. UNCHANGED <<log, asking, counted>> /\ log[j] = "stored"
      BY <2>7 DEF Check
    <3>2. i # j => checked'[i] = checked[i] /\ need'[i] = need[i]
      BY <1>1, <2>7 DEF Check
    <3> QED
      BY <2>1, <3>1, <3>2
  <2>8. ASSUME NEW j \in Logs, NEW what \in Asked, Ask(j, what) PROVE Kept'
    <3>1. UNCHANGED <<log, checked, need, counted>> /\ log[j] = "stored"
      BY <2>8 DEF Ask
    <3>2. asking'[i] = IF i = j THEN asking[j] \union {what} ELSE asking[i]
      BY <1>1, <2>8 DEF Ask
    <3> QED
      BY <2>1, <3>1, <3>2
  <2>9. ASSUME NEW j \in Logs, NEW what \in Asked, Refer(j, what) PROVE Kept'
    <3>1. UNCHANGED <<log, checked, counted>> /\ what \in asking[j]
      BY <2>9 DEF Refer
    <3>2. asking'[i] = IF i = j THEN asking[j] \ {what} ELSE asking[i]
      BY <1>1, <2>9 DEF Refer
    <3>3. i # j => need'[i] = need[i]
      BY <1>1, <2>9 DEF Refer
    <3> QED
      BY <2>1, <3>1, <3>2, <3>3
  <2>10. CASE Hour \/ UNCHANGED vars
    BY <2>2, <2>10 DEF Hour, vars, logVars
  <2> QED
    BY <2>3, <2>4, <2>5, <2>6, <2>7, <2>8, <2>9, <2>10 DEF Next, Pass
<1> QED
  BY <1>2, <1>3 DEF LogsKept

\* What holds of a pass stays so while others act.
LEMMA PassStays ==
    ASSUME RetentionInv, [Next]_vars, NEW w \in Workers,
           pc'[w] = pc[w], limit'[w] = limit[w], at'[w] = at[w], chosen'[w] = chosen[w]
    PROVE  PassKept(w)'
<1>0. TypeOK /\ TypeOK' /\ LogsKept /\ PassKept(w)
  BY StepTypes DEF RetentionInv
<1>1. /\ clock \in Int /\ clock' \in Int /\ at[w] \in Int /\ limit[w] \in Int
      /\ chosen[w] \subseteq Logs
  <2>1. Hours \subseteq Int /\ -Keep .. MaxHour \subseteq Int
    BY RetentionAssumption DEF Hours
  <2> QED
    BY <1>0, <2>1 DEF TypeOK
<1>2. \A i \in Logs : counted[i] \in Int /\ counted'[i] \in Int
  <2>1. counted \in [Logs -> Nat] /\ counted' \in [Logs -> Nat]
    BY <1>0 DEF TypeOK
  <2> QED
    BY <2>1
<1>3. /\ up' = up /\ clock <= clock'
      /\ \A i \in Logs :
            /\ counted[i] <= counted'[i]
            /\ log[i] # "none" => /\ log'[i] # "none" /\ hour'[i] = hour[i]
                                  /\ checked[i] => checked'[i]
            /\ log'[i] = "stored" => log[i] = "stored" \/ (log[i] = "none" /\ hour'[i] = clock)
  BY <1>0, Advance
<1>4. limit'[w] + Keep <= clock'
  BY <1>0, <1>1, <1>3, RetentionAssumption DEF PassKept
<1>5. pc[w] \in {"hours", "summarise", "logs", "delete"} => Covered(at[w])'
  BY <1>0, <1>1, CoveredStays DEF PassKept
<1>6. ASSUME pc[w] = "summarise"
      PROVE  /\ at[w] + 1 <= clock'
             /\ \A i \in Logs : log'[i] = "stored" /\ hour'[i] = at[w] => i \in chosen[w]
             /\ \A i \in chosen[w] : log'[i] # "none" /\ hour'[i] = at[w]
  <2>1. /\ at[w] + 1 <= clock
        /\ \A i \in Logs : log[i] = "stored" /\ hour[i] = at[w] => i \in chosen[w]
        /\ \A i \in chosen[w] : log[i] # "none" /\ hour[i] = at[w]
    BY <1>0, <1>6 DEF PassKept, Stored
  <2>2. ASSUME NEW i \in Logs, log'[i] = "stored", hour'[i] = at[w] PROVE i \in chosen[w]
    BY <1>1, <1>3, <2>1, <2>2
  <2> QED
    BY <1>1, <1>3, <2>1, <2>2
<1>7. ASSUME pc[w] = "delete"
      PROVE  /\ chosen[w] # {}
             /\ \A i \in chosen[w] : log'[i] # "none" /\ checked'[i] /\ counted'[i] >= 1
  BY <1>0, <1>1, <1>2, <1>3, <1>7 DEF PassKept
<1> QED
  BY <1>0, <1>3, <1>4, <1>5, <1>6, <1>7 DEF PassKept, Stored

\* A worker that is idle has nothing to keep.
LEMMA LeaveKeeps ==
    ASSUME TypeOK, TypeOK', NEW w \in Workers, Leave(w) PROVE PassKept(w)'
<1>1. pc'[w] = "idle" /\ limit'[w] = -Keep
  BY DEF Leave, Goto, TypeOK
<1>2. -Keep + Keep <= clock'
  <2>1. clock' \in Hours
    BY DEF TypeOK
  <2> QED
    BY <2>1, RetentionAssumption DEF Hours
<1> QED
  BY <1>1, <1>2 DEF PassKept

\* An hour that is summarised is covered: all its logs were read after it was
\* over, and no more came.
LEMMA HourCovered ==
    ASSUME RetentionInv, [Next]_vars, NEW w \in Workers, Summarise(w),
           ~Clashing({<<at[w], Address(i)>> : i \in chosen[w]}),
           NEW h \in Int, h = at[w] + 1
    PROVE  Covered(h)'
<1>0. TypeOK /\ PassKept(w) /\ pc[w] = "summarise"
  BY DEF RetentionInv, Summarise
<1>1. /\ at[w] + 1 <= clock /\ Covered(at[w])
      /\ \A i \in Stored : hour[i] = at[w] => i \in chosen[w]
  BY <1>0 DEF PassKept
<1>2. UNCHANGED <<clock, log, hour>> /\ at[w] \in Int
      /\ \A i \in Logs : hour[i] \in Int /\ counted[i] \in Nat
  <2>1. Hours \subseteq Int
    BY RetentionAssumption DEF Hours
  <2> QED
    BY <1>0, <2>1 DEF TypeOK, Summarise, logVars
<1>3. \A i \in Logs : counted'[i] = counted[i] + IF i \in chosen[w] THEN 1 ELSE 0
  BY DEF Summarise
<1>4. ASSUME NEW i \in Logs, log[i] = "stored", hour[i] < h PROVE counted'[i] >= 1
  <2>1. CASE hour[i] = at[w]
    BY <1>1, <1>2, <1>3, <1>4, <2>1 DEF Stored
  <2>2. CASE hour[i] < at[w]
    BY <1>1, <1>2, <1>3, <1>4, <2>2 DEF Covered, Stored
  <2> QED
    BY <1>2, <1>4, <2>1, <2>2
<1> QED
  BY <1>1, <1>2, <1>4 DEF Covered, Stored

\* Each step of a worker's own pass keeps what holds of it.
LEMMA StepOwnPass ==
    ASSUME RetentionInv, [Next]_vars, NEW w \in Workers,
           Pass(w) \/ ReadEvidence(w) \/ Unlink(w) \/ Restart(w)
    PROVE  PassKept(w)'
<1>0. TypeOK /\ TypeOK' /\ LogsKept /\ SummariesKept /\ PassKept(w)
  BY StepTypes DEF RetentionInv
<1>1. /\ clock \in Int /\ at[w] \in Int /\ limit[w] \in Int /\ Keep \in Nat
      /\ pc \in [Workers -> {"idle", "hours", "summarise", "logs", "delete", "unlink"}]
      /\ limit \in [Workers -> -Keep .. MaxHour] /\ at \in [Workers -> Hours]
      /\ chosen \in [Workers -> SUBSET Logs]
  <2>1. Hours \subseteq Int /\ -Keep .. MaxHour \subseteq Int
    BY RetentionAssumption DEF Hours
  <2> QED
    BY <1>0, <2>1, RetentionAssumption DEF TypeOK
<1>2. up' = up /\ (Leave(w) => PassKept(w)')
  BY <1>0, Advance, LeaveKeeps
<1>3. CASE Begin(w)
  <2>1. PICK h \in NextHour : at' = [at EXCEPT ![w] = h]
    BY <1>3 DEF Begin
  <2>2. h \in Hours /\ Covered(h)
    BY <1>0, <2>1, NextHourIsPast
  <2>3. h \in Int
    BY <2>2, RetentionAssumption DEF Hours
  <2>4. Covered(h)'
    BY <1>0, <2>2, <2>3, CoveredStays
  <2>5. /\ w \in up /\ clock' = clock
        /\ at'[w] = h /\ limit'[w] = clock - Keep /\ pc'[w] = "hours"
    BY <1>1, <1>3, <2>1 DEF Begin, Goto
  <2>6. limit'[w] + Keep <= clock'
    BY <1>1, <2>5
  <2> QED
    BY <1>2, <2>4, <2>5, <2>6 DEF PassKept
<1>4. CASE ReadHour(w)
  <2>1. /\ pc[w] = "hours" /\ at[w] + 1 <= limit[w]
        /\ pc'[w] = "summarise" /\ chosen'[w] = {i \in Stored : hour[i] = at[w]}
        /\ UNCHANGED <<clock, log, hour, counted, limit, at>>
    BY <1>1, <1>4 DEF ReadHour, Past, Goto, logVars
  <2>2. w \in up /\ limit[w] + Keep <= clock /\ Covered(at[w])
    BY <1>0, <2>1 DEF PassKept
  <2>3. at[w] + 1 <= clock
    BY <1>1, <2>1, <2>2
  <2>4. Covered(at[w])'
    BY <2>1, <2>2 DEF Covered, Stored
  <2> QED
    BY <1>2, <2>1, <2>2, <2>3, <2>4 DEF PassKept, Stored
<1>5. CASE Summarise(w)
  <2>1. CASE Clashing({<<at[w], Address(i)>> : i \in chosen[w]})
    BY <1>2, <1>5, <2>1 DEF Summarise
  <2>2. CASE ~Clashing({<<at[w], Address(i)>> : i \in chosen[w]})
    <3>1. pc[w] = "summarise" /\ pc'[w] = "hours" /\ at'[w] = at[w] + 1 /\ UNCHANGED <<limit, clock>>
      BY <1>1, <1>5, <2>2 DEF Summarise, Goto
    <3>2. Covered(at[w])'
      <4>1. at[w] + 1 \in Int
        BY <1>1
      <4> QED
        BY <1>5, <2>2, <3>1, <4>1, HourCovered
    <3>3. w \in up /\ limit[w] + Keep <= clock
      BY <1>0, <3>1 DEF PassKept
    <3> QED
      BY <1>2, <3>1, <3>2, <3>3 DEF PassKept
  <2> QED
    BY <2>1, <2>2
<1>6. CASE HoursDone(w)
  <2>1. /\ pc[w] = "hours" /\ pc'[w] = "logs"
        /\ UNCHANGED <<clock, log, hour, counted, limit, at>>
    BY <1>1, <1>6 DEF HoursDone, Goto, logVars
  <2> QED
    BY <1>0, <1>2, <2>1 DEF PassKept, Covered, Stored
<1>7. CASE ReadChunk(w)
  <2>1. /\ pc[w] = "logs" /\ pc'[w] = "delete" /\ Deletable(w) # {}
        /\ chosen'[w] = {i \in Deletable(w) : Cardinality({j \in Deletable(w) : j < i}) < Chunk}
        /\ UNCHANGED <<clock, log, hour, checked, counted, limit, at>>
    BY <1>1, <1>7 DEF ReadChunk, Goto, logVars
  <2>2. Deletable(w) \in SUBSET Logs
    BY DEF Deletable, Stored
  <2>3. chosen'[w] # {}
    <3>1. \E i \in Deletable(w) : Cardinality({j \in Deletable(w) : j < i}) < Chunk
      BY <2>1, <2>2, ChunkOf
    <3> QED
      BY <2>1, <3>1
  <2>4. w \in up /\ limit[w] + Keep <= clock /\ Covered(at[w])
    BY <1>0, <2>1 DEF PassKept
  <2>5. \A i \in chosen'[w] : log[i] # "none" /\ checked[i] /\ counted[i] >= 1
    BY <2>1, <2>4 DEF Deletable, Covered, Stored
  <2>6. Covered(at[w])'
    BY <2>1, <2>4 DEF Covered, Stored
  <2> QED
    BY <1>2, <2>1, <2>3, <2>4, <2>5, <2>6 DEF PassKept
<1>8. CASE DeleteChunk(w)
  <2>1. CASE Refused(chosen[w])
    BY <1>2, <1>8, <2>1 DEF DeleteChunk
  <2>2. CASE ~Refused(chosen[w])
    <3>1. pc[w] = "delete" /\ pc'[w] = "logs" /\ UNCHANGED <<limit, at, clock>>
      BY <1>1, <1>8, <2>2 DEF DeleteChunk, Goto
    <3>2. w \in up /\ limit[w] + Keep <= clock /\ Covered(at[w])
      BY <1>0, <3>1 DEF PassKept
    <3>3. Covered(at[w])'
      BY <1>0, <1>1, <3>1, <3>2, CoveredStays
    <3> QED
      BY <1>2, <3>1, <3>2, <3>3 DEF PassKept
  <2> QED
    BY <2>1, <2>2
<1>9. CASE End(w) \/ Unlink(w) \/ Restart(w)
  BY <1>2, <1>9 DEF End, Unlink, Restart
<1>10. CASE ReadEvidence(w)
  <2>1. w \in up /\ pc'[w] = "unlink" /\ UNCHANGED <<limit, clock>>
    BY <1>1, <1>10 DEF ReadEvidence, Goto
  <2> QED
    BY <1>0, <1>2, <2>1 DEF PassKept
<1> QED
  BY <1>3, <1>4, <1>5, <1>6, <1>7, <1>8, <1>9, <1>10 DEF Pass

\* So do the steps of all others.
LEMMA StepPasses ==
    ASSUME RetentionInv, [Next]_vars PROVE \A w \in Workers : PassKept(w)'
<1>0. /\ pc \in [Workers -> {"idle", "hours", "summarise", "logs", "delete", "unlink"}]
      /\ limit \in [Workers -> -Keep .. MaxHour] /\ at \in [Workers -> Hours]
      /\ chosen \in [Workers -> SUBSET Logs]
  BY DEF RetentionInv, TypeOK
<1>1. ASSUME NEW w \in Workers, UNCHANGED <<pc, limit, at, chosen>> PROVE PassKept(w)'
  BY <1>1, PassStays
<1>2. ASSUME NEW v \in Workers, Pass(v) \/ ReadEvidence(v) \/ Unlink(v) \/ Restart(v),
             NEW w \in Workers
      PROVE  PassKept(w)'
  <2>1. CASE v = w
    BY <1>2, <2>1, StepOwnPass
  <2>2. CASE v # w
    <3>1. pc'[w] = pc[w] /\ limit'[w] = limit[w] /\ at'[w] = at[w] /\ chosen'[w] = chosen[w]
      BY <1>0, <1>2, <2>2 DEF Pass, Begin, ReadHour, Summarise, HoursDone, ReadChunk,
         DeleteChunk, End, ReadEvidence, Unlink, Restart, Leave, Goto
    <3> QED
      BY <3>1, PassStays
  <2> QED
    BY <2>1, <2>2
<1>3. ASSUME NEW i \in Logs, Store(i) \/ Check(i) PROVE UNCHANGED <<pc, limit, at, chosen>>
  BY <1>3 DEF Store, Check, passVars
<1>4. ASSUME NEW i \in Logs, NEW what \in Asked, Ask(i, what) \/ Refer(i, what)
      PROVE  UNCHANGED <<pc, limit, at, chosen>>
  BY <1>4 DEF Ask, Refer, passVars
<1>5. CASE Hour \/ UNCHANGED vars
  BY <1>1, <1>5 DEF Hour, vars, passVars
<1> QED
  BY <1>1, <1>2, <1>3, <1>4, <1>5 DEF Next

\* Each hour with a row is covered, from the step that writes the row on.
LEMMA StepSummaries ==
    ASSUME RetentionInv, [Next]_vars PROVE SummariesKept'
<1>0. TypeOK /\ TypeOK' /\ LogsKept /\ SummariesKept
  BY StepTypes DEF RetentionInv
<1>1. ASSUME NEW h \in Summarised PROVE Covered(h + 1)'
  <2>1. h + 1 \in Int
    <3>1. PICK s \in summaries : h = s[1]
      BY DEF Summarised
    <3>2. summaries \subseteq Hours \X {"an address", "no address"}
      BY <1>0 DEF TypeOK
    <3>3. h \in Hours
      BY <3>1, <3>2
    <3> QED
      BY <3>3, RetentionAssumption DEF Hours
  <2>2. Covered(h + 1)
    BY <1>0 DEF SummariesKept
  <2> QED
    BY <1>0, <2>1, <2>2, CoveredStays
<1>2. ASSUME summaries' \subseteq summaries PROVE SummariesKept'
  BY <1>1, <1>2 DEF SummariesKept, Summarised
<1>3. ASSUME NEW w \in Workers, Summarise(w) PROVE SummariesKept'
  <2>1. CASE Clashing({<<at[w], Address(i)>> : i \in chosen[w]})
    BY <1>2, <1>3, <2>1 DEF Summarise
  <2>2. CASE ~Clashing({<<at[w], Address(i)>> : i \in chosen[w]})
    <3>1. summaries' = summaries \union {<<at[w], Address(i)>> : i \in chosen[w]}
      BY <1>3, <2>2 DEF Summarise
    <3>2. at[w] + 1 \in Int
      <4>1. at[w] \in Hours
        BY <1>0 DEF TypeOK
      <4> QED
        BY <4>1, RetentionAssumption DEF Hours
    <3>3. \A h \in Summarised' : h \in Summarised \/ h = at[w]
      BY <3>1 DEF Summarised
    <3>4. ASSUME NEW h \in Summarised', h = at[w] PROVE Covered(h + 1)'
      BY <1>3, <2>2, <3>2, <3>4, HourCovered
    <3> QED
      BY <1>1, <3>3, <3>4 DEF SummariesKept
  <2> QED
    BY <2>1, <2>2
<1>4. ASSUME NEW w \in Workers,
             Begin(w) \/ ReadHour(w) \/ HoursDone(w) \/ ReadChunk(w) \/ DeleteChunk(w) \/ End(w)
               \/ ReadEvidence(w) \/ Unlink(w) \/ Restart(w)
      PROVE  summaries' \subseteq summaries
  BY <1>4 DEF Begin, ReadHour, HoursDone, ReadChunk, DeleteChunk, End, ReadEvidence, Unlink, Restart
<1>5. ASSUME NEW i \in Logs, Store(i) \/ Check(i) PROVE summaries' \subseteq summaries
  BY <1>5 DEF Store, Check
<1>6. ASSUME NEW i \in Logs, NEW what \in Asked, Ask(i, what) \/ Refer(i, what)
      PROVE  summaries' \subseteq summaries
  BY <1>6 DEF Ask, Refer
<1>7. CASE Hour \/ UNCHANGED vars
  BY <1>2, <1>7 DEF Hour, vars
<1> QED
  BY <1>2, <1>3, <1>4, <1>5, <1>6, <1>7 DEF Next, Pass

\* At first there are no logs.
LEMMA InitRetention == Init => RetentionInv
<1> SUFFICES ASSUME Init PROVE RetentionInv
  OBVIOUS
<1>1. 0 \in Hours /\ -Keep \in -Keep .. MaxHour /\ 0 \in 0 .. Units /\ 0 \in 0 .. Count
      /\ 0 \in 0 .. MaxRestarts
  BY RetentionAssumption DEF Hours
<1>2. TypeOK
  <2>1. up \subseteq Workers
    BY DEF Init
  <2>2. /\ log \in [Logs -> {"none", "stored", "gone"}] /\ hour \in [Logs -> Hours]
        /\ checked \in [Logs -> BOOLEAN]
        /\ need \in [Logs -> SUBSET Needs] /\ asking \in [Logs -> SUBSET Needs]
        /\ counted \in [Logs -> Nat]
    BY <1>1 DEF Init
  <2>3. /\ pc \in [Workers -> {"idle", "hours", "summarise", "logs", "delete", "unlink"}]
        /\ limit \in [Workers -> -Keep .. MaxHour] /\ at \in [Workers -> Hours]
        /\ chosen \in [Workers -> SUBSET Logs]
        /\ units \in [Workers -> 0 .. Units] /\ through \in [Workers -> 0 .. Count]
    BY <1>1 DEF Init
  <2>4. /\ db \in Databases /\ clock \in Hours /\ restarts \in 0 .. MaxRestarts
        /\ summaries \in SUBSET (Hours \X {"an address", "no address"})
    BY <1>1 DEF Init
  <2> QED
    BY <2>1, <2>2, <2>3, <2>4 DEF TypeOK
<1>3. LogsKept /\ SummariesKept /\ \A w \in Workers : PassKept(w)
  <2>1. -Keep + Keep <= 0
    BY RetentionAssumption
  <2> QED
    BY <2>1 DEF Init, LogsKept, SummariesKept, Summarised, PassKept
<1> QED
  BY <1>2, <1>3 DEF RetentionInv

\* Types, and the hours that passes and summaries cover, are kept by every step.
THEOREM RetentionKeeps == Spec => []RetentionInv
<1>1. Init => RetentionInv
  BY InitRetention
<1>2. RetentionInv /\ [Next]_vars => RetentionInv'
  <2> SUFFICES ASSUME RetentionInv, [Next]_vars PROVE RetentionInv'
    OBVIOUS
  <2> QED
    BY StepTypes, StepLogs, StepSummaries, StepPasses DEF RetentionInv
<1> QED
  BY <1>1, <1>2, PTL DEF Spec

\* What a pass is about to delete was counted in a summary, whatever passes
\* were cut short, raised or restarted, and however many workers make them.
THEOREM DeletedWasCounted == Spec => []DeletedIsCounted
<1>1. RetentionInv => DeletedIsCounted
  BY DEF RetentionInv, PassKept, DeletedIsCounted
<1> QED
  BY <1>1, RetentionKeeps, PTL

-----------------------------------------------------------------------------
(***************************************************************************)
(* What is needed stays.                                                   *)
(***************************************************************************)

\* On SQLite, what a pass is about to delete does not become evidence, as it
\* was checked before the pass read it.
ChosenIsFree ==
    ~ForeignKeys => \A w \in Workers : pc[w] = "delete" =>
                       \A i \in chosen[w] : "evidence" \notin need[i]

NeedInv == NeededIsKept /\ ChosenIsFree

\* While no log goes and none is needed more, all stay as free as they are;
\* only a pass that reads what it may delete chooses anew.
LEMMA NeedStays ==
    ASSUME NeedInv, UNCHANGED <<db, log>>, \A i \in Logs : need'[i] \subseteq need[i],
           \A v \in Workers : pc'[v] = "delete" => chosen'[v] \subseteq Logs,
           \A v \in Workers : pc'[v] = "delete" =>
              \/ pc[v] = "delete" /\ chosen'[v] = chosen[v]
              \/ \A i \in chosen'[v] : need'[i] = {}
    PROVE  NeedInv'
<1>1. NeededIsKept'
  BY DEF NeedInv, NeededIsKept, ForeignKeys
<1>2. ChosenIsFree'
  BY DEF NeedInv, ChosenIsFree, ForeignKeys
<1> QED
  BY <1>1, <1>2 DEF NeedInv

\* Each step keeps what is needed.
LEMMA StepNeed ==
    ASSUME NoLateEvidence, RetentionInv, NeedInv, [Next]_vars PROVE NeedInv'
<1>0. /\ TypeOK /\ TypeOK' /\ LogsKept
      /\ log \in [Logs -> {"none", "stored", "gone"}] /\ need \in [Logs -> SUBSET Needs]
      /\ checked \in [Logs -> BOOLEAN]
      /\ pc \in [Workers -> {"idle", "hours", "summarise", "logs", "delete", "unlink"}]
      /\ chosen \in [Workers -> SUBSET Logs] /\ chosen' \in [Workers -> SUBSET Logs]
      /\ db \in Databases
  BY StepTypes DEF RetentionInv, TypeOK
<1>1. ASSUME UNCHANGED <<db, log, need, pc, chosen>> PROVE NeedInv'
  BY <1>0, <1>1, NeedStays
<1>2. ASSUME NEW w \in Workers,
             Begin(w) \/ ReadHour(w) \/ Summarise(w) \/ HoursDone(w) \/ End(w)
               \/ ReadEvidence(w) \/ Restart(w)
      PROVE  NeedInv'
  <2>1. UNCHANGED <<db, log, need>>
    BY <1>2 DEF Begin, ReadHour, Summarise, HoursDone, End, ReadEvidence, Restart, logVars
  <2>2. pc'[w] # "delete"
    BY <1>0, <1>2 DEF Begin, ReadHour, Summarise, HoursDone, End, ReadEvidence, Restart, Leave, Goto
  <2>3. \A v \in Workers : v # w => pc'[v] = pc[v] /\ chosen'[v] = chosen[v]
    BY <1>0, <1>2 DEF Begin, ReadHour, Summarise, HoursDone, End, ReadEvidence, Restart, Leave, Goto
  <2> QED
    BY <1>0, <2>1, <2>2, <2>3, NeedStays
<1>3. ASSUME NEW w \in Workers, ReadChunk(w) PROVE NeedInv'
  <2>1. /\ UNCHANGED <<db, log, need>>
        /\ \A v \in Workers : v # w => pc'[v] = pc[v] /\ chosen'[v] = chosen[v]
        /\ chosen'[w] = {i \in Deletable(w) : Cardinality({j \in Deletable(w) : j < i}) < Chunk}
    BY <1>0, <1>3 DEF ReadChunk, Goto, logVars
  <2>2. \A i \in chosen'[w] : need'[i] = {}
    BY <2>1 DEF Deletable
  <2> QED
    BY <1>0, <2>1, <2>2, NeedStays
<1>4. ASSUME NEW w \in Workers, DeleteChunk(w) PROVE NeedInv'
  <2>1. /\ UNCHANGED <<db, need>> /\ pc[w] = "delete" /\ pc'[w] # "delete"
        /\ \A v \in Workers : v # w => pc'[v] = pc[v] /\ chosen'[v] = chosen[v]
    BY <1>0, <1>4 DEF DeleteChunk, Leave, Goto
  <2>2. CASE Refused(chosen[w])
    <3>1. log' = log
      BY <1>4, <2>2 DEF DeleteChunk
    <3> QED
      BY <1>0, <2>1, <3>1, NeedStays
  <2>3. CASE ~Refused(chosen[w])
    <3>1. \A i \in Logs : log'[i] = IF i \in chosen[w] THEN "gone" ELSE log[i]
      BY <1>4, <2>3 DEF DeleteChunk
    <3>2. \A i \in chosen[w] : IF ForeignKeys THEN need[i] = {} ELSE "evidence" \notin need[i]
      BY <2>1, <2>3 DEF Refused, NeedInv, ChosenIsFree
    <3>3. NeededIsKept'
      BY <2>1, <3>1, <3>2 DEF NeedInv, NeededIsKept, ForeignKeys
    <3>4. ChosenIsFree'
      BY <2>1 DEF NeedInv, ChosenIsFree, ForeignKeys
    <3> QED
      BY <3>3, <3>4 DEF NeedInv
  <2> QED
    BY <2>2, <2>3
<1>5. ASSUME NEW w \in Workers, Unlink(w) PROVE NeedInv'
  <2>1. /\ db' = db /\ pc'[w] # "delete"
        /\ \A v \in Workers : v # w => pc'[v] = pc[v] /\ chosen'[v] = chosen[v]
    BY <1>0, <1>5 DEF Unlink, Leave, Goto
  <2>2. CASE ForeignKeys /\ \E i \in chosen[w] : "label" \in need[i]
    <3>1. UNCHANGED <<log, need>>
      BY <1>5, <2>2 DEF Unlink
    <3> QED
      BY <1>0, <2>1, <3>1, NeedStays
  <2>3. CASE ~(ForeignKeys /\ \E i \in chosen[w] : "label" \in need[i])
    <3>1. \A i \in Logs :
            /\ log'[i] = IF i \in chosen[w] THEN "gone" ELSE log[i]
            /\ need'[i] = IF i \in chosen[w] THEN need[i] \ {"evidence"} ELSE need[i]
      BY <1>5, <2>3 DEF Unlink
    <3>2. \A i \in chosen[w] : ForeignKeys => need[i] \ {"evidence"} = {}
      BY <1>0, <2>3 DEF Needs
    <3>3. NeededIsKept'
      BY <2>1, <3>1, <3>2 DEF NeedInv, NeededIsKept, ForeignKeys
    <3>4. ChosenIsFree'
      BY <1>0, <2>1, <3>1 DEF NeedInv, ChosenIsFree, ForeignKeys
    <3> QED
      BY <3>3, <3>4 DEF NeedInv
  <2> QED
    BY <2>2, <2>3
<1>6. ASSUME NEW i \in Logs, Store(i) PROVE NeedInv'
  <2>1. /\ UNCHANGED <<db, need, pc, chosen>>
        /\ \A j \in Logs : log'[j] = IF j = i THEN "stored" ELSE log[j]
    BY <1>0, <1>6 DEF Store, passVars
  <2> QED
    BY <2>1 DEF NeedInv, NeededIsKept, ChosenIsFree, ForeignKeys
<1>7. ASSUME NEW i \in Logs, Check(i) PROVE NeedInv'
  <2>1. /\ UNCHANGED <<db, log, pc, chosen>> /\ log[i] = "stored" /\ ~checked[i]
        /\ \A j \in Logs : j # i => need'[j] = need[j]
    BY <1>0, <1>7 DEF Check, passVars
  <2>2. \A w \in Workers : pc[w] = "delete" => i \notin chosen[w]
    BY <2>1 DEF RetentionInv, PassKept
  <2>3. NeededIsKept'
    BY <2>1 DEF NeedInv, NeededIsKept, ForeignKeys
  <2>4. ChosenIsFree'
    BY <1>0, <2>1, <2>2 DEF NeedInv, ChosenIsFree, ForeignKeys
  <2> QED
    BY <2>3, <2>4 DEF NeedInv
<1>8. ASSUME NEW i \in Logs, NEW what \in Asked, Ask(i, what) PROVE NeedInv'
  BY <1>1, <1>8 DEF Ask, passVars
<1>9. ASSUME NEW i \in Logs, NEW what \in Asked, Refer(i, what) PROVE NeedInv'
  <2>1. UNCHANGED <<db, log, pc, chosen>> /\ what \in asking[i]
    BY <1>9 DEF Refer, passVars
  <2>2. CASE ForeignKeys /\ log[i] = "gone"
    <3>1. need' = need
      BY <1>9, <2>2 DEF Refer
    <3> QED
      BY <1>1, <2>1, <3>1
  <2>3. CASE ~(ForeignKeys /\ log[i] = "gone")
    <3>1. \A j \in Logs : need'[j] = IF j = i THEN need[i] \union {what} ELSE need[j]
      BY <1>0, <1>9, <2>3 DEF Refer
    <3>2. log[i] # "none"
      BY <1>0, <2>1 DEF LogsKept
    <3>3. ForeignKeys => log[i] = "stored"
      BY <1>0, <2>3, <3>2
    <3>4. ~ForeignKeys => what # "evidence"
      BY <1>0, RetentionAssumption DEF ForeignKeys, NoLateEvidence
    <3>5. NeededIsKept'
      BY <2>1, <3>1, <3>3, <3>4 DEF NeedInv, NeededIsKept, ForeignKeys
    <3>6. ChosenIsFree'
      BY <1>0, <2>1, <3>1, <3>4 DEF NeedInv, ChosenIsFree, ForeignKeys
    <3> QED
      BY <3>5, <3>6 DEF NeedInv
  <2> QED
    BY <2>2, <2>3
<1>10. CASE Hour \/ UNCHANGED vars
  BY <1>1, <1>10 DEF Hour, vars, logVars, passVars
<1> QED
  BY <1>2, <1>3, <1>4, <1>5, <1>6, <1>7, <1>8, <1>9, <1>10 DEF Next, Pass

\* Evidence stays while passes run, and with foreign keys so does whatever a
\* person or a later run refers to meanwhile.
THEOREM LogsStaySound == ASSUME NoLateEvidence PROVE Spec => []LogsSound
<1>1. Init => NeedInv
  BY DEF Init, NeedInv, NeededIsKept, ChosenIsFree
<1>2. RetentionInv /\ NeedInv /\ [Next]_vars => NeedInv'
  BY StepNeed
<1>3. RetentionInv /\ NeedInv => LogsSound
  BY DEF RetentionInv, NeedInv, LogsSound
<1> QED
  BY <1>1, <1>2, <1>3, RetentionKeeps, PTL DEF Spec

-----------------------------------------------------------------------------
(***************************************************************************)
(* What is counted is counted once.                                        *)
(***************************************************************************)

\* While an hour's summary is not old enough to be pruned, a log of it with an
\* address that was counted has its row, which stops a second one.
RowStops(i) ==
    i \notin Nameless /\ hour[i] >= clock - KeepSummaries /\ counted[i] >= 1 =>
       counted[i] = 1 /\ <<hour[i], "an address">> \in summaries

\* With one worker, what was counted is of an hour no later than the newest
\* summarised one, and earlier than the hour its pass is at.
Behind(i) ==
    counted[i] >= 1 =>
       /\ counted[i] = 1
       /\ \E h \in Summarised : hour[i] <= h
       /\ \A w \in Workers : pc[w] \in {"hours", "summarise"} => hour[i] < at[w]

CountInv == \A i \in Logs : RowStops(i) /\ (Cardinality(up) = 1 => Behind(i))

\* When there is one worker, one pass is made at a time.
LEMMA OnePass ==
    ASSUME RetentionInv, Cardinality(up) = 1, NEW v \in up, NEW w \in Workers, pc[w] # "idle"
    PROVE  v = w
<1>1. up \in SUBSET Workers /\ w \in up
  BY DEF RetentionInv, TypeOK, PassKept
<1>2. IsFiniteSet(up)
  BY <1>1, FS_Subset, RetentionAssumption
<1>3. PICK x : up = {x}
  BY <1>2, FS_Singleton
<1> QED
  BY <1>1, <1>3

\* A step that neither counts nor prunes keeps rows and counts together.
LEMMA RowsStay ==
    ASSUME NEW i \in Logs, RowStops(i), UNCHANGED summaries, counted'[i] = counted[i],
           clock \in Int, clock' \in Int, hour[i] \in Int, clock <= clock',
           counted[i] >= 1 => hour'[i] = hour[i]
    PROVE  RowStops(i)'
<1>1. KeepSummaries \in Nat
  BY RetentionAssumption
<1> SUFFICES ASSUME i \notin Nameless, hour'[i] >= clock' - KeepSummaries, counted'[i] >= 1
             PROVE  counted'[i] = 1 /\ <<hour'[i], "an address">> \in summaries'
  BY DEF RowStops
<1>2. hour'[i] = hour[i] /\ counted[i] >= 1
  OBVIOUS
<1>3. hour[i] >= clock - KeepSummaries
  BY <1>1, <1>2
<1> QED
  BY <1>2, <1>3 DEF RowStops

\* Nor does it let a pass meet what was counted, if no pass changes its place.
LEMMA StaysBehind ==
    ASSUME NEW i \in Logs, Behind(i), UNCHANGED summaries, counted'[i] = counted[i],
           counted[i] >= 1 => hour'[i] = hour[i],
           \A w \in Workers : pc'[w] \in {"hours", "summarise"} =>
              /\ pc[w] \in {"hours", "summarise"} /\ at'[w] = at[w]
    PROVE  Behind(i)'
  BY DEF Behind, Summarised

\* A log is counted in a step only if it was not counted before.
LEMMA SummariseOnce ==
    ASSUME RetentionInv, RetentionInv', NEW w \in Workers, Summarise(w),
           NEW i \in Logs, RowStops(i), Cardinality(up) = 1 => Behind(i)
    PROVE  RowStops(i)' /\ (Cardinality(up) = 1 => Behind(i)')
<1> DEFINE rows == {<<at[w], Address(j)>> : j \in chosen[w]}
<1>0. /\ pc[w] = "summarise" /\ UNCHANGED <<clock, hour, up>>
      /\ pc \in [Workers -> {"idle", "hours", "summarise", "logs", "delete", "unlink"}]
      /\ at \in [Workers -> Hours] /\ counted[i] \in Nat
      /\ w \in up /\ \A j \in chosen[w] : hour[j] = at[w]
  BY DEF RetentionInv, TypeOK, PassKept, Summarise, logVars
<1>1. at[w] \in Int /\ hour[i] \in Int
  <2>1. Hours \subseteq Int
    BY RetentionAssumption DEF Hours
  <2>2. at[w] \in Hours /\ hour[i] \in Hours
    BY DEF RetentionInv, TypeOK
  <2> QED
    BY <2>1, <2>2
<1>2. CASE Clashing(rows)
  <2>1. UNCHANGED <<summaries, counted>> /\ Leave(w)
    BY <1>2 DEF Summarise
  <2>2. \A v \in Workers : pc'[v] \in {"hours", "summarise"} =>
           pc[v] \in {"hours", "summarise"} /\ at'[v] = at[v]
    BY <1>0, <2>1 DEF Leave, Goto
  <2>3. RowStops(i)'
    BY <1>0, <2>1 DEF RowStops
  <2> QED
    BY <1>0, <2>1, <2>2, <2>3, StaysBehind
<1>3. CASE ~Clashing(rows)
  <2>1. /\ summaries' = summaries \union rows
        /\ counted'[i] = counted[i] + IF i \in chosen[w] THEN 1 ELSE 0
        /\ at' = [at EXCEPT ![w] = at[w] + 1]
    BY <1>3 DEF Summarise
  <2>2. \A v \in Workers : v # w => pc'[v] = pc[v] /\ at'[v] = at[v]
    BY <1>0, <1>3 DEF Summarise, Goto
  <2>3. at'[w] = at[w] + 1
    BY <1>0, <2>1
  <2>4. CASE i \in chosen[w]
    <3>1. hour[i] = at[w] /\ <<at[w], Address(i)>> \in rows
      BY <1>0, <2>4
    <3>2. counted'[i] = counted[i] + 1
      BY <2>1, <2>4
    <3>3. RowStops(i)'
      <4>1. ASSUME i \notin Nameless, hour[i] >= clock - KeepSummaries
            PROVE  counted'[i] = 1 /\ <<hour[i], "an address">> \in summaries'
        <5>1. <<hour[i], "an address">> \in rows
          BY <3>1, <4>1 DEF Address
        <5>2. <<hour[i], "an address">> \notin summaries
          <6>1. ASSUME NEW row \in rows \intersect summaries PROVE row[2] = "no address"
            BY <1>3 DEF Clashing
          <6>2. <<hour[i], "an address">>[2] = "an address"
            OBVIOUS
          <6> HIDE DEF rows
          <6> QED
            BY <5>1, <6>1, <6>2
        <5>3. ~(counted[i] >= 1)
          BY <4>1, <5>2 DEF RowStops
        <5>4. counted'[i] = 1
          BY <1>0, <3>2, <5>3
        <5> QED
          BY <2>1, <5>1, <5>4
      <4>2. hour'[i] = hour[i] /\ clock' = clock
        BY <1>0
      <4> QED
        BY <4>1, <4>2 DEF RowStops
    <3>4. ASSUME Cardinality(up) = 1 PROVE Behind(i)'
      <4>1. ~(hour[i] < at[w])
        BY <1>1, <3>1
      <4>2. counted[i] = 0
        BY <1>0, <3>4, <4>1 DEF Behind
      <4>3. at[w] \in Summarised'
        <5>1. <<at[w], Address(i)>> \in summaries' /\ <<at[w], Address(i)>>[1] = at[w]
          BY <2>1, <3>1
        <5> QED
          BY <5>1 DEF Summarised
      <4>4. ASSUME NEW v \in Workers, pc'[v] \in {"hours", "summarise"} PROVE v = w
        <5>1. v # w => pc[v] # "idle"
          BY <2>2, <4>4
        <5> QED
          BY <1>0, <3>4, <5>1, OnePass
      <4> QED
        BY <1>0, <1>1, <2>3, <3>1, <3>2, <4>2, <4>3, <4>4 DEF Behind
    <3> QED
      BY <3>3, <3>4
  <2>5. CASE i \notin chosen[w]
    <3>1. counted'[i] = counted[i]
      BY <1>0, <2>1, <2>5
    <3>2. RowStops(i)'
      BY <1>0, <2>1, <3>1 DEF RowStops
    <3>3. ASSUME Behind(i) PROVE Behind(i)'
      <4>1. Summarised \subseteq Summarised'
        BY <2>1 DEF Summarised
      <4>2. ASSUME counted[i] >= 1, NEW v \in Workers, pc'[v] \in {"hours", "summarise"}
            PROVE  hour[i] < at'[v]
        <5>1. CASE v = w
          <6>1. hour[i] < at[w]
            BY <1>0, <3>3, <4>2 DEF Behind
          <6> QED
            BY <1>1, <2>3, <5>1, <6>1
        <5>2. CASE v # w
          BY <2>2, <3>3, <4>2, <5>2 DEF Behind
        <5> QED
          BY <5>1, <5>2
      <4> QED
        BY <1>0, <3>1, <3>3, <4>1, <4>2 DEF Behind
    <3> QED
      BY <3>2, <3>3
  <2> QED
    BY <2>4, <2>5
<1> QED
  BY <1>2, <1>3

\* A pass begins after all hours with a row.
LEMMA BeginBehind ==
    ASSUME RetentionInv, NEW w \in Workers, Begin(w), NEW i \in Logs, Behind(i) PROVE Behind(i)'
<1>0. /\ UNCHANGED <<summaries, counted, hour>>
      /\ at \in [Workers -> Hours] /\ hour[i] \in Hours
      /\ pc \in [Workers -> {"idle", "hours", "summarise", "logs", "delete", "unlink"}]
      /\ summaries \in SUBSET (Hours \X {"an address", "no address"})
  BY DEF RetentionInv, TypeOK, Begin, logVars
<1>1. PICK h \in NextHour : at' = [at EXCEPT ![w] = h]
  BY DEF Begin
<1>2. \A v \in Workers : v # w => pc'[v] = pc[v] /\ at'[v] = at[v]
  BY <1>0, <1>1 DEF Begin, Goto
<1>3. ASSUME counted[i] >= 1 PROVE hour[i] < h
  <2>1. PICK g \in Summarised : hour[i] <= g
    BY <1>3 DEF Behind
  <2>2. summaries # {}
    BY <2>1 DEF Summarised
  <2>3. PICK m \in Hours : Newest(m, Summarised) /\ h = m + 1
    BY <1>1, <2>2 DEF NextHour
  <2>4. g <= m /\ g \in Hours
    BY <1>0, <2>1, <2>3 DEF Newest, Summarised
  <2>5. Hours \subseteq Int
    BY RetentionAssumption DEF Hours
  <2>6. g \in Int /\ m \in Int /\ hour[i] \in Int
    BY <1>0, <2>3, <2>4, <2>5
  <2> QED
    BY <2>1, <2>3, <2>4, <2>6
<1>4. at'[w] = h
  BY <1>0, <1>1
<1> QED
  BY <1>0, <1>2, <1>3, <1>4 DEF Behind, Summarised

\* Pruning leaves the newest summarised hour, and the rows that are not old.
LEMMA EndCounts ==
    ASSUME RetentionInv, NEW w \in Workers, End(w), NEW i \in Logs
    PROVE  /\ RowStops(i) => RowStops(i)'
           /\ Behind(i) => Behind(i)'
<1>0. /\ UNCHANGED <<clock, hour, counted>> /\ summaries' = {s \in summaries : ~Pruned(w, s[1])}
      /\ clock \in Hours /\ hour[i] \in Hours
      /\ pc \in [Workers -> {"idle", "hours", "summarise", "logs", "delete", "unlink"}]
      /\ at \in [Workers -> Hours]
      /\ summaries \in SUBSET (Hours \X {"an address", "no address"})
      /\ Leave(w)
  BY DEF RetentionInv, TypeOK, End, logVars
<1>1. Hours \subseteq Int /\ KeepSummaries \in Nat /\ MaxHour \in Nat /\ Hours = 0 .. MaxHour
  BY RetentionAssumption DEF Hours
<1>2. ASSUME RowStops(i) PROVE RowStops(i)'
  <2>0. hour[i] \in Int /\ clock \in Int /\ KeepSummaries \in Int
    <3>1. hour[i] \in Hours /\ clock \in Hours /\ Hours \subseteq Int
      BY <1>0, <1>1
    <3>2. KeepSummaries \in Int
      BY <1>1
    <3> QED
      BY <3>1, <3>2
  <2>1. hour[i] >= clock - KeepSummaries => ~(hour[i] < limit[w] + Keep - KeepSummaries)
    <3>1. limit[w] + Keep <= clock /\ limit[w] \in -Keep .. MaxHour
      BY DEF RetentionInv, PassKept, TypeOK
    <3> QED
      BY <2>0, <3>1, RetentionAssumption
  <2>2. hour[i] >= clock - KeepSummaries => ~Pruned(w, hour[i])
    BY <2>1 DEF Pruned
  <2> QED
    BY <1>0, <1>2, <2>2 DEF RowStops
<1>3. ASSUME Behind(i) PROVE Behind(i)'
  <2>1. ASSUME counted[i] >= 1 PROVE \E h \in Summarised' : hour[i] <= h
    <3>1. PICK g \in Summarised : hour[i] <= g
      BY <1>3, <2>1 DEF Behind
    <3>2. Summarised \in SUBSET (0 .. MaxHour) /\ Summarised # {}
      <4>1. ASSUME NEW s \in summaries PROVE s[1] \in 0 .. MaxHour
        BY <1>0, <1>1
      <4> QED
        BY <3>1, <4>1 DEF Summarised
    <3>3. PICK m \in Summarised : \A h \in Summarised : h <= m
      BY <1>1, <3>2, Greatest
    <3>4. ~Pruned(w, m)
      BY <3>3 DEF Pruned, Newest
    <3>5. m \in Summarised'
      BY <1>0, <3>4 DEF Summarised
    <3>6. g <= m /\ g \in Int /\ m \in Int /\ hour[i] \in Int
      BY <1>0, <1>1, <3>2, <3>3
    <3> QED
      BY <3>1, <3>5, <3>6
  <2>2. \A v \in Workers : pc'[v] \in {"hours", "summarise"} =>
           pc[v] \in {"hours", "summarise"} /\ at'[v] = at[v]
    BY <1>0 DEF Leave, Goto
  <2> QED
    BY <1>0, <1>3, <2>1, <2>2 DEF Behind
<1> QED
  BY <1>2, <1>3

\* Each step keeps the counts at one.
LEMMA StepCounts ==
    ASSUME RetentionInv, RetentionInv', CountInv, [Next]_vars PROVE CountInv'
<1> SUFFICES ASSUME NEW i \in Logs PROVE RowStops(i)' /\ (Cardinality(up)' = 1 => Behind(i)')
  BY DEF CountInv
<1>0. /\ RowStops(i) /\ (Cardinality(up) = 1 => Behind(i)) /\ up' = up
      /\ clock <= clock' /\ (log[i] # "none" => hour'[i] = hour[i])
      /\ TypeOK /\ LogsKept
  BY Advance DEF RetentionInv, CountInv
<1>1. /\ clock \in Int /\ clock' \in Int /\ hour[i] \in Int
      /\ counted[i] >= 1 => log[i] # "none"
      /\ pc \in [Workers -> {"idle", "hours", "summarise", "logs", "delete", "unlink"}]
      /\ at \in [Workers -> Hours]
  <2>1. Hours \subseteq Int
    BY RetentionAssumption DEF Hours
  <2>2. clock \in Hours /\ clock' \in Hours /\ hour[i] \in Hours
    BY DEF RetentionInv, TypeOK
  <2>3. counted[i] >= 1 => log[i] # "none"
    <3>1. log[i] = "none" => counted[i] = 0
      BY <1>0 DEF LogsKept
    <3> QED
      BY <3>1
  <2>4. /\ pc \in [Workers -> {"idle", "hours", "summarise", "logs", "delete", "unlink"}]
        /\ at \in [Workers -> Hours]
    BY <1>0 DEF TypeOK
  <2> QED
    BY <2>1, <2>2, <2>3, <2>4
<1>2. ASSUME UNCHANGED <<summaries, counted>>,
             \A w \in Workers : pc'[w] \in {"hours", "summarise"} =>
                /\ pc[w] \in {"hours", "summarise"} /\ at'[w] = at[w]
      PROVE  RowStops(i)' /\ (Cardinality(up)' = 1 => Behind(i)')
  <2>1. RowStops(i)'
    BY <1>0, <1>1, <1>2, RowsStay
  <2>2. Behind(i) => Behind(i)'
    BY <1>0, <1>1, <1>2, StaysBehind
  <2> QED
    BY <1>0, <2>1, <2>2
<1>3. ASSUME NEW w \in Workers, Begin(w)
      PROVE  RowStops(i)' /\ (Cardinality(up)' = 1 => Behind(i)')
  <2>1. UNCHANGED <<summaries, counted>>
    BY <1>3 DEF Begin
  <2>2. RowStops(i)'
    BY <1>0, <1>1, <2>1, RowsStay
  <2> QED
    BY <1>0, <1>3, <2>2, BeginBehind
<1>4. ASSUME NEW w \in Workers, Summarise(w)
      PROVE  RowStops(i)' /\ (Cardinality(up)' = 1 => Behind(i)')
  BY <1>0, <1>4, SummariseOnce
<1>5. ASSUME NEW w \in Workers, End(w)
      PROVE  RowStops(i)' /\ (Cardinality(up)' = 1 => Behind(i)')
  BY <1>0, <1>5, EndCounts
<1>6. ASSUME NEW w \in Workers,
             ReadHour(w) \/ HoursDone(w) \/ ReadChunk(w) \/ DeleteChunk(w)
               \/ ReadEvidence(w) \/ Unlink(w) \/ Restart(w)
      PROVE  RowStops(i)' /\ (Cardinality(up)' = 1 => Behind(i)')
  <2>1. UNCHANGED <<summaries, counted>>
    BY <1>6 DEF ReadHour, HoursDone, ReadChunk, DeleteChunk, ReadEvidence, Unlink, Restart
  <2>2. \A v \in Workers : pc'[v] \in {"hours", "summarise"} =>
           pc[v] \in {"hours", "summarise"} /\ at'[v] = at[v]
    BY <1>1, <1>6 DEF ReadHour, HoursDone, ReadChunk, DeleteChunk, ReadEvidence, Unlink, Restart,
       Leave, Goto
  <2> QED
    BY <1>2, <2>1, <2>2
<1>7. ASSUME NEW j \in Logs, Store(j) \/ Check(j)
      PROVE  RowStops(i)' /\ (Cardinality(up)' = 1 => Behind(i)')
  BY <1>2, <1>7 DEF Store, Check, passVars
<1>8. ASSUME NEW j \in Logs, NEW what \in Asked, Ask(j, what) \/ Refer(j, what)
      PROVE  RowStops(i)' /\ (Cardinality(up)' = 1 => Behind(i)')
  BY <1>2, <1>8 DEF Ask, Refer, passVars
<1>9. CASE Hour \/ UNCHANGED vars
  BY <1>2, <1>9 DEF Hour, vars, passVars
<1> QED
  BY <1>3, <1>4, <1>5, <1>6, <1>7, <1>8, <1>9 DEF Next, Pass

\* A log is counted once: by a single worker always, and by several unless it
\* has no address or the hour's summary is old enough to be pruned.
THEOREM LogsCountedOnce == Spec => []CountedOnce
<1>1. Init => CountInv
  BY DEF Init, CountInv, RowStops, Behind
<1>2. RetentionInv /\ RetentionInv' /\ CountInv /\ [Next]_vars => CountInv'
  BY StepCounts
<1>3. RetentionInv /\ CountInv => CountedOnce
  <2> SUFFICES ASSUME RetentionInv, CountInv, NEW i \in Logs, OneCounts(i) PROVE counted[i] <= 1
    BY DEF CountedOnce
  <2>1. counted[i] \in Nat
    BY DEF RetentionInv, TypeOK
  <2>2. counted[i] >= 1 => counted[i] = 1
    BY DEF CountInv, RowStops, Behind, OneCounts
  <2> QED
    BY <2>1, <2>2
<1> QED
  BY <1>1, <1>2, <1>3, RetentionKeeps, PTL DEF Spec

=============================================================================
