---------------------------- MODULE ChecksProofs ----------------------------
(***************************************************************************)
(* A log becomes evidence of one alert, for any feed, any batches, any     *)
(* number of checks that fail, alerts that are closed and rebuilds,        *)
(* provided that two checks never judge at the same time: what PostgreSQL's *)
(* lock sees to, and nothing does on SQLite.  Without faults, what is      *)
(* found batch by batch is what judging everything at once would find.     *)
(***************************************************************************)
EXTENDS Checks, SequenceTheorems, TLAPS

\* Checks judge one after the other.
OneAtATime == "two_at_once" \notin Faults

\* Nothing was stored, judged or alerted.
LEMMA InitIsNew == Init => JudgedIsNew
<1> SUFFICES ASSUME Init PROVE JudgedIsNew
  OBVIOUS
<1>1. TypeOK
  <2>1. /\ Everything \in -1 .. Newest
        /\ \A c \in Checkers : hands[c] = Empty
    BY CheckAssumption DEF Init, Everything, Newest
  <2>2. /\ time \in Seq(None .. MaxTime) /\ Len(time) = 0
        /\ state \in Seq(States) /\ evidence \in Seq(SUBSET Logs)
        /\ Len(state) = 0 /\ Len(evidence) = 0
    BY EmptySeq DEF Init
  <2>3. /\ pattern \in Patterns /\ quiet \in BOOLEAN /\ floor \in Nat /\ checked \subseteq Logs
        /\ DOMAIN hands = Checkers
        /\ pc \in [Checkers -> {"idle", "batch", "judges"}]
        /\ scope \in [Checkers -> -1 .. Newest]
    BY <2>1 DEF Init
  <2>4. /\ presses \in 0 .. MaxPresses /\ works \in 0 .. MaxWorks
        /\ rebuilds \in 0 .. MaxRebuilds /\ mishaps \in 0 .. MaxMishaps
        /\ Len(time) <= MaxLogs
    BY <2>2, CheckAssumption DEF Init
  <2>5. \A c \in Checkers :
          /\ hands[c].batch \subseteq Logs
          /\ \A g \in hands[c].groups : g # {} /\ g \subseteq hands[c].batch
          /\ hands[c].into \in 0 .. Len(state)
          /\ pc[c] # "judges" => hands[c] = Empty
    BY <2>1, <2>2 DEF Empty
  <2> QED
    BY <2>2, <2>3, <2>4, <2>5 DEF TypeOK
<1>2. OneJudges
  BY DEF Init, OneJudges
<1>3. DOMAIN evidence = {}
  BY EmptySeq DEF Init
<1> QED
  BY <1>1, <1>2, <1>3 DEF JudgedIsNew, NewInHand, EvidenceOnce

\* A batch consists of stored logs.
LEMMA BatchType ==
    ASSUME NEW s, NEW batch \in Batches(s)
    PROVE  batch \subseteq Logs
<1>1. CASE s = Newest
  BY <1>1 DEF Batches
<1>2. CASE s # Newest
  <2>1. PICK due : due \subseteq Unchecked /\ batch = Batch(due)
    BY <1>2 DEF Batches
  <2>2. Batch(due) \subseteq due
    BY DEF Batch, Oldest
  <2> QED
    BY <2>1, <2>2 DEF Unchecked
<1> QED
  BY <1>1, <1>2

\* What a check finds in a batch is of that batch, and evidence of nothing.
LEMMA GroupsAreNew ==
    ASSUME NEW batch, NEW seen, NEW found, found = Found(batch, seen),
           NEW g \in Groups(found, seen)
    PROVE  /\ g # {} /\ g \subseteq batch
           /\ \A i \in DOMAIN evidence : g \intersect evidence[i] = {}
<1>1. PICK l \in found : g = {m \in found : GroupOf(m, seen) = GroupOf(l, seen)}
  BY DEF Groups
<1>2. l \in g /\ g \subseteq found
  BY <1>1
<1>3. found \subseteq batch /\ found \intersect AlreadyAlerted = {}
  BY DEF Found
<1> QED
  BY <1>2, <1>3 DEF AlreadyAlerted

\* Groups that are evidence of nothing go to one alert, old or new.
LEMMA AlertKeeps ==
    ASSUME TypeOK, EvidenceOnce, NEW into \in 0 .. Len(state), NEW groups,
           UNION groups \subseteq Logs,
           \A g \in groups, i \in DOMAIN evidence : g \intersect evidence[i] = {},
           Alert(into, groups)
    PROVE  /\ state' \in Seq(States) /\ evidence' \in Seq(SUBSET Logs)
           /\ Len(state') = Len(evidence') /\ Len(state) <= Len(state')
           /\ EvidenceOnce'
<1> DEFINE logs == UNION groups
<1>1. /\ state \in Seq(States) /\ evidence \in Seq(SUBSET Logs) /\ Len(state) = Len(evidence)
      /\ Len(state) \in Nat
      /\ DOMAIN evidence = 1 .. Len(evidence)
  BY LenProperties DEF TypeOK
<1>2. logs \in SUBSET Logs /\ \A i \in DOMAIN evidence : logs \intersect evidence[i] = {}
  OBVIOUS
<1>3. CASE logs = {}
  BY <1>1, <1>3 DEF Alert, alertVars, EvidenceOnce
<1>4. CASE logs # {} /\ into = 0
  <2>1. state' = Append(state, "open") /\ evidence' = Append(evidence, logs)
    BY <1>4 DEF Alert
  <2>2. /\ state' \in Seq(States) /\ Len(state') = Len(state) + 1
        /\ evidence' \in Seq(SUBSET Logs) /\ Len(evidence') = Len(evidence) + 1
    BY <1>1, <1>2, <2>1, AppendProperties DEF States
  <2>3. /\ DOMAIN evidence' = 1 .. Len(evidence) + 1
        /\ \A i \in 1 .. Len(evidence) : evidence'[i] = evidence[i]
        /\ evidence'[Len(evidence) + 1] = logs
    BY <1>1, <1>2, <2>1, <2>2, AppendProperties, LenProperties
  <2>4. \A i \in DOMAIN evidence' : i \in DOMAIN evidence \/ i = Len(evidence) + 1
    BY <1>1, <2>3
  <2>5. EvidenceOnce'
    BY <1>1, <1>2, <2>3, <2>4 DEF EvidenceOnce
  <2> QED
    BY <1>1, <2>2, <2>5
<1>5. CASE logs # {} /\ into # 0
  <2>1. evidence' = [evidence EXCEPT ![into] = @ \union logs] /\ state' = state
    BY <1>5 DEF Alert
  <2>2. into \in 1 .. Len(evidence) /\ evidence[into] \union logs \in SUBSET Logs
    BY <1>1, <1>2, <1>5, ElementOfSeq
  <2>3. /\ evidence' \in Seq(SUBSET Logs) /\ Len(evidence') = Len(evidence)
        /\ \A i \in 1 .. Len(evidence) :
              evidence'[i] = IF i = into THEN evidence[into] \union logs ELSE evidence[i]
    BY <1>1, <2>1, <2>2, ExceptSeq
  <2>4. DOMAIN evidence' = DOMAIN evidence
    BY <1>1, <2>3, LenProperties
  <2>5. EvidenceOnce'
    BY <1>1, <1>2, <2>2, <2>3, <2>4 DEF EvidenceOnce
  <2> QED
    BY <1>1, <2>1, <2>3, <2>5
<1> QED
  BY <1>3, <1>4, <1>5

-----------------------------------------------------------------------------
\* Steps of the feed and of analysts leave what the checks have in hand, and the
\* evidence, as they are.
LEMMA OthersKeep ==
    ASSUME JudgedIsNew, UNCHANGED <<evidence, pc, hands>>, TypeOK'
    PROVE  JudgedIsNew'
<1>1. OneJudges'
  BY DEF JudgedIsNew, OneJudges
<1>2. NewInHand'
  BY DEF JudgedIsNew, NewInHand
<1>3. EvidenceOnce'
  BY DEF JudgedIsNew, EvidenceOnce
<1> QED
  BY <1>1, <1>2, <1>3 DEF JudgedIsNew

\* Another log is stored.
LEMMA StoreKeeps == ASSUME JudgedIsNew, NEW t \in None .. MaxTime, Store(t) PROVE JudgedIsNew'
<1>1. /\ time \in Seq(None .. MaxTime) /\ Len(time) <= MaxLogs /\ Len(time) \in Nat
      /\ Logs = 1 .. Len(time)
  BY LenProperties DEF JudgedIsNew, TypeOK, Logs
<1>2. time' = Append(time, t) /\ Len(time) < MaxLogs
  BY DEF Store
<1>3. time' \in Seq(None .. MaxTime) /\ Len(time') = Len(time) + 1
  BY <1>1, <1>2, AppendProperties
<1>4. Logs' = 1 .. Len(time) + 1
  BY <1>3, LenProperties DEF Logs
<1>5. Logs \subseteq Logs' /\ Len(time') <= MaxLogs
  BY <1>1, <1>2, <1>3, <1>4, CheckAssumption
<1>6. evidence' \in Seq(SUBSET Logs')
  <2>1. SUBSET Logs \subseteq SUBSET Logs'
    BY <1>5
  <2>2. evidence \in Seq(SUBSET Logs')
    BY <2>1, SeqMonotonic DEF JudgedIsNew, TypeOK
  <2> QED
    BY <2>2 DEF Store, alertVars
<1>7. TypeOK'
  BY <1>3, <1>5, <1>6 DEF Store, JudgedIsNew, TypeOK, alertVars, boundVars
<1> QED
  BY <1>7, OthersKeep DEF Store, alertVars

\* The feed goes quiet, or ATDR stops for a rebuild.
LEMMA QuietType == ASSUME TypeOK, Quiet PROVE quiet' \in BOOLEAN /\ floor' \in Nat
  BY CheckAssumption DEF TypeOK, Quiet

LEMMA QuietKeeps == ASSUME JudgedIsNew, GoesQuiet PROVE JudgedIsNew'
<1>1. quiet' \in BOOLEAN /\ floor' \in Nat
  BY QuietType DEF GoesQuiet, JudgedIsNew
<1>2. TypeOK'
  BY <1>1 DEF GoesQuiet, JudgedIsNew, TypeOK, alertVars, boundVars, Logs
<1> QED
  BY <1>2, OthersKeep DEF GoesQuiet, alertVars

\* An alert is taken up or closed.
LEMMA WorkKeeps ==
    ASSUME JudgedIsNew, NEW i \in DOMAIN state, NEW now \in {"worked", "closed"}, WorkOn(i, now)
    PROVE  JudgedIsNew'
<1>1. state \in Seq(States) /\ i \in 1 .. Len(state) /\ now \in States
  BY LenProperties DEF JudgedIsNew, TypeOK, States
<1>2. state' \in Seq(States) /\ Len(state') = Len(state)
  BY <1>1, ExceptSeq DEF WorkOn
<1>3. works' \in 0 .. MaxWorks
  <2>1. works \in 0 .. MaxWorks /\ MaxWorks \in Nat
    BY CheckAssumption DEF JudgedIsNew, TypeOK
  <2> QED
    BY <2>1 DEF WorkOn
<1>4. /\ UNCHANGED <<pattern, time, quiet, floor, checked, evidence, pc, scope, hands>>
      /\ UNCHANGED <<presses, rebuilds, mishaps>> /\ Logs' = Logs
  BY DEF WorkOn, feedVars, Logs
<1>5. \A c \in Checkers : hands'[c].into \in 0 .. Len(state')
  BY <1>2, <1>4 DEF JudgedIsNew, TypeOK
<1>6. TypeOK'
  BY <1>2, <1>3, <1>4, <1>5 DEF JudgedIsNew, TypeOK
<1> QED
  BY <1>6, OthersKeep DEF WorkOn

\* A check begins with a scope of its own.
LEMMA ScopeKeeps ==
    ASSUME JudgedIsNew, NEW c \in Checkers, NEW s \in -1 .. Newest, pc[c] = "idle",
           scope' = [scope EXCEPT ![c] = s], pc' = [pc EXCEPT ![c] = "batch"],
           presses' \in 0 .. MaxPresses, UNCHANGED <<feedVars, checked, alertVars, hands>>,
           UNCHANGED <<works, rebuilds, mishaps>>
    PROVE  JudgedIsNew'
<1>1. scope' \in [Checkers -> -1 .. Newest] /\ pc' \in [Checkers -> {"idle", "batch", "judges"}]
  BY DEF JudgedIsNew, TypeOK
<1>2. \A d \in Checkers : pc'[d] = "judges" => pc[d] = "judges"
  BY DEF JudgedIsNew, TypeOK
<1>3. \A d \in Checkers : pc'[d] # "judges" => pc[d] # "judges"
  BY DEF JudgedIsNew, TypeOK
<1>4. TypeOK'
  BY <1>1, <1>3 DEF JudgedIsNew, TypeOK, feedVars, alertVars, Logs
<1>5. OneJudges'
  BY <1>2 DEF JudgedIsNew, OneJudges
<1>6. NewInHand' /\ EvidenceOnce'
  BY DEF JudgedIsNew, NewInHand, EvidenceOnce, alertVars
<1> QED
  BY <1>4, <1>5, <1>6 DEF JudgedIsNew

\* The worker looks for logs that are due.
LEMMA LookKeeps == ASSUME JudgedIsNew, Look PROVE JudgedIsNew'
<1>1. PICK s \in -1 .. Everything : scope' = [scope EXCEPT !["automatic"] = s]
  BY DEF Look
<1>2. s \in -1 .. Newest
  BY CheckAssumption DEF Everything, Newest
<1>3. presses' \in 0 .. MaxPresses /\ UNCHANGED <<works, rebuilds, mishaps>>
  BY DEF Look, boundVars, JudgedIsNew, TypeOK
<1>4. "automatic" \in Checkers
  BY DEF Checkers
<1> QED
  BY <1>1, <1>2, <1>3, <1>4, ScopeKeeps DEF Look

\* A button is pressed.
LEMMA PressKeeps ==
    ASSUME JudgedIsNew, NEW s \in {Everything, Newest}, Press(s)
    PROVE  JudgedIsNew'
<1>1. s \in -1 .. Newest
  BY CheckAssumption DEF Everything, Newest
<1>2. presses' \in 0 .. MaxPresses
  BY CheckAssumption DEF Press, JudgedIsNew, TypeOK
<1>3. "button" \in Checkers
  BY DEF Checkers
<1> QED
  BY <1>1, <1>2, <1>3, ScopeKeeps DEF Press

\* A rebuild takes the evidence of the alerts nobody has worked on: what is left is
\* still of one alert, and no check has anything in hand.
LEMMA RebuildKeeps == ASSUME JudgedIsNew, Rebuild PROVE JudgedIsNew'
<1>1. /\ state \in Seq(States) /\ evidence \in Seq(SUBSET Logs)
      /\ Len(state) \in Nat /\ Len(state) = Len(evidence)
      /\ DOMAIN state = 1 .. Len(state) /\ DOMAIN evidence = 1 .. Len(state)
      /\ state \in [1 .. Len(state) -> States]
      /\ evidence \in [1 .. Len(state) -> SUBSET Logs]
  BY LenProperties DEF JudgedIsNew, TypeOK
<1>2. /\ state' \in [1 .. Len(state) -> States]
      /\ evidence' \in [1 .. Len(state) -> SUBSET Logs]
      /\ \A i \in 1 .. Len(state) : evidence'[i] \subseteq evidence[i]
  <2>1. state' \in [1 .. Len(state) -> States]
    BY <1>1 DEF Rebuild, States
  <2>2. /\ evidence' \in [1 .. Len(state) -> SUBSET Logs]
        /\ \A i \in 1 .. Len(state) : evidence'[i] \subseteq evidence[i]
    BY <1>1 DEF Rebuild
  <2> QED
    BY <2>1, <2>2
<1>3. state' \in Seq(States) /\ evidence' \in Seq(SUBSET Logs)
  <2>1. \A S : [1 .. Len(state) -> S] \subseteq Seq(S)
    BY <1>1, SeqDef
  <2>2. state' \in [1 .. Len(state) -> States] /\ evidence' \in [1 .. Len(state) -> SUBSET Logs]
    BY <1>2
  <2> QED
    BY <2>1, <2>2, Zenon
<1>4. /\ DOMAIN state' = 1 .. Len(state) /\ DOMAIN evidence' = 1 .. Len(state)
  BY <1>2
<1>5. Len(state') = Len(state) /\ Len(evidence') = Len(state)
  BY <1>1, <1>3, <1>4, LenProperties
<1>6. Logs' = Logs /\ \A c \in Checkers : pc[c] = "idle" /\ hands'[c] = Empty
  BY DEF Rebuild, Logs, JudgedIsNew, TypeOK
<1>7. /\ pc' \in [Checkers -> {"idle", "batch", "judges"}]
      /\ scope' \in [Checkers -> -1 .. Newest]
      /\ \A c \in Checkers : pc'[c] # "judges"
  <2>1. Everything \in -1 .. Newest
    BY CheckAssumption DEF Everything, Newest
  <2> QED
    BY <1>6, <2>1 DEF Rebuild, JudgedIsNew, TypeOK
<1>8. /\ quiet' \in BOOLEAN /\ floor' \in Nat /\ rebuilds' \in 0 .. MaxRebuilds
      /\ presses' \in 0 .. MaxPresses /\ works' \in 0 .. MaxWorks /\ mishaps' \in 0 .. MaxMishaps
  <2>1. quiet' \in BOOLEAN /\ floor' \in Nat
    BY QuietType DEF Rebuild, JudgedIsNew
  <2>2. rebuilds' \in 0 .. MaxRebuilds
    BY CheckAssumption DEF Rebuild, JudgedIsNew, TypeOK
  <2> QED
    BY <2>1, <2>2 DEF Rebuild, JudgedIsNew, TypeOK
<1>9. \A c \in Checkers :
          /\ hands'[c].batch = {} /\ hands'[c].groups = {} /\ hands'[c].into = 0
  BY <1>6 DEF Empty
<1>10. TypeOK'
  <2>1. /\ pattern' \in Patterns /\ time' \in Seq(None .. MaxTime) /\ Len(time') <= MaxLogs
        /\ checked' \subseteq Logs' /\ DOMAIN hands' = Checkers
    BY DEF Rebuild, JudgedIsNew, TypeOK
  <2>2. \A c \in Checkers :
          /\ hands'[c].batch \subseteq Logs'
          /\ \A g \in hands'[c].groups : g # {} /\ g \subseteq hands'[c].batch
          /\ hands'[c].into \in 0 .. Len(state')
          /\ pc'[c] # "judges" => hands'[c] = Empty
    BY <1>1, <1>5, <1>6, <1>9
  <2> QED
    BY <1>3, <1>5, <1>6, <1>7, <1>8, <2>1, <2>2 DEF TypeOK, Empty
<1>11. OneJudges'
  BY <1>7 DEF OneJudges
<1>12. NewInHand'
  BY <1>9 DEF NewInHand
<1>13. EvidenceOnce'
  BY <1>1, <1>2, <1>4 DEF JudgedIsNew, EvidenceOnce
<1> QED
  BY <1>10, <1>11, <1>12, <1>13 DEF JudgedIsNew

-----------------------------------------------------------------------------
\* A check takes a batch in hand, when no other one judges.
LEMMA BeginKeeps ==
    ASSUME JudgedIsNew, OneAtATime, NEW c \in Checkers, Begin(c)
    PROVE  JudgedIsNew'
<1>1. PICK batch \in Batches(scope[c]), i \in IF Taking = {} THEN {0} ELSE Taking :
         \E seen \in {Seen(batch)} : \E found \in {Found(batch, seen)} :
            hands' = [hands EXCEPT ![c] = [batch |-> batch, groups |-> Groups(found, seen),
                                           into  |-> i]]
  BY DEF Begin
<1>2. PICK groups :
         /\ hands' = [hands EXCEPT ![c] = [batch |-> batch, groups |-> groups, into |-> i]]
         /\ \A g \in groups :
               /\ g # {} /\ g \subseteq batch
               /\ \A j \in DOMAIN evidence : g \intersect evidence[j] = {}
  <2>1. PICK seen, found :
           /\ found = Found(batch, seen)
           /\ hands' = [hands EXCEPT ![c] = [batch |-> batch, groups |-> Groups(found, seen),
                                             into  |-> i]]
    BY <1>1
  <2>2. \A g \in Groups(found, seen) :
           /\ g # {} /\ g \subseteq batch
           /\ \A j \in DOMAIN evidence : g \intersect evidence[j] = {}
    BY <2>1, GroupsAreNew
  <2> QED
    BY <2>1, <2>2
<1>3. i \in 0 .. Len(state) /\ batch \subseteq Logs
  BY BatchType, LenProperties DEF Taking, JudgedIsNew, TypeOK
<1>4. /\ DOMAIN hands' = Checkers
      /\ hands'[c] = [batch |-> batch, groups |-> groups, into |-> i]
      /\ \A d \in Checkers \ {c} : hands'[d] = hands[d]
  BY <1>2 DEF JudgedIsNew, TypeOK
<1>5. /\ pc' \in [Checkers -> {"idle", "batch", "judges"}]
      /\ pc'[c] = "judges"
      /\ \A d \in Checkers \ {c} : pc'[d] = pc[d] /\ pc[d] # "judges"
  BY DEF Begin, Alone, OneAtATime, JudgedIsNew, TypeOK
<1>6. \A d \in Checkers :
          /\ hands'[d].batch \subseteq Logs'
          /\ \A g \in hands'[d].groups : g # {} /\ g \subseteq hands'[d].batch
          /\ hands'[d].into \in 0 .. Len(state')
          /\ pc'[d] # "judges" => hands'[d] = Empty
  <2>1. Logs' = Logs /\ state' = state
    BY DEF Begin, feedVars, alertVars, Logs
  <2>2. hands'[c].batch = batch /\ hands'[c].groups = groups /\ hands'[c].into = i
    BY <1>4
  <2>3. /\ hands'[c].batch \subseteq Logs'
        /\ \A g \in hands'[c].groups : g # {} /\ g \subseteq hands'[c].batch
        /\ hands'[c].into \in 0 .. Len(state')
        /\ pc'[c] = "judges"
    BY <1>2, <1>3, <1>5, <2>1, <2>2
  <2>4. ASSUME NEW d \in Checkers \ {c}
        PROVE  /\ hands'[d].batch \subseteq Logs'
               /\ \A g \in hands'[d].groups : g # {} /\ g \subseteq hands'[d].batch
               /\ hands'[d].into \in 0 .. Len(state')
               /\ pc'[d] # "judges" => hands'[d] = Empty
    BY <1>4, <1>5, <2>1, <2>4 DEF JudgedIsNew, TypeOK
  <2> QED
    BY <2>3, <2>4
<1>7. TypeOK'
  BY <1>4, <1>5, <1>6 DEF Begin, JudgedIsNew, TypeOK, feedVars, alertVars, boundVars, Logs
<1>8. OneJudges'
  BY <1>5 DEF OneJudges
<1>9. NewInHand' /\ EvidenceOnce'
  <2>1. evidence' = evidence
    BY DEF Begin, alertVars
  <2>2. hands'[c].groups = groups
    BY <1>4
  <2>3. NewInHand'
    BY <1>2, <1>4, <2>1, <2>2 DEF JudgedIsNew, NewInHand
  <2> QED
    BY <2>1, <2>3 DEF JudgedIsNew, EvidenceOnce
<1> QED
  BY <1>7, <1>8, <1>9 DEF JudgedIsNew

\* A check ends with nothing in hand, and what became evidence of its batch was of
\* that batch alone: the other checks have nothing in hand either.
LEMMA EndKeeps ==
    ASSUME JudgedIsNew, NEW c \in Checkers, NEW groups \in SUBSET hands[c].groups,
           pc[c] = "judges" \/ groups = {}, Alert(hands[c].into, groups),
           hands' = [hands EXCEPT ![c] = Empty],
           pc' \in [Checkers -> {"idle", "batch", "judges"}], pc'[c] # "judges",
           \A d \in Checkers \ {c} : pc'[d] = pc[d],
           scope' \in [Checkers -> -1 .. Newest],
           checked' \subseteq Logs, mishaps' \in 0 .. MaxMishaps,
           UNCHANGED <<feedVars, presses, works, rebuilds>>
    PROVE  JudgedIsNew'
<1>1. /\ UNION groups \subseteq Logs
      /\ \A g \in groups, i \in DOMAIN evidence : g \intersect evidence[i] = {}
  BY DEF JudgedIsNew, TypeOK, NewInHand
<1>2. hands[c].into \in 0 .. Len(state)
  BY DEF JudgedIsNew, TypeOK
<1>3. /\ state' \in Seq(States) /\ evidence' \in Seq(SUBSET Logs)
      /\ Len(state') = Len(evidence') /\ Len(state) <= Len(state')
      /\ EvidenceOnce'
  BY <1>1, <1>2, AlertKeeps DEF JudgedIsNew
<1>4. Logs' = Logs /\ Len(state) \in Nat /\ Len(state') \in Nat
  BY <1>3, LenProperties DEF feedVars, Logs, JudgedIsNew, TypeOK
<1>5. /\ DOMAIN hands' = Checkers /\ hands'[c] = Empty
      /\ \A d \in Checkers \ {c} : hands'[d] = hands[d]
  BY DEF JudgedIsNew, TypeOK
<1>6. ASSUME NEW d \in Checkers
      PROVE  /\ hands'[d].batch \subseteq Logs'
             /\ \A g \in hands'[d].groups : g # {} /\ g \subseteq hands'[d].batch
             /\ hands'[d].into \in 0 .. Len(state')
             /\ pc'[d] # "judges" => hands'[d] = Empty
  <2>1. CASE d = c
    BY <1>4, <1>5, <2>1 DEF Empty
  <2>2. CASE d # c
    <3>1. hands'[d] = hands[d] /\ pc'[d] = pc[d]
      BY <1>5, <2>2
    <3>2. /\ hands[d].batch \subseteq Logs
          /\ \A g \in hands[d].groups : g # {} /\ g \subseteq hands[d].batch
          /\ hands[d].into \in 0 .. Len(state)
          /\ pc[d] # "judges" => hands[d] = Empty
      BY DEF JudgedIsNew, TypeOK
    <3>3. Len(state) <= Len(state')
      BY <1>3
    <3> QED
      BY <1>4, <3>1, <3>2, <3>3
  <2> QED
    BY <2>1, <2>2
<1>7. TypeOK'
  <2>1. /\ pattern' \in Patterns /\ time' \in Seq(None .. MaxTime) /\ Len(time') <= MaxLogs
        /\ quiet' \in BOOLEAN /\ floor' \in Nat
        /\ presses' \in 0 .. MaxPresses /\ works' \in 0 .. MaxWorks
        /\ rebuilds' \in 0 .. MaxRebuilds
    BY DEF feedVars, JudgedIsNew, TypeOK
  <2> QED
    BY <1>3, <1>4, <1>5, <1>6, <2>1 DEF TypeOK
<1>8. OneJudges'
  BY DEF JudgedIsNew, OneJudges
<1>9. NewInHand'
  <2> SUFFICES ASSUME NEW d \in Checkers, NEW g \in hands'[d].groups
               PROVE  \A i \in DOMAIN evidence' : g \intersect evidence'[i] = {}
    BY DEF NewInHand
  <2>1. d # c /\ hands'[d] = hands[d] /\ pc[d] = "judges"
    BY <1>5 DEF Empty, JudgedIsNew, TypeOK
  <2>2. groups = {}
    BY <2>1 DEF JudgedIsNew, OneJudges
  <2>3. evidence' = evidence
    BY <2>2 DEF Alert, alertVars
  <2> QED
    BY <2>1, <2>3 DEF JudgedIsNew, NewInHand
<1> QED
  BY <1>3, <1>7, <1>8, <1>9 DEF JudgedIsNew

\* A batch is committed.
LEMMA CommitKeeps == ASSUME JudgedIsNew, NEW c \in Checkers, Commit(c) PROVE JudgedIsNew'
<1>1. pc[c] = "judges" /\ Alert(hands[c].into, hands[c].groups)
  BY DEF Commit
<1>2. /\ pc' \in [Checkers -> {"idle", "batch", "judges"}] /\ pc'[c] # "judges"
      /\ \A d \in Checkers \ {c} : pc'[d] = pc[d]
      /\ scope' \in [Checkers -> -1 .. Newest]
  <2>1. Everything \in -1 .. Newest
    BY CheckAssumption DEF Everything, Newest
  <2>2. CASE pc' = [pc EXCEPT ![c] = "batch"] /\ UNCHANGED scope
    BY <2>2 DEF JudgedIsNew, TypeOK
  <2>3. CASE Done(c)
    BY <2>1, <2>3 DEF Done, JudgedIsNew, TypeOK
  <2> QED
    BY <2>2, <2>3 DEF Commit
<1>3. checked' \subseteq Logs
  BY DEF Commit, JudgedIsNew, TypeOK
<1>4. mishaps' \in 0 .. MaxMishaps /\ UNCHANGED <<presses, works, rebuilds>>
  BY DEF Commit, boundVars, JudgedIsNew, TypeOK
<1> QED
  BY <1>1, <1>2, <1>3, <1>4, EndKeeps DEF Commit

\* A check that comes to grief.
LEMMA MishapType ==
    ASSUME TypeOK, NEW c \in Checkers, Mishap(c)
    PROVE  /\ pc' \in [Checkers -> {"idle", "batch", "judges"}] /\ pc'[c] # "judges"
           /\ \A d \in Checkers \ {c} : pc'[d] = pc[d]
           /\ scope' \in [Checkers -> -1 .. Newest]
           /\ mishaps' \in 0 .. MaxMishaps
<1>1. mishaps \in 0 .. MaxMishaps /\ MaxMishaps \in Nat
  BY CheckAssumption DEF TypeOK
<1>2. mishaps' \in 0 .. MaxMishaps
  BY <1>1 DEF Mishap
<1>3. Everything \in -1 .. Newest
  BY CheckAssumption DEF Everything, Newest
<1> QED
  BY <1>2, <1>3 DEF Mishap, Done, TypeOK

\* Its process ends.
LEMMA EndsKeeps == ASSUME JudgedIsNew, NEW c \in Checkers, Ends(c) PROVE JudgedIsNew'
<1>1. Alert(hands[c].into, {})
  BY DEF Ends, Alert
<1>2. checked' \subseteq Logs
  BY DEF Ends, JudgedIsNew, TypeOK
<1> QED
  BY <1>1, <1>2, MishapType, EndKeeps DEF Ends, Mishap, JudgedIsNew

\* Some of its groups had their alert when it failed.
LEMMA FailsKeeps == ASSUME JudgedIsNew, NEW c \in Checkers, Fails(c) PROVE JudgedIsNew'
<1>1. PICK groups \in SUBSET hands[c].groups : Alert(hands[c].into, groups)
  BY DEF Fails
<1>2. pc[c] = "judges" /\ checked' \subseteq Logs
  BY DEF Fails, JudgedIsNew, TypeOK
<1> QED
  BY <1>1, <1>2, MishapType, EndKeeps DEF Fails, Mishap, JudgedIsNew

-----------------------------------------------------------------------------
\* No step makes a log that is in hand, or evidence, evidence again.
LEMMA StepIsNew ==
    ASSUME OneAtATime, JudgedIsNew, [Next]_vars
    PROVE  JudgedIsNew'
<1>1. ASSUME NEW t \in None .. MaxTime, Store(t) PROVE JudgedIsNew'
  BY <1>1, StoreKeeps
<1>2. ASSUME GoesQuiet PROVE JudgedIsNew'
  BY <1>2, QuietKeeps
<1>3. ASSUME NEW i \in DOMAIN state, NEW now \in {"worked", "closed"}, WorkOn(i, now)
      PROVE  JudgedIsNew'
  BY <1>3, WorkKeeps
<1>4. ASSUME Look PROVE JudgedIsNew'
  BY <1>4, LookKeeps
<1>5. ASSUME NEW c \in Checkers, Begin(c) PROVE JudgedIsNew'
  BY <1>5, BeginKeeps
<1>6. ASSUME NEW c \in Checkers, Commit(c) PROVE JudgedIsNew'
  BY <1>6, CommitKeeps
<1>7. ASSUME Rebuild PROVE JudgedIsNew'
  BY <1>7, RebuildKeeps
<1>8. ASSUME NEW s \in {Everything, Newest}, Press(s) PROVE JudgedIsNew'
  BY <1>8, PressKeeps
<1>9. ASSUME NEW c \in Checkers, Ends(c) PROVE JudgedIsNew'
  BY <1>9, EndsKeeps
<1>10. ASSUME NEW c \in Checkers, Fails(c) PROVE JudgedIsNew'
  BY <1>10, FailsKeeps
<1>11. CASE UNCHANGED vars
  BY <1>11 DEF vars, feedVars, alertVars, boundVars, JudgedIsNew, TypeOK, OneJudges, NewInHand,
     EvidenceOnce, Logs
<1> QED
  BY <1>1, <1>2, <1>3, <1>4, <1>5, <1>6, <1>7, <1>8, <1>9, <1>10, <1>11 DEF Next, Check

\* What a check has in hand is evidence of nothing yet, and no log is evidence of two
\* alerts: for every feed, every batch size, any number of failed and killed checks,
\* closed alerts and rebuilds.
THEOREM JudgedStaysNew == ASSUME OneAtATime PROVE Spec => []JudgedIsNew
<1>1. Init => JudgedIsNew
  BY InitIsNew
<1>2. JudgedIsNew /\ [Next]_vars => JudgedIsNew'
  BY StepIsNew
<1> QED
  BY <1>1, <1>2, PTL DEF Spec

\* A log is evidence of one alert, however many checks come across it.
THEOREM OneAlertPerLog == ASSUME OneAtATime PROVE Spec => []EvidenceOnce
<1>1. JudgedIsNew => EvidenceOnce
  BY DEF JudgedIsNew
<1> QED
  BY <1>1, JudgedStaysNew, PTL
-----------------------------------------------------------------------------
(***************************************************************************)
(* What is found is what would be found, were everything judged at once.   *)
(***************************************************************************)

\* Every log that comes is of a later window than the next one of this log, so
\* nothing counts for it any more.
Final(l) == (\E m \in Timed : Window(l) + 1 < Window(m)) \/ Window(l) + 1 < floor

\* Every log with a time is of a window before the one before w.
AllBefore(w) == \A l \in Timed : Window(l) + 1 < w

\* A quiet feed goes on later, and the scope of a check reaches no further than
\* what is complete.
ScopesComplete ==
    /\ quiet => AllBefore(floor)
    /\ \A c \in Checkers : pc[c] # "idle" =>
          IF scope[c] < Everything THEN \E m \in Timed : scope[c] < Window(m)
                                   ELSE AllBefore(floor)

\* What is checked, in hand or evidence is final.
HandsFinal ==
    /\ \A l \in checked \intersect Timed : Final(l)
    /\ \A l \in AlreadyAlerted : l \in Timed /\ Final(l)
    /\ \A c \in Checkers : /\ \A l \in hands[c].batch \intersect Timed : Final(l)
                           /\ UNION hands[c].groups \subseteq Timed

\* Evidence matches, and what is in hand is judged as it would be with everything
\* that is stored by now.
JudgedRight ==
    /\ \A l \in AlreadyAlerted : Matches(l, Timed)
    /\ \A c \in Checkers : \A l \in hands[c].batch \intersect Timed :
          l \in AlreadyAlerted \union UNION hands[c].groups <=> Matches(l, Timed)

AtOnceInv == ScopesComplete /\ HandsFinal /\ JudgedRight /\ LikeAllAtOnce

\* Where a log with a time lies in the two grids.
LEMMA Grids ==
    ASSUME NEW t \in Nat
    PROVE  /\ t \div 2 \in Nat /\ t \div 2 <= t /\ (t + 1) \div 2 \in Nat
           /\ t \div 2 <= (t + 1) \div 2 /\ (t + 1) \div 2 <= t \div 2 + 1
BY SMT

\* Its windows are numbers, and a log with the same shifted window is of the same
\* window or of the one beside it.
LEMMA LogWindow ==
    ASSUME TypeOK, NEW l \in Timed
    PROVE  /\ Window(l) \in Nat /\ Window(l) <= MaxTime /\ Shifted(l) \in Nat
           /\ Window(l) <= Shifted(l) /\ Shifted(l) <= Window(l) + 1
<1>1. time[l] \in None .. MaxTime /\ time[l] # None
  BY ElementOfSeq, LenProperties DEF TypeOK, Timed, Logs
<1>2. time[l] \in Nat /\ time[l] <= MaxTime /\ MaxTime \in Nat
  BY <1>1, CheckAssumption DEF None
<1> QED
  BY <1>2, Grids DEF Window, Shifted

\* The windows beside those of a batch decide about its logs.
LEMMA SeenIsEnough ==
    ASSUME TypeOK, NEW batch, NEW l \in batch \intersect Timed
    PROVE  /\ l \in Seen(batch) /\ Seen(batch) \subseteq Timed
           /\ Matches(l, Seen(batch)) <=> Matches(l, Timed)
<1> DEFINE S == Seen(batch)
<1>1. Window(l) \in Int /\ Shifted(l) \in Int
  BY LogWindow
<1>2. /\ S \subseteq Timed
      /\ \A m \in Timed : Window(l) - 1 <= Window(m) /\ Window(m) <= Window(l) + 1 => m \in S
  BY DEF Seen
<1>3. l \in S
  BY <1>1, <1>2
<1>4. \A m \in Timed : /\ Window(m) \in Int
                       /\ Shifted(m) = Shifted(l) =>
                             Window(l) - 1 <= Window(m) /\ Window(m) <= Window(l) + 1
  BY <1>1, LogWindow
<1>5. InWindow(l, S) = InWindow(l, Timed)
  BY <1>1, <1>2 DEF InWindow
<1>6. InShifted(l, S) = InShifted(l, Timed)
  BY <1>2, <1>4 DEF InShifted
<1>7. Around(l, S) = Around(l, Timed)
  BY <1>1, <1>2, <1>4 DEF Around
<1>8. IsShifted(l, S) <=> IsShifted(l, Timed)
  BY <1>5, <1>6 DEF IsShifted
<1>9. Matches(l, S) <=> Matches(l, Timed)
  BY <1>5, <1>6, <1>7, <1>8 DEF Matches
<1> QED
  BY <1>2, <1>3, <1>9

\* A log that comes counts for none that is final.
LEMMA StoreIsLater ==
    ASSUME TypeOK, Faults = {}, NEW t \in None .. MaxTime, Store(t)
    PROVE  /\ Timed \subseteq Timed'
           /\ \A l \in Timed : Window(l)' = Window(l)
           /\ \A l \in Timed : Final(l) =>
                 Final(l)' /\ (Matches(l, Timed)' <=> Matches(l, Timed))
           /\ \A l \in Logs : l \in Timed' => l \in Timed
           /\ floor' = floor /\ Logs \subseteq Logs'
<1>1. /\ time \in Seq(None .. MaxTime) /\ Len(time) \in Nat /\ Logs = 1 .. Len(time)
      /\ floor \in Nat
  BY LenProperties DEF TypeOK, Logs
<1>n. PICK n \in Nat : n = Len(time) + 1
  BY <1>1
<1>2. /\ time' = Append(time, t) /\ floor' = floor /\ pattern' = pattern
      /\ t # None => (\A l \in Timed : Window(l) <= t \div 2) /\ floor <= t \div 2
  BY DEF Store
<1>3. /\ Logs' = Logs \union {n} /\ n \notin Logs
      /\ \A l \in Logs : time'[l] = time[l]
      /\ time'[n] = t
  <2>1. Len(Append(time, t)) = Len(time) + 1 /\ Append(time, t) \in Seq(None .. MaxTime)
    BY <1>1, AppendProperties
  <2>2. /\ \A l \in 1 .. Len(time) : Append(time, t)[l] = time[l]
        /\ Append(time, t)[n] = t
    BY <1>1, <1>n, AppendProperties
  <2>3. DOMAIN Append(time, t) = 1 .. n
    BY <1>n, <2>1, LenProperties
  <2> QED
    BY <1>1, <1>2, <1>n, <2>2, <2>3 DEF Logs
<1>4. /\ \A l \in Logs : Window(l)' = Window(l) /\ Shifted(l)' = Shifted(l)
      /\ Window(n)' = t \div 2 /\ Shifted(n)' = (t + 1) \div 2
  BY <1>3 DEF Window, Shifted
<1>5. /\ Timed \subseteq Logs /\ Timed \subseteq Timed'
      /\ Timed' \subseteq Timed \union {n}
      /\ n \in Timed' => t # None
  BY <1>3 DEF Timed
<1>6. t # None => /\ t \div 2 \in Int /\ t \div 2 <= (t + 1) \div 2
                  /\ (t + 1) \div 2 \in Int
  BY Grids, CheckAssumption DEF None
<1>7. ASSUME NEW l \in Timed, Final(l)
      PROVE  Final(l)' /\ (Matches(l, Timed)' <=> Matches(l, Timed))
  <2>1. /\ Window(l) \in Int /\ Shifted(l) \in Int /\ Shifted(l) <= Window(l) + 1
        /\ \A m \in Timed : Window(m) \in Int
    BY LogWindow
  <2>2. Final(l)'
    BY <1>2, <1>4, <1>5, <1>7 DEF Final
  <2>3. n \in Timed' => Window(l) + 1 < t \div 2
    <3> SUFFICES ASSUME n \in Timed' PROVE Window(l) + 1 < t \div 2
      OBVIOUS
    <3>1. PICK w \in Int : w = t \div 2
      BY <1>5, <1>6
    <3>2. (\A m \in Timed : Window(m) <= w) /\ floor <= w
      BY <1>2, <1>5, <3>1
    <3>3. CASE Window(l) + 1 < floor
      BY <3>1, <3>2, <3>3, <2>1, <1>1
    <3>4. CASE \E m \in Timed : Window(l) + 1 < Window(m)
      BY <3>1, <3>2, <3>4, <2>1
    <3> QED
      BY <1>7, <3>3, <3>4 DEF Final
  <2>4. n \in Timed' => /\ Window(n)' \notin (Window(l) - 1) .. (Window(l) + 1)
                        /\ Window(n)' # Window(l) /\ Shifted(n)' # Shifted(l)
    BY <1>4, <1>5, <1>6, <2>1, <2>3
  <2>5. InWindow(l, Timed)' = InWindow(l, Timed)
    BY <1>4, <1>5, <2>4 DEF InWindow
  <2>6. InShifted(l, Timed)' = InShifted(l, Timed)
    BY <1>4, <1>5, <2>4 DEF InShifted
  <2>7. Around(l, Timed)' = Around(l, Timed)
    BY <1>4, <1>5, <2>4 DEF Around
  <2>8. IsShifted(l, Timed)' <=> IsShifted(l, Timed)
    BY <2>5, <2>6 DEF IsShifted
  <2>9. Matches(l, Timed)' <=> Matches(l, Timed)
    BY <1>2, <2>5, <2>6, <2>7, <2>8 DEF Matches
  <2> QED
    BY <2>2, <2>9
<1> QED
  BY <1>2, <1>3, <1>4, <1>5, <1>7

\* What an alert takes is evidence, next to what was.
LEMMA AlertAdds ==
    ASSUME TypeOK, NEW into \in 0 .. Len(state), NEW groups, UNION groups \subseteq Logs,
           Alert(into, groups)
    PROVE  AlreadyAlerted' = AlreadyAlerted \union UNION groups
<1> DEFINE logs == UNION groups
<1>1. /\ evidence \in Seq(SUBSET Logs) /\ Len(state) = Len(evidence) /\ Len(evidence) \in Nat
      /\ DOMAIN evidence = 1 .. Len(evidence) /\ logs \in SUBSET Logs
  BY LenProperties DEF TypeOK
<1>3. CASE logs = {}
  BY <1>3 DEF Alert, alertVars, AlreadyAlerted
<1>4. CASE logs # {} /\ into = 0
  <2>1. evidence' = Append(evidence, logs)
    BY <1>4 DEF Alert
  <2>2. evidence' \in Seq(SUBSET Logs) /\ Len(evidence') = Len(evidence) + 1
    BY <1>1, <2>1, AppendProperties
  <2>3. /\ DOMAIN evidence' = 1 .. Len(evidence) + 1
        /\ \A i \in 1 .. Len(evidence) : evidence'[i] = evidence[i]
        /\ evidence'[Len(evidence) + 1] = logs
    BY <1>1, <2>1, <2>2, AppendProperties, LenProperties
  <2>4. /\ \A i \in DOMAIN evidence' : i \in DOMAIN evidence \/ i = Len(evidence) + 1
        /\ DOMAIN evidence \subseteq DOMAIN evidence' /\ Len(evidence) + 1 \in DOMAIN evidence'
    BY <1>1, <2>3
  <2> HIDE DEF logs
  <2>5. AlreadyAlerted' = AlreadyAlerted \union logs
    BY <1>1, <2>3, <2>4 DEF AlreadyAlerted
  <2> QED
    BY <2>5 DEF logs
<1>5. CASE logs # {} /\ into # 0
  <2>1. evidence' = [evidence EXCEPT ![into] = @ \union logs]
    BY <1>5 DEF Alert
  <2>2. into \in DOMAIN evidence
    BY <1>1, <1>5
  <2>3. /\ DOMAIN evidence' = DOMAIN evidence
        /\ \A i \in DOMAIN evidence :
              evidence'[i] = IF i = into THEN evidence[into] \union logs ELSE evidence[i]
    BY <2>1
  <2> HIDE DEF logs
  <2>4. AlreadyAlerted' = AlreadyAlerted \union logs
    BY <2>2, <2>3 DEF AlreadyAlerted
  <2> QED
    BY <2>4 DEF logs
<1> QED
  BY <1>3, <1>4, <1>5

\* While no log comes, what matches and how logs lie stays.
LEMMA SameLogs ==
    ASSUME UNCHANGED <<pattern, time>>
    PROVE  /\ Timed' = Timed /\ Logs' = Logs
           /\ \A l : Window(l)' = Window(l)
           /\ \A l : Matches(l, Timed)' <=> Matches(l, Timed)
           /\ floor' = floor => \A l : Final(l)' <=> Final(l)
<1>1. Timed' = Timed /\ Logs' = Logs
  BY DEF Timed, Logs
<1>2. \A l : Window(l)' = Window(l) /\ Shifted(l)' = Shifted(l)
  BY DEF Window, Shifted
<1>3. ASSUME NEW l
      PROVE  Matches(l, Timed)' <=> Matches(l, Timed)
  <2>1. InWindow(l, Timed)' = InWindow(l, Timed)
    BY <1>1, <1>2 DEF InWindow
  <2>2. InShifted(l, Timed)' = InShifted(l, Timed)
    BY <1>1, <1>2 DEF InShifted
  <2>3. Around(l, Timed)' = Around(l, Timed)
    BY <1>1, <1>2 DEF Around
  <2>4. IsShifted(l, Timed)' <=> IsShifted(l, Timed)
    BY <2>1, <2>2 DEF IsShifted
  <2> QED
    BY <2>1, <2>2, <2>3, <2>4 DEF Matches
<1>4. floor' = floor => \A l : Final(l)' <=> Final(l)
  BY <1>1, <1>2 DEF Final
<1> QED
  BY <1>1, <1>2, <1>3, <1>4

\* A feed that is quiet has shown everything it will show of the windows there are.
LEMMA QuietIsComplete ==
    ASSUME TypeOK, Quiet, UNCHANGED <<pattern, time>>
    PROVE  AllBefore(floor)' /\ \A l \in Timed : Final(l)'
<1>1. Timed' = Timed /\ \A l : Window(l)' = Window(l)
  BY SameLogs
<1>2. \A l \in Timed : Window(l) \in Int
  BY LogWindow
<1>3. \A l \in Timed : Window(l) + 1 < floor'
  BY <1>2 DEF Quiet, IsNewestWindow
<1> QED
  BY <1>1, <1>3 DEF AllBefore, Final

\* Another log is stored: of nothing that is final.
LEMMA StoreAtOnce ==
    ASSUME Faults = {}, JudgedIsNew, AtOnceInv, NEW t \in None .. MaxTime, Store(t)
    PROVE  AtOnceInv'
<1>1. /\ Timed \subseteq Timed'
      /\ \A l \in Timed : Window(l)' = Window(l)
      /\ \A l \in Timed : Final(l) =>
            Final(l)' /\ (Matches(l, Timed)' <=> Matches(l, Timed))
      /\ \A l \in Logs : l \in Timed' => l \in Timed
  BY StoreIsLater DEF JudgedIsNew
<1>2. /\ UNCHANGED <<checked, evidence, pc, scope, hands>> /\ ~quiet'
      /\ \A c \in Checkers : pc[c] # "idle" => scope[c] < Everything
  BY DEF Store, alertVars
<1>3. AlreadyAlerted' = AlreadyAlerted /\ Everything' = Everything
  BY <1>2 DEF AlreadyAlerted, Everything
<1>4. checked \subseteq Logs /\ \A c \in Checkers : hands[c].batch \subseteq Logs
  BY DEF JudgedIsNew, TypeOK
<1>5. ScopesComplete'
  <2> SUFFICES ASSUME NEW c \in Checkers, pc[c] # "idle"
               PROVE  scope[c] < Everything /\ \E m \in Timed' : scope[c] < Window(m)'
    BY <1>2, <1>3 DEF ScopesComplete
  <2>1. scope[c] < Everything
    BY <1>2
  <2>2. PICK m \in Timed : scope[c] < Window(m)
    BY <2>1 DEF AtOnceInv, ScopesComplete
  <2> QED
    BY <2>1, <2>2, <1>1
<1>6. HandsFinal'
  BY <1>1, <1>2, <1>3, <1>4 DEF AtOnceInv, HandsFinal
<1>7. JudgedRight' /\ LikeAllAtOnce'
  BY <1>1, <1>2, <1>3, <1>4 DEF AtOnceInv, HandsFinal, JudgedRight, LikeAllAtOnce
<1> QED
  BY <1>5, <1>6, <1>7 DEF AtOnceInv

\* A feed goes quiet.
LEMMA QuietAtOnce == ASSUME JudgedIsNew, AtOnceInv, GoesQuiet PROVE AtOnceInv'
<1>1. /\ UNCHANGED <<pattern, time, checked, evidence, pc, scope, hands>> /\ Quiet
      /\ AlreadyAlerted' = AlreadyAlerted
  BY DEF GoesQuiet, alertVars, AlreadyAlerted
<1>2. AllBefore(floor)' /\ \A l \in Timed : Final(l)'
  BY <1>1, QuietIsComplete DEF JudgedIsNew
<1>3. /\ Timed' = Timed /\ \A l : Window(l)' = Window(l)
      /\ \A l : Matches(l, Timed)' <=> Matches(l, Timed)
  BY <1>1, SameLogs
<1>4. ScopesComplete'
  BY <1>1, <1>2, <1>3 DEF AtOnceInv, ScopesComplete
<1>5. HandsFinal'
  BY <1>1, <1>2, <1>3 DEF AtOnceInv, HandsFinal
<1>6. JudgedRight' /\ LikeAllAtOnce'
  BY <1>1, <1>3 DEF AtOnceInv, JudgedRight, LikeAllAtOnce
<1> QED
  BY <1>4, <1>5, <1>6 DEF AtOnceInv

\* Where the logs, the evidence and the marks stay, so does what they say.
LEMMA SameEvidence ==
    ASSUME AtOnceInv, UNCHANGED <<pattern, time, floor, checked, evidence>>,
           \A c \in Checkers : hands'[c] = hands[c]
    PROVE  HandsFinal' /\ JudgedRight' /\ LikeAllAtOnce'
<1>1. AlreadyAlerted' = AlreadyAlerted
  BY DEF AlreadyAlerted
<1>2. /\ Timed' = Timed /\ \A l : Final(l)' <=> Final(l)
      /\ \A l : Matches(l, Timed)' <=> Matches(l, Timed)
  BY SameLogs
<1>3. HandsFinal'
  BY <1>1, <1>2 DEF AtOnceInv, HandsFinal
<1>4. JudgedRight' /\ LikeAllAtOnce'
  BY <1>1, <1>2 DEF AtOnceInv, JudgedRight, LikeAllAtOnce
<1> QED
  BY <1>3, <1>4

\* Alerts are worked on.
LEMMA WorkAtOnce ==
    ASSUME AtOnceInv, NEW i, NEW now, WorkOn(i, now)
    PROVE  AtOnceInv'
<1>1. /\ UNCHANGED <<pattern, time, quiet, floor, checked, evidence, hands>>
      /\ UNCHANGED <<pc, scope>>
  BY DEF WorkOn, feedVars
<1>2. Timed' = Timed /\ \A l : Window(l)' = Window(l)
  BY <1>1, SameLogs
<1>3. ScopesComplete'
  BY <1>1, <1>2 DEF AtOnceInv, ScopesComplete, AllBefore
<1> QED
  BY <1>1, <1>3, SameEvidence DEF AtOnceInv

\* A check or a button begins with a scope that is complete.
LEMMA ScopeAtOnce ==
    ASSUME JudgedIsNew, AtOnceInv, NEW c \in Checkers, NEW s \in -1 .. Newest, NEW p,
           scope' = [scope EXCEPT ![c] = s], pc' = [pc EXCEPT ![c] = p],
           IF s < Everything THEN \E m \in Timed : s < Window(m) ELSE AllBefore(floor),
           UNCHANGED <<feedVars, checked, evidence, hands>>
    PROVE  AtOnceInv'
<1>1. UNCHANGED <<pattern, time, quiet, floor, checked, evidence, hands>>
  BY DEF feedVars
<1>2. Timed' = Timed /\ \A l : Window(l)' = Window(l)
  BY <1>1, SameLogs
<1>3. DOMAIN scope = Checkers /\ DOMAIN pc = Checkers
  BY DEF JudgedIsNew, TypeOK
<1>4. AllBefore(floor)' <=> AllBefore(floor)
  BY <1>1, <1>2 DEF AllBefore
<1>5. ScopesComplete'
  <2>1. quiet' => AllBefore(floor)'
    BY <1>1, <1>4 DEF AtOnceInv, ScopesComplete
  <2>2. ASSUME NEW d \in Checkers, pc'[d] # "idle"
        PROVE  IF scope'[d] < Everything THEN \E m \in Timed' : scope'[d] < Window(m)'
                                         ELSE AllBefore(floor)'
    <3>1. CASE d = c
      BY <3>1, <1>2, <1>3, <1>4
    <3>2. CASE d # c
      BY <3>2, <2>2, <1>2, <1>3, <1>4 DEF AtOnceInv, ScopesComplete
    <3> QED
      BY <3>1, <3>2
  <2> QED
    BY <2>1, <2>2 DEF ScopesComplete, Everything
<1> QED
  BY <1>1, <1>5, SameEvidence DEF AtOnceInv

\* The automatic check looks for what is due.
LEMMA LookAtOnce == ASSUME JudgedIsNew, AtOnceInv, Look PROVE AtOnceInv'
<1>1. PICK s \in -1 .. Everything :
         Looks(s) /\ scope' = [scope EXCEPT !["automatic"] = s]
  BY DEF Look
<1>2. s \in -1 .. Newest /\ Everything = MaxTime + 1 /\ MaxTime \in Nat
  BY CheckAssumption DEF Everything, Newest
<1>3. CASE quiet /\ s = Everything
  <2>1. AllBefore(floor)
    BY <1>3 DEF AtOnceInv, ScopesComplete
  <2>2. ~(s < Everything)
    BY <1>2, <1>3
  <2> QED
    BY <1>1, <1>2, <2>1, <2>2, ScopeAtOnce DEF Look, Checkers, alertVars
<1>4. CASE IsNewestWindow(s + 1)
  <2>1. PICK l \in Timed : Window(l) = s + 1
    BY <1>4 DEF IsNewestWindow
  <2>2. Window(l) \in Nat /\ Window(l) <= MaxTime
    BY LogWindow DEF JudgedIsNew
  <2>3. s < Window(l) /\ s < Everything
    BY <2>1, <2>2, <1>2
  <2> QED
    BY <1>1, <1>2, <2>3, ScopeAtOnce DEF Look, Checkers, alertVars
<1> QED
  BY <1>1, <1>3, <1>4 DEF Looks

\* A button is pressed when nothing arrives any more.
LEMMA PressAtOnce ==
    ASSUME Faults = {}, JudgedIsNew, AtOnceInv, NEW s \in {Everything, Newest}, Press(s)
    PROVE  AtOnceInv'
<1>1. s \in -1 .. Newest /\ ~(s < Everything)
  BY CheckAssumption DEF Everything, Newest
<1>2. AllBefore(floor)
  BY DEF Press, AtOnceInv, ScopesComplete
<1> QED
  BY <1>1, <1>2, ScopeAtOnce DEF Press, Checkers, alertVars

\* A rebuild starts over.
LEMMA RebuildAtOnce == ASSUME JudgedIsNew, AtOnceInv, Rebuild PROVE AtOnceInv'
<1>1. /\ UNCHANGED <<pattern, time, hands>> /\ Quiet /\ checked' = {}
      /\ scope' = [scope EXCEPT !["rebuild"] = Everything]
      /\ \A c \in Checkers : pc[c] = "idle" /\ hands[c] = Empty
      /\ pc' = [pc EXCEPT !["rebuild"] = "batch"]
  BY DEF Rebuild, JudgedIsNew, TypeOK
<1>2. AllBefore(floor)' /\ \A l \in Timed : Final(l)'
  BY <1>1, QuietIsComplete DEF JudgedIsNew
<1>3. /\ Timed' = Timed
      /\ \A l : Matches(l, Timed)' <=> Matches(l, Timed)
  BY <1>1, SameLogs
<1>4. AlreadyAlerted' \subseteq AlreadyAlerted
  BY DEF Rebuild, AlreadyAlerted
<1>5. ScopesComplete'
  <2>1. DOMAIN scope = Checkers /\ DOMAIN pc = Checkers /\ ~(Everything < Everything)
    BY CheckAssumption DEF JudgedIsNew, TypeOK, Everything
  <2>2. \A c \in Checkers : pc'[c] # "idle" => scope'[c] = Everything
    BY <1>1, <2>1
  <2> QED
    BY <1>2, <2>1, <2>2 DEF ScopesComplete, Everything
<1>6. HandsFinal'
  BY <1>1, <1>2, <1>3, <1>4 DEF AtOnceInv, HandsFinal, Empty
<1>7. JudgedRight' /\ LikeAllAtOnce'
  BY <1>1, <1>3, <1>4 DEF AtOnceInv, JudgedRight, LikeAllAtOnce, Empty
<1> QED
  BY <1>5, <1>6, <1>7 DEF AtOnceInv

\* The logs of a batch are due.
LEMMA BatchIsDue ==
    ASSUME NEW s, s < Everything, NEW batch \in Batches(s), s # Newest, s # Everything
    PROVE  \A l \in batch : l \in Timed /\ Window(l) < s
<1>1. PICK due : due = {l \in Unchecked : Due(l, s)} /\ batch = Batch(due)
  BY DEF Batches
<1>2. Batch(due) \subseteq due
  BY DEF Batch, Oldest
<1> QED
  BY <1>1, <1>2 DEF Due

\* A check reads a batch and judges it: as if everything had been stored.
LEMMA BeginAtOnce ==
    ASSUME Faults = {}, JudgedIsNew, AtOnceInv, NEW c \in Checkers, Begin(c)
    PROVE  AtOnceInv'
<1>0. /\ TypeOK /\ DOMAIN hands = Checkers /\ DOMAIN pc = Checkers
      /\ MaxTime \in Nat /\ scope[c] \in -1 .. Newest
  BY CheckAssumption DEF JudgedIsNew, TypeOK
<1>a. PICK batch \in Batches(scope[c]) : \E i, seen, found :
         /\ seen = Seen(batch) /\ found = Found(batch, seen)
         /\ hands' = [hands EXCEPT ![c] = [batch |-> batch, groups |-> Groups(found, seen),
                                           into  |-> i]]
  BY DEF Begin
<1>1. PICK i, seen, found :
         /\ seen = Seen(batch) /\ found = Found(batch, seen)
         /\ hands' = [hands EXCEPT ![c] = [batch |-> batch, groups |-> Groups(found, seen),
                                           into  |-> i]]
  BY <1>a
<1>2. /\ UNCHANGED <<pattern, time, quiet, floor, checked, evidence, scope>>
      /\ pc' = [pc EXCEPT ![c] = "judges"] /\ pc[c] = "batch"
  BY DEF Begin, feedVars, alertVars
<1>3. /\ Timed' = Timed /\ \A l : Final(l)' <=> Final(l)
      /\ \A l : Window(l)' = Window(l)
      /\ \A l : Matches(l, Timed)' <=> Matches(l, Timed)
      /\ AlreadyAlerted' = AlreadyAlerted
  BY <1>2, SameLogs DEF AlreadyAlerted
<1>4. UNION Groups(found, seen) = found
  BY DEF Groups
<1>5. /\ found \subseteq batch \intersect Timed
      /\ \A l \in batch \intersect Timed :
            l \in found <=> l \notin AlreadyAlerted /\ Matches(l, Timed)
  <2>1. \A l \in batch \intersect Timed :
            l \in seen /\ (Matches(l, seen) <=> Matches(l, Timed))
    BY <1>0, <1>1, SeenIsEnough
  <2>2. seen \subseteq Timed
    BY <1>1 DEF Seen
  <2>3. found = {l \in (batch \intersect seen) \ AlreadyAlerted : Matches(l, seen)}
    BY <1>1 DEF Found
  <2> QED
    BY <2>1, <2>2, <2>3
<1>6. \A l \in batch \intersect Timed : Final(l)
  <2>1. CASE scope[c] < Everything
    <3>1. scope[c] # Newest /\ scope[c] # Everything
      BY <1>0, <2>1 DEF Everything, Newest
    <3>2. \A l \in batch : l \in Timed /\ Window(l) < scope[c]
      BY <2>1, <3>1, BatchIsDue
    <3>3. PICK m \in Timed : scope[c] < Window(m)
      BY <2>1, <1>2 DEF AtOnceInv, ScopesComplete
    <3>4. \A l \in Timed : Window(l) \in Int
      BY <1>0, LogWindow
    <3> QED
      BY <3>2, <3>3, <3>4, <1>0 DEF Final
  <2>2. CASE ~(scope[c] < Everything)
    BY <2>2, <1>2 DEF AtOnceInv, ScopesComplete, AllBefore, Final
  <2> QED
    BY <2>1, <2>2
<1>7. /\ hands'[c].batch = batch /\ UNION hands'[c].groups = found
      /\ \A d \in Checkers : d # c => hands'[d] = hands[d]
  BY <1>0, <1>1, <1>4
<1>8. ScopesComplete'
  BY <1>0, <1>2, <1>3 DEF AtOnceInv, ScopesComplete, AllBefore, Everything
<1>9. HandsFinal'
  <2>1. ASSUME NEW d \in Checkers
        PROVE  /\ \A l \in hands'[d].batch \intersect Timed : Final(l)
               /\ UNION hands'[d].groups \subseteq Timed
    <3>1. CASE d = c
      BY <3>1, <1>5, <1>6, <1>7
    <3>2. CASE d # c
      BY <3>2, <1>7 DEF AtOnceInv, HandsFinal
    <3> QED
      BY <3>1, <3>2
  <2> QED
    BY <2>1, <1>2, <1>3 DEF AtOnceInv, HandsFinal
<1>10. JudgedRight'
  <2>1. ASSUME NEW d \in Checkers, NEW l \in hands'[d].batch \intersect Timed
        PROVE  l \in AlreadyAlerted \union UNION hands'[d].groups <=> Matches(l, Timed)
    <3>1. CASE d = c
      BY <2>1, <3>1, <1>5, <1>7 DEF AtOnceInv, JudgedRight
    <3>2. CASE d # c
      BY <2>1, <3>2, <1>7 DEF AtOnceInv, JudgedRight
    <3> QED
      BY <3>1, <3>2
  <2> QED
    BY <2>1, <1>3 DEF AtOnceInv, JudgedRight
<1>11. LikeAllAtOnce'
  BY <1>2, <1>3 DEF AtOnceInv, LikeAllAtOnce
<1> QED
  BY <1>8, <1>9, <1>10, <1>11 DEF AtOnceInv

\* A check that ends, goes on or fails writes some of its groups, or none.
LEMMA WriteAtOnce ==
    ASSUME JudgedIsNew, AtOnceInv, NEW c \in Checkers, pc[c] = "judges",
           NEW groups \in SUBSET hands[c].groups,
           AlreadyAlerted' = AlreadyAlerted \union UNION groups,
           hands' = [hands EXCEPT ![c] = Empty],
           \/ checked' = checked
           \/ checked' = checked \union hands[c].batch /\ groups = hands[c].groups,
           pc' \in [Checkers -> {"idle", "batch", "judges"}],
           \A d \in Checkers : pc'[d] # "idle" => pc[d] # "idle" /\ scope'[d] = scope[d],
           UNCHANGED feedVars
    PROVE  AtOnceInv'
<1>0. TypeOK /\ DOMAIN hands = Checkers
  BY DEF JudgedIsNew, TypeOK
<1>1. UNCHANGED <<pattern, time, quiet, floor>>
  BY DEF feedVars
<1>2. /\ Timed' = Timed /\ \A l : Final(l)' <=> Final(l)
      /\ \A l : Window(l)' = Window(l)
      /\ \A l : Matches(l, Timed)' <=> Matches(l, Timed)
  BY <1>1, SameLogs
<1>3. \A d \in Checkers : hands'[d] = Empty
  BY <1>0 DEF JudgedIsNew, OneJudges, TypeOK
<1>4. \A l \in UNION groups : l \in hands[c].batch \intersect Timed /\ l \in UNION hands[c].groups
  BY <1>0 DEF TypeOK, AtOnceInv, HandsFinal
<1>5. ScopesComplete'
  BY <1>1, <1>2 DEF AtOnceInv, ScopesComplete, AllBefore, Everything
<1>6. HandsFinal'
  <2>1. \A l \in AlreadyAlerted' : l \in Timed /\ Final(l)
    BY <1>4 DEF AtOnceInv, HandsFinal
  <2>2. \A l \in checked' \intersect Timed : Final(l)
    BY DEF AtOnceInv, HandsFinal
  <2>3. \A d \in Checkers : hands'[d].batch = {} /\ hands'[d].groups = {}
    BY <1>3 DEF Empty
  <2> QED
    BY <1>2, <2>1, <2>2, <2>3 DEF HandsFinal
<1>7. \A l \in AlreadyAlerted' : Matches(l, Timed)
  BY <1>4 DEF AtOnceInv, JudgedRight
<1>8. JudgedRight'
  <2>1. \A d \in Checkers : hands'[d].batch = {}
    BY <1>3 DEF Empty
  <2> QED
    BY <1>2, <1>7, <2>1 DEF JudgedRight
<1>9. \A l \in checked' \intersect Timed : Matches(l, Timed) => l \in AlreadyAlerted'
  BY DEF AtOnceInv, LikeAllAtOnce, JudgedRight
<1>10. LikeAllAtOnce'
  BY <1>2, <1>7, <1>9 DEF LikeAllAtOnce
<1> QED
  BY <1>5, <1>6, <1>8, <1>10 DEF AtOnceInv

\* What a check has in hand are stored logs.
LEMMA InHandStored ==
    ASSUME JudgedIsNew, NEW c \in Checkers, NEW groups \in SUBSET hands[c].groups
    PROVE  UNION groups \subseteq Logs /\ hands[c].into \in 0 .. Len(state) /\ TypeOK
BY DEF JudgedIsNew, TypeOK

\* A batch is committed.
LEMMA CommitAtOnce ==
    ASSUME JudgedIsNew, AtOnceInv, NEW c \in Checkers, Commit(c)
    PROVE  AtOnceInv'
<1>1. AlreadyAlerted' = AlreadyAlerted \union UNION hands[c].groups
  BY InHandStored, AlertAdds DEF Commit
<1>2. DOMAIN pc = Checkers /\ DOMAIN scope = Checkers /\ pc \in [Checkers -> {"idle", "batch", "judges"}]
  BY DEF JudgedIsNew, TypeOK
<1>3. /\ pc' \in [Checkers -> {"idle", "batch", "judges"}]
      /\ \A d \in Checkers : pc'[d] # "idle" => pc[d] # "idle" /\ scope'[d] = scope[d]
  BY <1>2 DEF Commit, Done
<1> QED
  BY <1>1, <1>3, WriteAtOnce DEF Commit

\* A check ends with its process, or writes nothing.
LEMMA EndsAtOnce ==
    ASSUME JudgedIsNew, AtOnceInv, NEW c \in Checkers, Ends(c)
    PROVE  AtOnceInv'
<1>1. AlreadyAlerted' = AlreadyAlerted /\ checked' = checked
  BY DEF Ends, alertVars, AlreadyAlerted
<1>2. /\ DOMAIN pc = Checkers /\ DOMAIN scope = Checkers /\ DOMAIN hands = Checkers
      /\ pc \in [Checkers -> {"idle", "batch", "judges"}]
  BY DEF JudgedIsNew, TypeOK
<1>3. /\ pc' \in [Checkers -> {"idle", "batch", "judges"}]
      /\ \A d \in Checkers : pc'[d] # "idle" => pc[d] # "idle" /\ scope'[d] = scope[d]
      /\ hands' = [hands EXCEPT ![c] = Empty] /\ UNCHANGED feedVars
  BY <1>2 DEF Ends, Mishap, Done
<1>4. CASE pc[c] = "judges"
  <2>1. {} \in SUBSET hands[c].groups /\ AlreadyAlerted' = AlreadyAlerted \union UNION {}
    BY <1>1
  <2> QED
    BY <1>1, <1>3, <1>4, <2>1, WriteAtOnce
<1>5. CASE pc[c] # "judges"
  <2>1. \A d \in Checkers : hands'[d] = hands[d]
    BY <1>2, <1>3, <1>5 DEF JudgedIsNew, TypeOK
  <2>2. UNCHANGED <<pattern, time, quiet, floor>> /\ evidence' = evidence
    BY <1>3 DEF feedVars, Ends, alertVars
  <2>3. Timed' = Timed /\ \A l : Window(l)' = Window(l)
    BY <2>2, SameLogs
  <2>4. ScopesComplete'
    BY <1>3, <2>2, <2>3 DEF AtOnceInv, ScopesComplete, AllBefore, Everything
  <2> QED
    BY <1>1, <2>1, <2>2, <2>4, SameEvidence DEF AtOnceInv
<1> QED
  BY <1>4, <1>5

\* A run fails half way through its groups.
LEMMA FailsAtOnce ==
    ASSUME JudgedIsNew, AtOnceInv, NEW c \in Checkers, Fails(c)
    PROVE  AtOnceInv'
<1>1. PICK groups \in SUBSET hands[c].groups : Alert(hands[c].into, groups)
  BY DEF Fails
<1>2. AlreadyAlerted' = AlreadyAlerted \union UNION groups
  BY <1>1, InHandStored, AlertAdds
<1>3. /\ DOMAIN pc = Checkers /\ DOMAIN scope = Checkers
      /\ pc \in [Checkers -> {"idle", "batch", "judges"}]
  BY DEF JudgedIsNew, TypeOK
<1>4. /\ pc' \in [Checkers -> {"idle", "batch", "judges"}]
      /\ \A d \in Checkers : pc'[d] # "idle" => pc[d] # "idle" /\ scope'[d] = scope[d]
      /\ hands' = [hands EXCEPT ![c] = Empty] /\ UNCHANGED feedVars
      /\ checked' = checked /\ pc[c] = "judges"
  BY <1>3 DEF Fails, Mishap, Done
<1> QED
  BY <1>2, <1>4, WriteAtOnce

\* Every step of a system without faults keeps it.
LEMMA StepAtOnce ==
    ASSUME Faults = {}, JudgedIsNew, AtOnceInv, [Next]_vars
    PROVE  AtOnceInv'
<1>1. ASSUME NEW t \in None .. MaxTime, Store(t) PROVE AtOnceInv'
  BY <1>1, StoreAtOnce
<1>2. ASSUME NEW c \in Checkers, Begin(c) \/ Commit(c) PROVE AtOnceInv'
  BY <1>2, BeginAtOnce, CommitAtOnce
<1>3. ASSUME NEW c \in Checkers, Ends(c) \/ Fails(c) PROVE AtOnceInv'
  BY <1>3, EndsAtOnce, FailsAtOnce
<1>4. ASSUME NEW s \in {Everything, Newest}, Press(s) PROVE AtOnceInv'
  BY <1>4, PressAtOnce
<1>5. ASSUME NEW i, NEW now, WorkOn(i, now) PROVE AtOnceInv'
  BY <1>5, WorkAtOnce
<1>6. CASE UNCHANGED vars
  <2>1. UNCHANGED <<pattern, time, quiet, floor, checked, evidence, hands, pc, scope>>
    BY <1>6 DEF vars, feedVars, alertVars
  <2>2. Timed' = Timed /\ \A l : Window(l)' = Window(l)
    BY <2>1, SameLogs
  <2>3. ScopesComplete'
    BY <2>1, <2>2 DEF AtOnceInv, ScopesComplete, AllBefore, Everything
  <2> QED
    BY <2>1, <2>3, SameEvidence DEF AtOnceInv
<1> QED
  BY <1>1, <1>2, <1>3, <1>4, <1>5, <1>6, QuietAtOnce, LookAtOnce, RebuildAtOnce DEF Next, Check

\* What is checked, in hand or evidence is final and judged right.
THEOREM AtOnceKeeps == ASSUME Faults = {} PROVE Spec => [](JudgedIsNew /\ AtOnceInv)
<1>1. Init => AtOnceInv
  <2> SUFFICES ASSUME Init PROVE AtOnceInv
    OBVIOUS
  <2>1. /\ Timed = {} /\ AlreadyAlerted = {}
        /\ \A c \in Checkers : hands[c].batch = {} /\ hands[c].groups = {} /\ pc[c] = "idle"
    BY EmptySeq DEF Init, Timed, Logs, AlreadyAlerted, Empty
  <2> QED
    BY <2>1 DEF Init, AtOnceInv, ScopesComplete, HandsFinal, JudgedRight, LikeAllAtOnce
<1>2. JudgedIsNew /\ AtOnceInv /\ [Next]_vars => AtOnceInv'
  BY StepAtOnce
<1>3. OneAtATime
  BY DEF OneAtATime
<1> QED
  BY <1>1, <1>2, <1>3, JudgedStaysNew, PTL DEF Spec

\* A log that was checked is evidence exactly if it would be, had everything that is
\* stored by now been judged at once: for every feed that brings its logs in order,
\* any batch size, and any checks that fail or end, buttons and rebuilds.
THEOREM FoundLikeAllAtOnce == ASSUME Faults = {} PROVE Spec => []LikeAllAtOnce
<1>1. AtOnceInv => LikeAllAtOnce
  BY DEF AtOnceInv
<1> QED
  BY <1>1, AtOnceKeeps, PTL
=============================================================================
