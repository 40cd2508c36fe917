------------------------- MODULE NotificationProofs -------------------------
(***************************************************************************)
(* The two halves of a worker's look, proved about separately: Notices,    *)
(* what it writes down, and Deliveries, how the rows it wrote are sent.    *)
(*                                                                         *)
(* An alert is news once, for any number of workers, alerts and problems   *)
(* and any timings; one worker alone tells each problem once, only after   *)
(* watching it awake for its time, and once more when it is over, and      *)
(* writes one summary a day.                                               *)
(*                                                                         *)
(* Two processes never send the same notification, for any number of       *)
(* processes, deliveries and retries and any timings, provided a look ends *)
(* before the claims it makes expire; without faults, it is sent once.     *)
(***************************************************************************)
EXTENDS Notices, Deliveries, FiniteSetTheorems, TLAPS

-----------------------------------------------------------------------------
(***************************************************************************)
(* Notices.                                                                *)
(***************************************************************************)

\* What is listed is what was reported, and nothing is before the first look
\* of all has covered the alerts it found.
NewsKept ==
    /\ \A a \in Alerts : listed[a] = IF reported[a] THEN 1 ELSE 0
    /\ ~started => \A a \in Alerts : ~reported[a]
    /\ ~started => \A w \in Workers : pc[w] \in {"idle", "cover"}

\* Only workers of this deployment look.
Looking == \A w \in Workers : pc[w] # "idle" => w \in up

\* The looks that are about to write a summary; no two of one worker.
Writers == {w \in Workers : pc[w] = "write" /\ got[w].summary}
SummariesCounted ==
    /\ summaries + Cardinality(Writers) <= Cardinality(Workers)
    /\ ~summarised => summaries = 0

NewsInv == TypeOK /\ NewsKept /\ Looking /\ SummariesCounted

\* What a single worker read is still so when it writes.
ReadIsCurrent(w) ==
    /\ got[w].problems => got[w].row = row /\ \A k \in Problems : got[w].lasted[k] = Lasted(k)
    /\ got[w].summary => ~summarised

\* While it is seen often enough, a problem lasts no longer than the machine
\* was awake; a told one was watched for its time.
Watched(k) ==
    /\ row[k] = "seen" /\ seenAge[k] <= NotLooking => awake[k] >= since[k]
    /\ row[k] = "told" => awake[k] >= Grace

AloneInv ==
    /\ \A w \in Workers : pc[w] = "write" => ReadIsCurrent(w)
    /\ \A k \in Problems : Watched(k)
    /\ \A k \in Problems : untold[k] = IF row[k] = "told" THEN 1 ELSE 0
    /\ summarised => summaries <= 1

-----------------------------------------------------------------------------
\* The variables that hold a worker's look keep their types in every step.
LEMMA LookTypes ==
    ASSUME TypeOK, [Next]_vars
    PROVE  /\ up' \in Deployments
           /\ pc' \in [Workers -> {"idle", "cover", "look", "write"}]
           /\ got' \in [Workers -> Got]
<1>0. /\ up \in Deployments
      /\ pc \in [Workers -> {"idle", "cover", "look", "write"}]
      /\ got \in [Workers -> Got]
      /\ row \in [Problems -> {"none", "seen", "told"}]
      /\ since \in [Problems -> 0 .. Grace]
      /\ summarised \in BOOLEAN
  BY DEF TypeOK
<1>1. NoGot \in Got
  BY NoticeAssumption DEF NoGot, Got
<1>2. ASSUME NEW w \in Workers, Begin(w)
      PROVE  up' = up /\ pc' \in [Workers -> {"idle", "cover", "look", "write"}]
             /\ got' \in [Workers -> Got]
  <2>1. Unreported \in SUBSET Alerts
    BY DEF Unreported
  <2>2. [got[w] EXCEPT !.alerts = Unreported] \in Got
    <3>1. got[w] \in Got
      BY <1>0
    <3> QED
      BY <2>1, <3>1 DEF Got
  <2> QED
    BY <1>0, <1>2, <2>2 DEF Begin
<1>3. ASSUME NEW w \in Workers, Cover(w)
      PROVE  up' = up /\ pc' \in [Workers -> {"idle", "cover", "look", "write"}]
             /\ got' \in [Workers -> Got]
  BY <1>0, <1>1, <1>3 DEF Cover, Finish
<1>4. ASSUME NEW w \in Workers, Read(w)
      PROVE  up' = up /\ pc' \in [Workers -> {"idle", "cover", "look", "write"}]
             /\ got' \in [Workers -> Got]
  <2>1. ToList \in SUBSET Alerts
    BY DEF ToList, Unreported
  <2>2. [k \in Problems |-> Lasted(k)] \in [Problems -> 0 .. Grace]
    BY <1>0, NoticeAssumption DEF Lasted
  <2>3. NoGot.row \in [Problems -> {"none", "seen", "told"}]
        /\ NoGot.lasted \in [Problems -> 0 .. Grace]
    BY <1>1 DEF Got
  <2>4. PICK problems \in BOOLEAN :
           got' = [got EXCEPT ![w] =
                   [alerts |-> ToList, problems |-> problems, summary |-> ~summarised,
                    wrong |-> {k \in Problems : problems /\ wrong[k]},
                    row |-> IF problems THEN row ELSE NoGot.row,
                    lasted |-> IF problems THEN [k \in Problems |-> Lasted(k)]
                               ELSE NoGot.lasted]]
    BY <1>4 DEF Read
  <2>5. [alerts |-> ToList, problems |-> problems, summary |-> ~summarised,
         wrong |-> {k \in Problems : problems /\ wrong[k]},
         row |-> IF problems THEN row ELSE NoGot.row,
         lasted |-> IF problems THEN [k \in Problems |-> Lasted(k)]
                    ELSE NoGot.lasted] \in Got
    <3>1. (IF problems THEN row ELSE NoGot.row) \in [Problems -> {"none", "seen", "told"}]
      BY <1>0, <2>3
    <3>2. (IF problems THEN [k \in Problems |-> Lasted(k)] ELSE NoGot.lasted)
            \in [Problems -> 0 .. Grace]
      BY <2>2, <2>3
    <3>3. {k \in Problems : problems /\ wrong[k]} \in SUBSET Problems
      OBVIOUS
    <3> QED
      BY <1>0, <2>1, <3>1, <3>2, <3>3 DEF Got
  <2>6. got' \in [Workers -> Got]
    BY <1>0, <2>4, <2>5
  <2> QED
    BY <1>0, <1>4, <2>6 DEF Read
<1>5. ASSUME NEW w \in Workers, Write(w)
      PROVE  up' = up /\ pc' \in [Workers -> {"idle", "cover", "look", "write"}]
             /\ got' \in [Workers -> Got]
  BY <1>0, <1>1, <1>5 DEF Write, Finish
<1>6. ASSUME NEW a \in Alerts, Raise(a) \/ Close(a) \/ Replace(a)
      PROVE  UNCHANGED <<up, pc, got>>
  BY <1>6 DEF Raise, Close, Replace
<1>7. ASSUME NEW k \in Problems, Turn(k) PROVE UNCHANGED <<up, pc, got>>
  BY <1>7 DEF Turn
<1>8. CASE NewDay \/ Tick \/ Nap
  BY <1>0, <1>8 DEF NewDay, Tick, Nap, Pass
<1>9. CASE UNCHANGED vars
  BY <1>0, <1>9 DEF vars
<1> QED
  BY <1>0, <1>2, <1>3, <1>4, <1>5, <1>6, <1>7, <1>8, <1>9 DEF Next, Step

\* An age that grows stops at its bound.
LEMMA OlderType ==
    ASSUME NEW last \in Nat, NEW n \in 0 .. last, NEW by \in Nat
    PROVE  Older(n, by, last) \in 0 .. last /\ Older(n, by, last) >= n
  BY DEF Older

\* Time that passes keeps the variables of alerts and problems in their types.
LEMMA PassTypes ==
    ASSUME TypeOK, NEW ticks \in Nat, Pass(ticks)
    PROVE  /\ alertAge' \in [Alerts -> 0 .. LongestWait]
           /\ lastAge' \in 0 .. Between
           /\ since' \in [Problems -> 0 .. Grace]
           /\ seenAge' \in [Problems -> 0 .. NotLooking + 1]
<1>0. LongestWait \in Nat /\ Between \in Nat /\ Grace \in Nat /\ NotLooking + 1 \in Nat
  BY NoticeAssumption
<1>1. alertAge' \in [Alerts -> 0 .. LongestWait]
  <2>1. ASSUME NEW a \in Alerts PROVE Older(alertAge[a], ticks, LongestWait) \in 0 .. LongestWait
    BY <1>0, OlderType DEF TypeOK
  <2> QED
    BY <1>0, <2>1 DEF Pass
<1>2. lastAge' \in 0 .. Between
  BY <1>0, OlderType DEF Pass, TypeOK
<1>3. since' \in [Problems -> 0 .. Grace]
  <2>1. ASSUME NEW k \in Problems
        PROVE  since[k] \in 0 .. Grace /\ Older(since[k], ticks, Grace) \in 0 .. Grace
    BY <1>0, OlderType DEF TypeOK
  <2> QED
    BY <2>1 DEF Pass
<1>4. seenAge' \in [Problems -> 0 .. NotLooking + 1]
  <2>1. ASSUME NEW k \in Problems
        PROVE  Older(seenAge[k], ticks, NotLooking + 1) \in 0 .. NotLooking + 1
    BY <1>0, OlderType DEF TypeOK
  <2> QED
    BY <1>0, <2>1 DEF Pass
<1> QED
  BY <1>1, <1>2, <1>3, <1>4

\* What a look writes about alerts and problems is of the right types.
LEMMA WriteTypes ==
    ASSUME TypeOK, NEW w \in Workers, WriteAlerts(w), WriteProblems(w)
    PROVE  /\ reported' \in [Alerts -> BOOLEAN]
           /\ alertAge' \in [Alerts -> 0 .. LongestWait]
           /\ listed' \in [Alerts -> Nat]
           /\ lastAge' \in 0 .. Between
           /\ row' \in [Problems -> {"none", "seen", "told"}]
           /\ since' \in [Problems -> 0 .. Grace]
           /\ seenAge' \in [Problems -> 0 .. NotLooking + 1]
           /\ awake' \in [Problems -> 0 .. Grace]
           /\ untold' \in [Problems -> -2 .. 2]
<1>1. /\ reported' \in [Alerts -> BOOLEAN]
      /\ alertAge' \in [Alerts -> 0 .. LongestWait]
      /\ listed' \in [Alerts -> Nat]
      /\ lastAge' \in 0 .. Between
  BY NoticeAssumption DEF TypeOK, WriteAlerts
<1>2. /\ row' \in [Problems -> {"none", "seen", "told"}]
      /\ since' \in [Problems -> 0 .. Grace]
      /\ seenAge' \in [Problems -> 0 .. NotLooking + 1]
      /\ awake' \in [Problems -> 0 .. Grace]
  BY NoticeAssumption DEF TypeOK, WriteProblems
<1>3. untold' \in [Problems -> -2 .. 2]
  BY DEF TypeOK, WriteProblems
<1> QED
  BY <1>1, <1>2, <1>3

\* No more summaries are written than there are workers: after the first that
\* is written no look reads that it is due.
LEMMA StepSummaries ==
    ASSUME TypeOK, SummariesCounted, [Next]_vars
    PROVE  SummariesCounted' /\ summaries' \in Nat /\ summarised' \in BOOLEAN
<1>0. /\ summaries \in Nat /\ summarised \in BOOLEAN
      /\ pc \in [Workers -> {"idle", "cover", "look", "write"}]
      /\ got \in [Workers -> Got]
      /\ \A w \in Workers : got[w].summary \in BOOLEAN
  <2>1. IsFiniteSet(Workers) => Cardinality(Workers) \in Nat
    BY FS_CardinalityType
  <2>2. got \in [Workers -> Got]
    BY DEF TypeOK
  <2> QED
    BY <2>1, <2>2, NoticeAssumption DEF TypeOK, Got
<1>1. /\ IsFiniteSet(Workers) /\ Cardinality(Workers) \in Nat
      /\ IsFiniteSet(Writers) /\ Cardinality(Writers) \in Nat
      /\ IsFiniteSet(Writers') /\ Cardinality(Writers') \in Nat
      /\ Cardinality(Writers') <= Cardinality(Workers)
  <2>1. IsFiniteSet(Workers)
    BY NoticeAssumption
  <2>2. Writers \in SUBSET Workers /\ Writers' \in SUBSET Workers
    BY DEF Writers
  <2> QED
    BY <2>1, <2>2, FS_Subset, FS_CardinalityType
<1>2. ASSUME UNCHANGED <<summaries, summarised>>, Writers' \subseteq Writers
      PROVE  SummariesCounted' /\ summaries' \in Nat /\ summarised' \in BOOLEAN
  <2>1. Cardinality(Writers') <= Cardinality(Writers)
    BY <1>1, <1>2, FS_Subset
  <2> QED
    BY <1>0, <1>1, <1>2, <2>1 DEF SummariesCounted
<1>3. ASSUME NEW w \in Workers, Begin(w) \/ Cover(w)
      PROVE  SummariesCounted' /\ summaries' \in Nat /\ summarised' \in BOOLEAN
  <2>1. UNCHANGED <<summaries, summarised>>
    BY <1>3 DEF Begin, Cover, dayVars
  <2>2. Writers' \subseteq Writers
    <3>1. \A v \in Workers : pc'[v] = "write" => v # w /\ pc[v] = "write" /\ got'[v] = got[v]
      BY <1>0, <1>3 DEF Begin, Cover, Finish
    <3> QED
      BY <3>1 DEF Writers
  <2> QED
    BY <1>2, <2>1, <2>2
<1>4. ASSUME NEW w \in Workers, Read(w)
      PROVE  SummariesCounted' /\ summaries' \in Nat /\ summarised' \in BOOLEAN
  <2>1. UNCHANGED <<summaries, summarised>>
    BY <1>4 DEF Read, dayVars
  <2>2. CASE summarised
    <3>1. \A v \in Workers : v # w => pc'[v] = pc[v] /\ got'[v] = got[v]
      BY <1>0, <1>4 DEF Read
    <3>2. got'[w].summary = FALSE
      <4>1. PICK problems \in BOOLEAN :
              got' = [got EXCEPT ![w] =
                      [alerts |-> ToList, problems |-> problems, summary |-> ~summarised,
                       wrong |-> {k \in Problems : problems /\ wrong[k]},
                       row |-> IF problems THEN row ELSE NoGot.row,
                       lasted |-> IF problems THEN [k \in Problems |-> Lasted(k)]
                                  ELSE NoGot.lasted]]
        BY <1>4 DEF Read
      <4>2. got'[w].summary = ~summarised
        BY <1>0, <4>1
      <4> QED
        BY <2>2, <4>2
    <3>3. Writers' \subseteq Writers
      BY <3>1, <3>2 DEF Writers
    <3> QED
      BY <1>2, <2>1, <3>3
  <2>3. CASE ~summarised
    BY <1>0, <1>1, <2>1, <2>3 DEF SummariesCounted
  <2> QED
    BY <2>2, <2>3
<1>5. ASSUME NEW w \in Workers, Write(w)
      PROVE  SummariesCounted' /\ summaries' \in Nat /\ summarised' \in BOOLEAN
  <2>1. Writers' = Writers \ {w}
    <3>1. \A v \in Workers : v # w => pc'[v] = pc[v] /\ got'[v] = got[v]
      BY <1>0, <1>5 DEF Write, Finish
    <3>2. pc'[w] = "idle"
      BY <1>0, <1>5 DEF Write, Finish
    <3> QED
      BY <3>1, <3>2 DEF Writers
  <2>2. CASE Clash(w) \/ ~got[w].summary
    <3>1. UNCHANGED <<summaries, summarised>>
      BY <1>0, <1>5, <2>2 DEF Write, WriteSummary, dayVars
    <3> QED
      BY <1>2, <2>1, <3>1
  <2>3. CASE ~Clash(w) /\ got[w].summary
    <3>1. summarised' = TRUE /\ summaries' = summaries + 1
      BY <1>5, <2>3 DEF Write, WriteSummary
    <3>2. w \in Writers
      BY <1>5, <2>3 DEF Write, Writers
    <3>3. Cardinality(Writers') = Cardinality(Writers) - 1
      BY <1>1, <2>1, <3>2, FS_RemoveElement
    <3> QED
      BY <1>0, <1>1, <3>1, <3>3 DEF SummariesCounted
  <2> QED
    BY <2>2, <2>3
<1>6. ASSUME NEW a \in Alerts, Raise(a) \/ Close(a) \/ Replace(a)
      PROVE  SummariesCounted' /\ summaries' \in Nat /\ summarised' \in BOOLEAN
  <2>1. UNCHANGED <<summaries, summarised, pc, got>>
    BY <1>6 DEF Raise, Close, Replace, dayVars
  <2> QED
    BY <1>2, <2>1 DEF Writers
<1>7. ASSUME NEW k \in Problems, Turn(k)
      PROVE  SummariesCounted' /\ summaries' \in Nat /\ summarised' \in BOOLEAN
  <2>1. UNCHANGED <<summaries, summarised, pc, got>>
    BY <1>7 DEF Turn, dayVars
  <2> QED
    BY <1>2, <2>1 DEF Writers
<1>8. CASE NewDay
  <2>1. summarised' = FALSE /\ summaries' = 0
    BY <1>8 DEF NewDay
  <2>2. summaries' + Cardinality(Writers') <= Cardinality(Workers)
    BY <1>1, <2>1
  <2>3. SummariesCounted'
    BY <2>1, <2>2 DEF SummariesCounted
  <2> QED
    BY <2>1, <2>3
<1>9. CASE Tick \/ Nap \/ UNCHANGED vars
  <2>1. UNCHANGED <<summaries, summarised, pc, got>>
    BY <1>9 DEF Tick, Nap, Pass, vars, dayVars
  <2> QED
    BY <1>2, <2>1 DEF Writers
<1> QED
  BY <1>3, <1>4, <1>5, <1>6, <1>7, <1>8, <1>9 DEF Next, Step

\* Each step keeps the variables of alerts in their types.
LEMMA StepAlertTypes ==
    ASSUME TypeOK, [Next]_vars
    PROVE  /\ open' \in [Alerts -> {"no", "open", "closed"}]
           /\ alertAge' \in [Alerts -> 0 .. LongestWait]
           /\ reported' \in [Alerts -> BOOLEAN]
           /\ listed' \in [Alerts -> Nat]
           /\ lastAge' \in 0 .. Between
           /\ started' \in BOOLEAN
<1> DEFINE Types ==
      /\ open \in [Alerts -> {"no", "open", "closed"}]
      /\ alertAge \in [Alerts -> 0 .. LongestWait]
      /\ reported \in [Alerts -> BOOLEAN]
      /\ listed \in [Alerts -> Nat]
      /\ lastAge \in 0 .. Between
      /\ started \in BOOLEAN
<1>1. Types
  BY DEF TypeOK
<1>2. ASSUME UNCHANGED alertVars PROVE Types'
  BY <1>1, <1>2 DEF alertVars
<1>3. ASSUME NEW w \in Workers, Begin(w) \/ Read(w) PROVE Types'
  BY <1>2, <1>3 DEF Begin, Read
<1>4. ASSUME NEW w \in Workers, Cover(w) PROVE Types'
  <2>1. CASE started
    BY <1>2, <1>4, <2>1 DEF Cover
  <2>2. CASE ~started
    <3>1. /\ reported' = [a \in Alerts |-> reported[a] \/ a \in got[w].alerts]
          /\ listed' = [a \in Alerts |-> listed[a] + IF a \in got[w].alerts THEN 1 ELSE 0]
          /\ started' = TRUE
          /\ UNCHANGED <<open, alertAge, lastAge>>
      BY <1>4, <2>2 DEF Cover
    <3>2. reported' \in [Alerts -> BOOLEAN] /\ listed' \in [Alerts -> Nat]
      BY <1>1, <3>1
    <3> QED
      BY <1>1, <3>1, <3>2
  <2> QED
    BY <2>1, <2>2
<1>5. ASSUME NEW w \in Workers, Write(w) PROVE Types'
  <2>1. CASE Clash(w)
    BY <1>2, <1>5, <2>1 DEF Write
  <2>2. CASE ~Clash(w)
    <3>1. WriteAlerts(w) /\ WriteProblems(w)
      BY <1>5, <2>2 DEF Write
    <3>2. UNCHANGED <<open, started>>
      BY <3>1 DEF WriteAlerts
    <3> QED
      BY <1>1, <3>1, <3>2, WriteTypes
  <2> QED
    BY <2>1, <2>2
<1>6. ASSUME NEW a \in Alerts, Raise(a) PROVE Types'
  <2>1. UNCHANGED <<reported, listed, lastAge, started>> /\ open' = [open EXCEPT ![a] = "open"]
    BY <1>6 DEF Raise
  <2>2. alertAge' \in [Alerts -> 0 .. LongestWait]
    BY <1>1, <1>6, NoticeAssumption DEF Raise
  <2> QED
    BY <1>1, <2>1, <2>2
<1>7. ASSUME NEW a \in Alerts, Close(a) PROVE Types'
  <2>1. UNCHANGED <<reported, listed, lastAge, started>> /\ open' = [open EXCEPT ![a] = "closed"]
    BY <1>7 DEF Close
  <2>2. alertAge' \in [Alerts -> 0 .. LongestWait]
    BY <1>1, <1>7, NoticeAssumption DEF Close
  <2> QED
    BY <1>1, <2>1, <2>2
<1>8. ASSUME NEW a \in Alerts, Replace(a) PROVE Types'
  <2>1. UNCHANGED <<lastAge, started>> /\ open' = [open EXCEPT ![a] = "no"]
    BY <1>8 DEF Replace
  <2>2. alertAge' \in [Alerts -> 0 .. LongestWait]
    BY <1>1, <1>8, NoticeAssumption DEF Replace
  <2>3. reported' \in [Alerts -> BOOLEAN] /\ listed' \in [Alerts -> Nat]
    BY <1>1, <1>8 DEF Replace
  <2> QED
    BY <1>1, <2>1, <2>2, <2>3
<1>9. ASSUME NEW k \in Problems, Turn(k) PROVE Types'
  BY <1>2, <1>9 DEF Turn
<1>10. CASE NewDay \/ UNCHANGED vars
  BY <1>2, <1>10 DEF NewDay, vars
<1>11. CASE Tick \/ Nap
  <2>1. PICK ticks \in Nat : Pass(ticks)
    <3>1. 1 \in Nat /\ NotLooking + 1 \in Nat
      BY NoticeAssumption
    <3> QED
      BY <1>11, <3>1 DEF Tick, Nap
  <2>2. alertAge' \in [Alerts -> 0 .. LongestWait] /\ lastAge' \in 0 .. Between
    BY <2>1, PassTypes
  <2>3. UNCHANGED <<open, reported, listed, started>>
    BY <2>1 DEF Pass
  <2> QED
    BY <1>1, <2>2, <2>3
<1>12. Types'
  BY <1>3, <1>4, <1>5, <1>6, <1>7, <1>8, <1>9, <1>10, <1>11 DEF Next, Step
<1> QED
  BY <1>12 DEF Types

\* Each step keeps the variables of problems in their types.
LEMMA StepProblemTypes ==
    ASSUME TypeOK, [Next]_vars
    PROVE  /\ wrong' \in [Problems -> BOOLEAN]
           /\ row' \in [Problems -> {"none", "seen", "told"}]
           /\ since' \in [Problems -> 0 .. Grace]
           /\ seenAge' \in [Problems -> 0 .. NotLooking + 1]
           /\ awake' \in [Problems -> 0 .. Grace]
           /\ untold' \in [Problems -> -2 .. 2]
<1> DEFINE Types ==
      /\ wrong \in [Problems -> BOOLEAN]
      /\ row \in [Problems -> {"none", "seen", "told"}]
      /\ since \in [Problems -> 0 .. Grace]
      /\ seenAge \in [Problems -> 0 .. NotLooking + 1]
      /\ awake \in [Problems -> 0 .. Grace]
      /\ untold \in [Problems -> -2 .. 2]
<1>1. Types
  BY DEF TypeOK
<1>2. ASSUME UNCHANGED problemVars PROVE Types'
  BY <1>1, <1>2 DEF problemVars
<1>3. ASSUME NEW w \in Workers, Begin(w) \/ Cover(w) \/ Read(w) PROVE Types'
  BY <1>2, <1>3 DEF Begin, Cover, Read
<1>4. ASSUME NEW w \in Workers, Write(w) PROVE Types'
  <2>1. CASE Clash(w)
    BY <1>2, <1>4, <2>1 DEF Write
  <2>2. CASE ~Clash(w)
    <3>1. WriteAlerts(w) /\ WriteProblems(w)
      BY <1>4, <2>2 DEF Write
    <3>2. UNCHANGED wrong
      BY <3>1 DEF WriteProblems
    <3> QED
      BY <1>1, <3>1, <3>2, WriteTypes
  <2> QED
    BY <2>1, <2>2
<1>5. ASSUME NEW a \in Alerts, Raise(a) \/ Close(a) \/ Replace(a) PROVE Types'
  BY <1>2, <1>5 DEF Raise, Close, Replace
<1>6. ASSUME NEW k \in Problems, Turn(k) PROVE Types'
  BY <1>1, <1>6 DEF Turn
<1>7. CASE NewDay \/ UNCHANGED vars
  BY <1>2, <1>7 DEF NewDay, vars
<1>8. CASE Tick \/ Nap
  <2>1. PICK ticks \in Nat : Pass(ticks)
    <3>1. 1 \in Nat /\ NotLooking + 1 \in Nat
      BY NoticeAssumption
    <3> QED
      BY <1>8, <3>1 DEF Tick, Nap
  <2>2. since' \in [Problems -> 0 .. Grace] /\ seenAge' \in [Problems -> 0 .. NotLooking + 1]
    BY <2>1, PassTypes
  <2>3. UNCHANGED <<wrong, row, untold>>
    BY <2>1 DEF Pass
  <2>4. awake' \in [Problems -> 0 .. Grace]
    <3>1. ASSUME NEW k \in Problems
          PROVE  awake[k] \in 0 .. Grace /\ Older(awake[k], 1, Grace) \in 0 .. Grace
      BY <1>1, OlderType, NoticeAssumption
    <3> QED
      BY <1>1, <1>8, <3>1 DEF Tick, Nap
  <2> QED
    BY <1>1, <2>2, <2>3, <2>4
<1>9. Types'
  BY <1>3, <1>4, <1>5, <1>6, <1>7, <1>8 DEF Next, Step
<1> QED
  BY <1>9 DEF Types

\* Each step keeps the age of the last look at problems and the count of naps
\* within their bounds.
LEMMA StepTimeTypes ==
    ASSUME TypeOK, [Next]_vars
    PROVE  /\ lookedAge' \in [Workers -> 0 .. LookEvery]
           /\ naps' \in 0 .. MaxNaps[up']
<1>1. /\ up \in Deployments /\ MaxNaps[up] \in Nat
      /\ lookedAge \in [Workers -> 0 .. LookEvery]
      /\ naps \in 0 .. MaxNaps[up]
  BY NoticeAssumption DEF TypeOK
<1>2. ASSUME UNCHANGED <<lookedAge, naps, up>>
      PROVE  lookedAge' \in [Workers -> 0 .. LookEvery] /\ naps' \in 0 .. MaxNaps[up']
  BY <1>1, <1>2
<1>3. ASSUME NEW w \in Workers, Begin(w) \/ Cover(w) \/ Read(w)
      PROVE  UNCHANGED <<lookedAge, naps, up>>
  BY <1>3 DEF Begin, Cover, Read
<1>4. ASSUME NEW w \in Workers, Write(w)
      PROVE  lookedAge' \in [Workers -> 0 .. LookEvery] /\ naps' \in 0 .. MaxNaps[up']
  <2>1. UNCHANGED <<naps, up>>
    BY <1>4 DEF Write
  <2>2. lookedAge' = lookedAge \/ lookedAge' = [lookedAge EXCEPT ![w] = 0]
    BY <1>4 DEF Write
  <2>3. 0 \in 0 .. LookEvery
    BY NoticeAssumption
  <2> QED
    BY <1>1, <2>1, <2>2, <2>3
<1>5. ASSUME NEW a \in Alerts, Raise(a) \/ Close(a) \/ Replace(a)
      PROVE  UNCHANGED <<lookedAge, naps, up>>
  BY <1>5 DEF Raise, Close, Replace
<1>6. ASSUME NEW k \in Problems, Turn(k) PROVE UNCHANGED <<lookedAge, naps, up>>
  BY <1>6 DEF Turn
<1>7. CASE NewDay \/ UNCHANGED vars
  BY <1>2, <1>7 DEF NewDay, vars
<1>8. CASE Tick
  <2>1. UNCHANGED <<naps, up>>
    BY <1>8 DEF Tick
  <2>2. lookedAge' \in [Workers -> 0 .. LookEvery]
    BY <1>1, <1>8, NoticeAssumption DEF Tick
  <2> QED
    BY <1>1, <2>1, <2>2
<1>9. CASE Nap
  <2>1. UNCHANGED <<lookedAge, up>> /\ naps < MaxNaps[up] /\ naps' = naps + 1
    BY <1>9 DEF Nap
  <2> QED
    BY <1>1, <2>1
<1> QED
  BY <1>2, <1>3, <1>4, <1>5, <1>6, <1>7, <1>8, <1>9 DEF Next, Step

\* Each step keeps every variable in its type.
LEMMA StepTypes == ASSUME TypeOK, SummariesCounted, [Next]_vars PROVE TypeOK'
<1>0. /\ up' \in Deployments
      /\ pc' \in [Workers -> {"idle", "cover", "look", "write"}]
      /\ got' \in [Workers -> Got]
  BY LookTypes
<1>1. summarised' \in BOOLEAN /\ summaries' \in 0 .. Cardinality(Workers)
  <2>1. /\ SummariesCounted' /\ summaries' \in Nat /\ summarised' \in BOOLEAN
    BY StepSummaries
  <2>2. Writers' \in SUBSET Workers
    BY DEF Writers
  <2>3. Cardinality(Workers) \in Nat /\ Cardinality(Writers') \in Nat
    BY <2>2, FS_Subset, FS_CardinalityType, NoticeAssumption
  <2> QED
    BY <2>1, <2>3 DEF SummariesCounted
<1>2. /\ open' \in [Alerts -> {"no", "open", "closed"}]
      /\ alertAge' \in [Alerts -> 0 .. LongestWait]
      /\ reported' \in [Alerts -> BOOLEAN]
      /\ listed' \in [Alerts -> Nat]
      /\ lastAge' \in 0 .. Between
      /\ started' \in BOOLEAN
  BY StepAlertTypes
<1>3. /\ wrong' \in [Problems -> BOOLEAN]
      /\ row' \in [Problems -> {"none", "seen", "told"}]
      /\ since' \in [Problems -> 0 .. Grace]
      /\ seenAge' \in [Problems -> 0 .. NotLooking + 1]
      /\ awake' \in [Problems -> 0 .. Grace]
      /\ untold' \in [Problems -> -2 .. 2]
  BY StepProblemTypes
<1>4. /\ lookedAge' \in [Workers -> 0 .. LookEvery]
      /\ naps' \in 0 .. MaxNaps[up']
  BY StepTimeTypes
<1> QED
  BY <1>0, <1>1, <1>2, <1>3, <1>4 DEF TypeOK

-----------------------------------------------------------------------------
\* What a look reports was not reported before, whoever looked meanwhile; the
\* first look of all finds nothing reported.
LEMMA StepNews == ASSUME TypeOK, NewsKept, [Next]_vars PROVE NewsKept'
<1>0. /\ pc \in [Workers -> {"idle", "cover", "look", "write"}]
      /\ reported \in [Alerts -> BOOLEAN] /\ started \in BOOLEAN
  BY DEF TypeOK
<1>1. ASSUME UNCHANGED <<reported, listed, started>>,
             ~started => \A w \in Workers : pc'[w] \in {"idle", "cover"}
      PROVE  NewsKept'
  BY <1>1 DEF NewsKept
<1>2. ASSUME NEW w \in Workers, Begin(w) PROVE NewsKept'
  <2>1. UNCHANGED <<reported, listed, started>>
    BY <1>2 DEF Begin, alertVars
  <2>2. ~started => \A v \in Workers : pc'[v] = IF v = w THEN "cover" ELSE pc[v]
    BY <1>0, <1>2 DEF Begin
  <2> QED
    BY <1>1, <2>1, <2>2 DEF NewsKept
<1>3. ASSUME NEW w \in Workers, Cover(w) PROVE NewsKept'
  <2>1. CASE started
    BY <1>1, <1>3, <2>1 DEF Cover, alertVars
  <2>2. CASE ~started
    <3>1. /\ \A a \in Alerts : reported'[a] <=> (reported[a] \/ a \in got[w].alerts)
          /\ \A a \in Alerts : listed'[a] = listed[a] + IF a \in got[w].alerts THEN 1 ELSE 0
          /\ started' = TRUE
      BY <1>3, <2>2 DEF Cover
    <3>2. \A a \in Alerts : listed[a] = 0 /\ ~reported[a]
      BY <2>2 DEF NewsKept
    <3>3. \A a \in Alerts : listed'[a] = IF reported'[a] THEN 1 ELSE 0
      BY <3>1, <3>2
    <3> QED
      BY <3>1, <3>3 DEF NewsKept
  <2> QED
    BY <2>1, <2>2
<1>4. ASSUME NEW w \in Workers, Read(w) PROVE NewsKept'
  <2>1. UNCHANGED <<reported, listed, started>> /\ pc[w] = "look"
    BY <1>4 DEF Read, alertVars
  <2> QED
    BY <1>1, <2>1 DEF NewsKept
<1>5. ASSUME NEW w \in Workers, Write(w) PROVE NewsKept'
  <2>0. started
    BY <1>5 DEF NewsKept, Write
  <2>1. CASE Clash(w)
    BY <1>1, <1>5, <2>0, <2>1 DEF Write, alertVars
  <2>2. CASE ~Clash(w)
    <3>1. /\ \A a \in Alerts : reported'[a] <=> (reported[a] \/ a \in got[w].alerts)
          /\ \A a \in Alerts : listed'[a] = listed[a] + IF a \in got[w].alerts THEN 1 ELSE 0
          /\ started' = started
      BY <1>5, <2>2 DEF Write, WriteAlerts
    <3>2. \A a \in got[w].alerts : ~reported[a]
      BY <2>2 DEF Clash
    <3>3. \A a \in Alerts : listed'[a] = IF reported'[a] THEN 1 ELSE 0
      BY <3>1, <3>2 DEF NewsKept
    <3> QED
      BY <2>0, <3>1, <3>3 DEF NewsKept
  <2> QED
    BY <2>1, <2>2
<1>6. ASSUME NEW a \in Alerts, Raise(a) \/ Close(a) PROVE NewsKept'
  BY <1>1, <1>6 DEF Raise, Close, NewsKept
<1>7. ASSUME NEW a \in Alerts, Replace(a) PROVE NewsKept'
  <2>1. /\ \A b \in Alerts : /\ reported'[b] <=> (b # a /\ reported[b])
                             /\ listed'[b] = IF b = a THEN 0 ELSE listed[b]
        /\ UNCHANGED <<started, pc>>
    BY <1>0, <1>7 DEF Replace, TypeOK
  <2>2. \A b \in Alerts : listed'[b] = IF reported'[b] THEN 1 ELSE 0
    BY <2>1 DEF NewsKept
  <2>3. ~started => \A b \in Alerts : ~reported'[b]
    BY <2>1 DEF NewsKept
  <2> QED
    BY <2>1, <2>2, <2>3 DEF NewsKept
<1>8. ASSUME NEW k \in Problems, Turn(k) PROVE NewsKept'
  BY <1>1, <1>8 DEF Turn, alertVars, NewsKept
<1>9. CASE NewDay \/ Tick \/ Nap \/ UNCHANGED vars
  BY <1>1, <1>9 DEF NewDay, Tick, Nap, Pass, vars, alertVars, NewsKept
<1> QED
  BY <1>2, <1>3, <1>4, <1>5, <1>6, <1>7, <1>8, <1>9 DEF Next, Step

\* A worker that is not of this deployment never begins to look.
LEMMA StepLooking == ASSUME TypeOK, Looking, [Next]_vars PROVE Looking'
<1>0. pc \in [Workers -> {"idle", "cover", "look", "write"}]
  BY DEF TypeOK
<1>1. ASSUME NEW w \in Workers, Step(w) PROVE Looking'
  <2>1. up' = up /\ w \in up
    BY <1>1 DEF Step, Begin, Cover, Read, Write, Looking
  <2>2. \A v \in Workers : v # w => pc'[v] = pc[v]
    BY <1>0, <1>1 DEF Step, Begin, Cover, Read, Write, Finish
  <2> QED
    BY <2>1, <2>2 DEF Looking
<1>2. ASSUME NEW a \in Alerts, Raise(a) \/ Close(a) \/ Replace(a) PROVE Looking'
  BY <1>2 DEF Raise, Close, Replace, Looking
<1>3. ASSUME NEW k \in Problems, Turn(k) PROVE Looking'
  BY <1>3 DEF Turn, Looking
<1>4. CASE NewDay \/ Tick \/ Nap \/ UNCHANGED vars
  BY <1>4 DEF NewDay, Tick, Nap, Pass, vars, Looking
<1> QED
  BY <1>1, <1>2, <1>3, <1>4 DEF Next

\* At first nothing is reported, told or counted.
LEMMA InitNews == Init => NewsInv
<1> SUFFICES ASSUME Init PROVE NewsInv
  OBVIOUS
<1>1. IsFiniteSet(Workers) /\ Cardinality(Workers) \in Nat
  BY FS_CardinalityType, NoticeAssumption
<1>2. NoGot \in Got
  BY NoticeAssumption DEF NoGot, Got
<1>3. TypeOK
  <2>1. MaxNaps[up] \in Nat
    BY NoticeAssumption DEF Init
  <2>2. /\ open \in [Alerts -> {"no", "open", "closed"}]
        /\ alertAge \in [Alerts -> 0 .. LongestWait]
        /\ reported \in [Alerts -> BOOLEAN]
        /\ listed \in [Alerts -> Nat]
        /\ lastAge \in 0 .. Between
    BY NoticeAssumption DEF Init
  <2>3. /\ wrong \in [Problems -> BOOLEAN]
        /\ row \in [Problems -> {"none", "seen", "told"}]
        /\ since \in [Problems -> 0 .. Grace]
        /\ seenAge \in [Problems -> 0 .. NotLooking + 1]
        /\ awake \in [Problems -> 0 .. Grace]
        /\ untold \in [Problems -> -2 .. 2]
    BY NoticeAssumption DEF Init
  <2>4. /\ pc \in [Workers -> {"idle", "cover", "look", "write"}]
        /\ got \in [Workers -> Got]
        /\ lookedAge \in [Workers -> 0 .. LookEvery]
    BY <1>2, NoticeAssumption DEF Init
  <2>5. /\ up \in Deployments /\ started \in BOOLEAN /\ summarised \in BOOLEAN
        /\ summaries \in 0 .. Cardinality(Workers) /\ naps \in 0 .. MaxNaps[up]
    <3>1. 0 \in 0 .. Cardinality(Workers) /\ 0 \in 0 .. MaxNaps[up]
      BY <1>1, <2>1
    <3>2. up \in Deployments /\ started = FALSE /\ summarised = TRUE /\ summaries = 0 /\ naps = 0
      BY DEF Init
    <3> QED
      BY <3>1, <3>2
  <2> QED
    BY <2>2, <2>3, <2>4, <2>5 DEF TypeOK
<1>4. NewsKept /\ Looking
  BY DEF Init, NewsKept, Looking
<1>5. SummariesCounted
  <2>1. Writers = {}
    BY DEF Init, Writers
  <2> QED
    BY <1>1, <2>1, FS_EmptySet DEF Init, SummariesCounted
<1> QED
  BY <1>3, <1>4, <1>5 DEF NewsInv

\* The types, and what was reported, is kept by every step.
THEOREM NewsKeeps == Spec => []NewsInv
<1>1. Init => NewsInv
  BY InitNews
<1>2. NewsInv /\ [Next]_vars => NewsInv'
  BY StepTypes, StepNews, StepLooking, StepSummaries DEF NewsInv
<1> QED
  BY <1>1, <1>2, PTL DEF Spec

\* An alert is listed by one notification at most, or was there when reporting
\* began, for any number of workers that look at the same time.
THEOREM NewsIsSound == Spec => []NewsSound
<1>1. NewsInv => NewsSound
  BY DEF NewsInv, NewsKept, NewsSound, AlertIsNewsOnce
<1> QED
  BY <1>1, NewsKeeps, PTL

-----------------------------------------------------------------------------
(***************************************************************************)
(* One worker.                                                             *)
(***************************************************************************)

\* The deployment stays as it is.
LEMMA UpStays == [Next]_vars => up' = up
  BY DEF Next, Step, Begin, Cover, Read, Write, Raise, Close, Replace, Turn,
         NewDay, Tick, Nap, vars

\* Alone means that there is one worker, and that no other ever looks.
LEMMA OneLooks ==
    ASSUME NewsInv, Alone
    PROVE  \E w \in Workers : up = {w} /\ \A v \in Workers : v # w => pc[v] = "idle"
<1>1. up \subseteq Workers /\ IsFiniteSet(up)
  <2>1. up \in SUBSET Workers
    BY NoticeAssumption DEF NewsInv, TypeOK
  <2> QED
    BY <2>1, FS_Subset, NoticeAssumption
<1>2. PICK w : up = {w}
  BY <1>1, FS_Singleton DEF Alone
<1> QED
  BY <1>1, <1>2 DEF NewsInv, Looking

\* Nothing that a single worker read changes before it writes.
LEMMA StepCurrent ==
    ASSUME NewsInv, Alone, [Next]_vars,
           \A w \in Workers : pc[w] = "write" => ReadIsCurrent(w)
    PROVE  \A w \in Workers : pc'[w] = "write" => ReadIsCurrent(w)'
<1>0. /\ pc \in [Workers -> {"idle", "cover", "look", "write"}]
      /\ got \in [Workers -> Got]
  BY DEF NewsInv, TypeOK
<1>1. PICK w \in Workers : up = {w} /\ \A v \in Workers : v # w => pc[v] = "idle"
  BY OneLooks
<1>2. ASSUME \A v \in Workers : pc'[v] # "write"
      PROVE  \A v \in Workers : pc'[v] = "write" => ReadIsCurrent(v)'
  BY <1>2
<1>3. ASSUME UNCHANGED <<pc, got, row, since, seenAge, summarised>>
      PROVE  \A v \in Workers : pc'[v] = "write" => ReadIsCurrent(v)'
  <2>1. \A k \in Problems : Lasted(k)' = Lasted(k)
    BY <1>3 DEF Lasted
  <2> QED
    BY <1>3, <2>1 DEF ReadIsCurrent
<1>4. ASSUME NEW v \in Workers, Begin(v) \/ Cover(v) \/ Write(v)
      PROVE  \A u \in Workers : pc'[u] # "write"
  <2>1. v = w
    BY <1>1, <1>4 DEF Begin, Cover, Write
  <2>2. pc'[w] # "write" /\ \A u \in Workers : u # w => pc'[u] = "idle"
    BY <1>0, <1>1, <1>4, <2>1 DEF Begin, Cover, Write, Finish
  <2> QED
    BY <2>2
<1>5. ASSUME NEW v \in Workers, Read(v)
      PROVE  \A u \in Workers : pc'[u] = "write" => ReadIsCurrent(u)'
  <2>1. v = w
    BY <1>1, <1>5 DEF Read
  <2>2. PICK problems \in BOOLEAN :
          got' = [got EXCEPT ![w] =
                  [alerts |-> ToList, problems |-> problems, summary |-> ~summarised,
                   wrong |-> {k \in Problems : problems /\ wrong[k]},
                   row |-> IF problems THEN row ELSE NoGot.row,
                   lasted |-> IF problems THEN [k \in Problems |-> Lasted(k)]
                              ELSE NoGot.lasted]]
    BY <1>5, <2>1 DEF Read
  <2>3. /\ got'[w].problems = problems /\ got'[w].summary = ~summarised
        /\ problems => got'[w].row = row /\ got'[w].lasted = [k \in Problems |-> Lasted(k)]
    BY <1>0, <2>2
  <2>4. UNCHANGED <<row, since, seenAge, summarised>>
    BY <1>5 DEF Read, problemVars, dayVars
  <2>5. \A k \in Problems : Lasted(k)' = Lasted(k)
    BY <2>4 DEF Lasted
  <2>6. ReadIsCurrent(w)'
    BY <2>3, <2>4, <2>5 DEF ReadIsCurrent
  <2>7. \A u \in Workers : u # w => pc'[u] = "idle"
    BY <1>0, <1>1, <1>5, <2>1 DEF Read
  <2> QED
    BY <2>6, <2>7
<1>6. ASSUME NEW a \in Alerts, Raise(a) \/ Close(a) \/ Replace(a)
      PROVE  UNCHANGED <<pc, got, row, since, seenAge, summarised>>
  BY <1>6 DEF Raise, Close, Replace, problemVars, dayVars
<1>7. ASSUME NEW k \in Problems, Turn(k)
      PROVE  UNCHANGED <<pc, got, row, since, seenAge, summarised>>
  BY <1>7 DEF Turn, dayVars
<1>8. CASE NewDay \/ Tick \/ Nap
  BY <1>2, <1>8 DEF NewDay, Tick, Nap, Pass
<1>9. CASE UNCHANGED vars
  BY <1>3, <1>9 DEF vars, problemVars, dayVars
<1> QED
  BY <1>2, <1>3, <1>4, <1>5, <1>6, <1>7, <1>8, <1>9 DEF Next, Step

\* Writing what is current tells what was watched for its time, counts it as
\* told, and takes back what is over.
LEMMA WriteWatches ==
    ASSUME TypeOK, NEW w \in Workers, ReadIsCurrent(w), WriteProblems(w), NEW k \in Problems,
           Watched(k), untold[k] = IF row[k] = "told" THEN 1 ELSE 0
    PROVE  Watched(k)' /\ untold'[k] = IF row'[k] = "told" THEN 1 ELSE 0
<1>0. /\ got[w] \in Got /\ since[k] \in Nat /\ awake[k] \in Nat /\ seenAge[k] \in Nat
      /\ row[k] \in {"none", "seen", "told"} /\ Grace \in Nat /\ NotLooking \in Nat
  BY NoticeAssumption DEF TypeOK
<1>1. CASE k \in Over(w)
  <2>1. got[w].row[k] = row[k]
    BY <1>1 DEF Over, ReadIsCurrent
  <2>2. k \notin Tells(w)
    BY <1>1 DEF Over, Tells, Seen
  <2>3. k \in TellsOver(w) <=> row[k] = "told"
    BY <1>1, <2>1 DEF TellsOver
  <2>4. row'[k] = "none" /\ untold'[k] = IF row[k] = "told" THEN untold[k] - 1 ELSE untold[k]
    BY <1>1, <2>2, <2>3 DEF WriteProblems
  <2> QED
    BY <2>4 DEF Watched
<1>2. CASE k \in Seen(w)
  <2>1. k \notin Over(w) /\ k \notin TellsOver(w)
    BY <1>2 DEF Seen, Over, TellsOver
  <2>2. got[w].row[k] = row[k] /\ got[w].lasted[k] = Lasted(k)
    BY <1>2 DEF Seen, ReadIsCurrent
  <2>3. k \in Tells(w) <=> row[k] # "told" /\ Lasted(k) >= Grace
    BY <1>2, <2>2 DEF Tells
  <2>4. /\ row'[k] = IF k \in Tells(w) THEN "told" ELSE IF row[k] = "none" THEN "seen" ELSE row[k]
        /\ since'[k] = IF Lasted(k) = 0 THEN 0 ELSE since[k]
        /\ seenAge'[k] = 0
        /\ awake'[k] = awake[k]
        /\ untold'[k] = IF k \in Tells(w) /\ untold[k] < 2 THEN untold[k] + 1 ELSE untold[k]
    BY <1>2, <2>1, <2>2 DEF WriteProblems
  <2>5. row[k] # "told" => awake[k] >= Lasted(k)
    BY <1>0 DEF Lasted, Watched
  <2>6. Lasted(k) # 0 /\ row[k] # "told" => Lasted(k) = since[k]
    BY DEF Lasted
  <2>7. row'[k] = "told" => awake'[k] >= Grace
    BY <1>0, <2>3, <2>4, <2>5 DEF Watched, Lasted
  <2>8. row'[k] = "seen" => awake'[k] >= since'[k]
    BY <1>0, <2>3, <2>4, <2>5, <2>6
  <2>9. untold'[k] = IF row'[k] = "told" THEN 1 ELSE 0
    BY <2>3, <2>4
  <2> QED
    BY <2>7, <2>8, <2>9 DEF Watched
<1>3. CASE k \notin Over(w) /\ k \notin Seen(w)
  <2>1. k \notin Tells(w) /\ k \notin TellsOver(w)
    BY <1>3 DEF Tells, TellsOver
  <2>2. /\ row'[k] = row[k] /\ since'[k] = since[k] /\ seenAge'[k] = seenAge[k]
        /\ awake'[k] = awake[k] /\ untold'[k] = untold[k]
    BY <1>3, <2>1 DEF WriteProblems
  <2> QED
    BY <2>2 DEF Watched
<1> QED
  BY <1>1, <1>2, <1>3

\* With one worker, what is told was watched for its time and is told once,
\* whatever turns up and passes meanwhile, naps of the machine included.
LEMMA StepWatches ==
    ASSUME NewsInv, Alone, [Next]_vars, AloneInv, NEW k \in Problems
    PROVE  Watched(k)' /\ untold'[k] = IF row'[k] = "told" THEN 1 ELSE 0
<1>0. /\ TypeOK /\ Watched(k) /\ untold[k] = IF row[k] = "told" THEN 1 ELSE 0
      /\ since[k] \in 0 .. Grace /\ awake[k] \in 0 .. Grace /\ seenAge[k] \in 0 .. NotLooking + 1
      /\ Grace \in Nat /\ NotLooking \in Nat
  BY NoticeAssumption DEF AloneInv, NewsInv, TypeOK
<1>1. ASSUME UNCHANGED <<row, since, seenAge, awake, untold>>
      PROVE  Watched(k)' /\ untold'[k] = IF row'[k] = "told" THEN 1 ELSE 0
  BY <1>0, <1>1 DEF Watched
<1>2. ASSUME NEW w \in Workers, Begin(w) \/ Cover(w) \/ Read(w)
      PROVE  UNCHANGED <<row, since, seenAge, awake, untold>>
  BY <1>2 DEF Begin, Cover, Read, problemVars
<1>3. ASSUME NEW w \in Workers, Write(w)
      PROVE  Watched(k)' /\ untold'[k] = IF row'[k] = "told" THEN 1 ELSE 0
  <2>1. CASE Clash(w)
    BY <1>1, <1>3, <2>1 DEF Write, problemVars
  <2>2. CASE ~Clash(w)
    <3>1. WriteProblems(w) /\ ReadIsCurrent(w)
      BY <1>3, <2>2 DEF Write, AloneInv
    <3> QED
      BY <1>0, <3>1, WriteWatches
  <2> QED
    BY <2>1, <2>2
<1>4. ASSUME NEW a \in Alerts, Raise(a) \/ Close(a) \/ Replace(a)
      PROVE  UNCHANGED <<row, since, seenAge, awake, untold>>
  BY <1>4 DEF Raise, Close, Replace, problemVars
<1>5. ASSUME NEW p \in Problems, Turn(p) PROVE UNCHANGED <<row, since, seenAge, awake, untold>>
  BY <1>5 DEF Turn
<1>6. CASE NewDay \/ UNCHANGED vars
  BY <1>1, <1>6 DEF NewDay, vars, problemVars
<1>7. CASE Tick
  <2>1. /\ row' = row /\ untold' = untold
        /\ since'[k] = IF row[k] = "seen" THEN Older(since[k], 1, Grace) ELSE since[k]
        /\ seenAge'[k] = IF row[k] = "seen" THEN Older(seenAge[k], 1, NotLooking + 1) ELSE 0
        /\ awake'[k] = IF row[k] = "seen" THEN Older(awake[k], 1, Grace) ELSE awake[k]
    BY <1>7 DEF Tick, Pass
  <2>2. row[k] = "seen" /\ seenAge'[k] <= NotLooking => seenAge[k] <= NotLooking
    BY <1>0, <2>1 DEF Older
  <2>3. row[k] = "seen" /\ awake[k] >= since[k] => awake'[k] >= since'[k]
    BY <1>0, <2>1 DEF Older
  <2> QED
    BY <1>0, <2>1, <2>2, <2>3 DEF Watched
<1>8. CASE Nap
  <2>1. /\ row' = row /\ untold' = untold /\ awake' = awake
        /\ seenAge'[k] = IF row[k] = "seen" THEN Older(seenAge[k], NotLooking + 1, NotLooking + 1)
                         ELSE 0
    BY <1>8 DEF Nap, Pass
  <2>2. row[k] = "seen" => seenAge'[k] = NotLooking + 1
    BY <1>0, <2>1 DEF Older
  <2> QED
    BY <1>0, <2>1, <2>2 DEF Watched
<1> QED
  BY <1>1, <1>2, <1>3, <1>4, <1>5, <1>6, <1>7, <1>8 DEF Next, Step

\* With one worker, a summary is written only while none was written that day.
LEMMA StepOneSummary ==
    ASSUME NewsInv, Alone, [Next]_vars, AloneInv
    PROVE  summarised' => summaries' <= 1
<1>0. /\ summarised => summaries <= 1
      /\ ~summarised => summaries = 0
  BY DEF AloneInv, NewsInv, SummariesCounted
<1>1. ASSUME NEW w \in Workers, Write(w) PROVE summarised' => summaries' <= 1
  <2>1. ReadIsCurrent(w)
    BY <1>1 DEF Write, AloneInv
  <2>2. CASE Clash(w)
    BY <1>0, <1>1, <2>2 DEF Write, dayVars
  <2>3. CASE ~Clash(w)
    <3>1. summarised' = (summarised \/ got[w].summary)
          /\ summaries' = summaries + IF got[w].summary THEN 1 ELSE 0
      BY <1>1, <2>3 DEF Write, WriteSummary
    <3>2. CASE got[w].summary
      BY <1>0, <2>1, <3>1, <3>2 DEF ReadIsCurrent
    <3>3. CASE ~got[w].summary
      <4>1. summaries \in Nat
        BY <1>0, StepSummaries DEF NewsInv, TypeOK
      <4> QED
        BY <1>0, <3>1, <3>3, <4>1
    <3> QED
      BY <3>2, <3>3
  <2> QED
    BY <2>2, <2>3
<1>2. ASSUME NEW w \in Workers, Begin(w) \/ Cover(w) \/ Read(w)
      PROVE  UNCHANGED <<summarised, summaries>>
  BY <1>2 DEF Begin, Cover, Read, dayVars
<1>3. ASSUME NEW a \in Alerts, Raise(a) \/ Close(a) \/ Replace(a)
      PROVE  UNCHANGED <<summarised, summaries>>
  BY <1>3 DEF Raise, Close, Replace, dayVars
<1>4. ASSUME NEW k \in Problems, Turn(k) PROVE UNCHANGED <<summarised, summaries>>
  BY <1>4 DEF Turn, dayVars
<1>5. CASE NewDay
  BY <1>5 DEF NewDay
<1>6. CASE Tick \/ Nap \/ UNCHANGED vars
  BY <1>0, <1>6 DEF Tick, Nap, Pass, vars, dayVars
<1> QED
  BY <1>0, <1>1, <1>2, <1>3, <1>4, <1>5, <1>6 DEF Next, Step

\* One worker's reads stay current, and what it tells was watched.
THEOREM AloneKeeps == Spec => [](Alone => AloneInv)
<1>1. Init => AloneInv
  BY NoticeAssumption DEF Init, AloneInv, Watched
<1>2. NewsInv /\ (Alone => AloneInv) /\ [Next]_vars => (Alone => AloneInv)'
  <2> SUFFICES ASSUME NewsInv, Alone => AloneInv, [Next]_vars, Alone' PROVE AloneInv'
    OBVIOUS
  <2>1. Alone
    BY UpStays DEF Alone
  <2>2. AloneInv
    BY <2>1
  <2>3. \A w \in Workers : pc'[w] = "write" => ReadIsCurrent(w)'
    BY <2>1, <2>2, StepCurrent DEF AloneInv
  <2>4. \A k \in Problems : Watched(k)' /\ untold'[k] = IF row'[k] = "told" THEN 1 ELSE 0
    BY <2>1, <2>2, StepWatches
  <2>5. summarised' => summaries' <= 1
    BY <2>1, <2>2, StepOneSummary
  <2> QED
    BY <2>3, <2>4, <2>5 DEF AloneInv
<1> QED
  BY <1>1, <1>2, NewsKeeps, PTL DEF Spec

\* A single worker tells a problem only after watching it, awake, for its
\* time: however often and long the machine sleeps in between.
THEOREM SleepIsNotWatching == Spec => []NapsDoNotCount
<1>1. (Alone => AloneInv) => NapsDoNotCount
  BY DEF AloneInv, Watched, NapsDoNotCount
<1> QED
  BY <1>1, AloneKeeps, PTL

\* A single worker tells each problem once, once more when it is over, and
\* writes one summary a day.
THEOREM ToldOnceAlone == Spec => []ToldOnce
<1>1. NewsInv /\ (Alone => AloneInv) => ToldOnce
  BY DEF NewsInv, SummariesCounted, AloneInv, ToldOnce, ToldThenOver, OneSummaryADay
<1> QED
  BY <1>1, AloneKeeps, NewsKeeps, PTL

-----------------------------------------------------------------------------
(***************************************************************************)
(* Deliveries.                                                             *)
(***************************************************************************)

\* The timings are as in the code: a look is shorter than CLAIM_EXPIRES.
Timely == MaxLook < ClaimExpires

\* A look's count of tries stays among the retry times (_retry_at takes the
\* smaller of the count and their number).
LEMMA TriedCounts ==
    ASSUME NEW n \in 0 .. Len(RetryAfter)
    PROVE  Tried(n) \in 1 .. Len(RetryAfter)
  BY DeliveryAssumption DEF Tried

\* The next try lies a natural number of ticks after the look's moment.
LEMMA NextTryType ==
    ASSUME NEW p \in Procs, snap[p] \in Snap, snap[p].attempts >= 1
    PROVE  NextTry(p) \in Nat
<1>1. snap[p].attempts \in 1 .. Len(RetryAfter)
  BY DeliveryAssumption DEF Snap
<1>2. RetryAfter[snap[p].attempts] \in Nat
  BY <1>1, DeliveryAssumption
<1> QED
  BY <1>2, DeliveryAssumption DEF NextTry

\* The first rows, processes and counts are of their types, nothing is sent.
LEMMA InitHeld == DeliveryInit => ClaimHeld
<1> SUFFICES ASSUME DeliveryInit PROVE ClaimHeld
  OBVIOUS
<1>1. DeliveryTypeOK
  BY DeliveryAssumption DEF DeliveryInit, DeliveryTypeOK, RowStatus, Pc, NoSnap, Snap
<1>2. Hands
  BY DEF DeliveryInit, Hands, Sending
<1>3. OneSender
  BY DEF DeliveryInit, OneSender, Sending
<1> QED
  BY <1>1, <1>2, <1>3 DEF ClaimHeld

\* A process that ends leaves its variables in their types.
LEMMA EndsType ==
    ASSUME DeliveryTypeOK, NEW p \in Procs, ProcEnds(p)
    PROVE  /\ dpc' \in [Procs -> Pc]
           /\ lookAge' \in [Procs -> 0 .. MaxLook]
           /\ todo' \in [Procs -> SUBSET Deliveries]
           /\ cur' \in [Procs -> 0 .. Count]
           /\ snap' \in [Procs -> Snap]
           /\ res' \in [Procs -> AnswerKinds \union {"none"}]
           /\ own' \in [Procs -> 0 .. Count]
<1>1. NoSnap \in Snap
  BY DeliveryAssumption DEF NoSnap, Snap, RowStatus
<1> QED
  BY <1>1, DeliveryAssumption DEF DeliveryTypeOK, ProcEnds, Goto, Pc

\* Each step keeps every variable in its type.
LEMMA StepSendTypes == DeliveryTypeOK /\ Hands /\ [DeliveryNext]_deliveryVars => DeliveryTypeOK'
<1> SUFFICES ASSUME DeliveryTypeOK, Hands, [DeliveryNext]_deliveryVars PROVE DeliveryTypeOK'
  OBVIOUS
<1>1. ASSUME NEW w \in Senders, Look(w) PROVE DeliveryTypeOK'
  <2>1. w \in Procs
    BY DEF Procs
  <2>2. PICK S \in SUBSET Deliveries, due \in SUBSET Deliveries :
            MakeRows(S) /\ BeginLook(w, due, 0)
    BY <1>1 DEF Look
  <2>3. dstat' \in [Deliveries -> RowStatus] /\ wait' \in [Deliveries -> Int]
    BY <2>2, DeliveryAssumption DEF MakeRows, DeliveryTypeOK, RowStatus
  <2>4. /\ dpc' \in [Procs -> Pc]
        /\ todo' \in [Procs -> SUBSET Deliveries]
        /\ own' \in [Procs -> 0 .. Count]
    BY <2>1, <2>2, DeliveryAssumption DEF BeginLook, Goto, DeliveryTypeOK, Pc
  <2> QED
    BY <2>2, <2>3, <2>4 DEF BeginLook, DeliveryTypeOK
<1>2. ASSUME NEW a \in Askers, Ask(a) PROVE DeliveryTypeOK'
  <2>1. a \in Procs
    BY DEF Procs
  <2>2. PICK d \in Deliveries : MakeRows({d}) /\ BeginLook(a, {d}, d)
    BY <1>2 DEF Ask
  <2>3. d \in 0 .. Count
    BY DeliveryAssumption DEF Deliveries
  <2>4. dstat' \in [Deliveries -> RowStatus] /\ wait' \in [Deliveries -> Int]
    BY <2>2, DeliveryAssumption DEF MakeRows, DeliveryTypeOK, RowStatus
  <2>5. /\ dpc' \in [Procs -> Pc]
        /\ todo' \in [Procs -> SUBSET Deliveries]
        /\ own' \in [Procs -> 0 .. Count]
    BY <2>1, <2>2, <2>3 DEF BeginLook, Goto, DeliveryTypeOK, Pc
  <2> QED
    BY <2>2, <2>4, <2>5 DEF BeginLook, DeliveryTypeOK
<1>3. ASSUME NEW p \in Procs, Claim(p) PROVE DeliveryTypeOK'
  <2>1. PICK d \in todo[p] :
            /\ todo' = [todo EXCEPT ![p] = @ \ {d}]
            /\ IF Due(p, d)
               THEN /\ dstat' = [dstat EXCEPT ![d] = "sending"]
                    /\ claimAge' = [claimAge EXCEPT ![d] = lookAge[p]]
                    /\ attempts' = [attempts EXCEPT ![d] = Tried(@)]
                    /\ dpc' = [dpc EXCEPT ![p] = "read"]
                    /\ cur' = [cur EXCEPT ![p] = d]
                    /\ UNCHANGED <<wait, age>>
               ELSE UNCHANGED <<rowVars, dpc, cur>>
    BY <1>3 DEF Claim, Goto
  <2>2. d \in Deliveries /\ d \in 0 .. Count
    BY DeliveryAssumption DEF DeliveryTypeOK, Deliveries
  <2>3. UNCHANGED <<wait, age, lookAge, snap, res, own, out, faults>>
    BY <1>3, <2>1 DEF Claim, rowVars
  <2>4. attempts' \in [Deliveries -> 0 .. Len(RetryAfter)]
    <3>1. Tried(attempts[d]) \in 1 .. Len(RetryAfter)
      BY <2>2, TriedCounts DEF DeliveryTypeOK
    <3>2. Tried(attempts[d]) \in 0 .. Len(RetryAfter)
      BY <3>1, DeliveryAssumption
    <3>3. attempts \in [Deliveries -> 0 .. Len(RetryAfter)]
      BY DEF DeliveryTypeOK
    <3>4. attempts' = attempts \/ attempts' = [attempts EXCEPT ![d] = Tried(@)]
      BY <2>1 DEF rowVars
    <3> QED
      BY <3>2, <3>3, <3>4
  <2>5. claimAge' \in [Deliveries -> 0 .. ClaimExpires + MaxLook]
    <3>1. lookAge[p] \in 0 .. ClaimExpires + MaxLook
      BY DeliveryAssumption DEF DeliveryTypeOK
    <3> QED
      BY <2>1, <2>2, <3>1 DEF DeliveryTypeOK, rowVars
  <2>6. /\ dstat' \in [Deliveries -> RowStatus]
        /\ dpc' \in [Procs -> Pc]
        /\ cur' \in [Procs -> 0 .. Count]
        /\ todo' \in [Procs -> SUBSET Deliveries]
    <3>1. /\ dstat \in [Deliveries -> RowStatus]
          /\ dpc \in [Procs -> Pc]
          /\ cur \in [Procs -> 0 .. Count]
          /\ todo \in [Procs -> SUBSET Deliveries]
      BY DEF DeliveryTypeOK
    <3>2. dstat' = dstat \/ dstat' = [dstat EXCEPT ![d] = "sending"]
      BY <2>1 DEF rowVars
    <3>3. dpc' = dpc \/ dpc' = [dpc EXCEPT ![p] = "read"]
      BY <2>1
    <3>4. cur' = cur \/ cur' = [cur EXCEPT ![p] = d]
      BY <2>1
    <3>5. dstat' \in [Deliveries -> RowStatus]
      BY <3>1, <3>2 DEF RowStatus
    <3>6. dpc' \in [Procs -> Pc]
      BY <3>1, <3>3 DEF Pc
    <3>7. cur' \in [Procs -> 0 .. Count]
      BY <2>2, <3>1, <3>4
    <3>8. todo' \in [Procs -> SUBSET Deliveries]
      BY <2>1, <3>1
    <3> QED
      BY <3>5, <3>6, <3>7, <3>8
  <2> QED
    BY <2>3, <2>4, <2>5, <2>6 DEF DeliveryTypeOK
<1>4. ASSUME NEW p \in Procs, ReadRow(p) PROVE DeliveryTypeOK'
  <2>1. CASE dstat[cur[p]] = "gone"
    BY <1>4, <2>1, EndsType DEF ReadRow, DeliveryTypeOK, rowVars
  <2>2. CASE dstat[cur[p]] # "gone"
    <3>1. cur[p] \in Deliveries
      BY <1>4 DEF ReadRow, Hands
    <3>2. [status |-> dstat[cur[p]], attempts |-> attempts[cur[p]]] \in Snap
      BY <3>1 DEF DeliveryTypeOK, Snap
    <3>3. snap' \in [Procs -> Snap]
      BY <1>4, <2>2, <3>2 DEF ReadRow, DeliveryTypeOK
    <3>4. dpc' \in [Procs -> Pc]
      <4>1. dpc \in [Procs -> Pc] /\ dpc' = [dpc EXCEPT ![p] = "send"]
        BY <1>4, <2>2 DEF ReadRow, Goto, DeliveryTypeOK
      <4> QED
        BY <4>1 DEF Pc
    <3> QED
      BY <1>4, <2>2, <3>3, <3>4 DEF ReadRow, DeliveryTypeOK, rowVars
  <2> QED
    BY <2>1, <2>2
<1>5. ASSUME NEW p \in Procs, SwitchedOff(p) PROVE DeliveryTypeOK'
  BY <1>5 DEF SwitchedOff, Goto, DeliveryTypeOK, Pc, RowStatus
<1>6. ASSUME NEW p \in Procs, Send(p) PROVE DeliveryTypeOK'
  <2>1. res' \in [Procs -> AnswerKinds \union {"none"}]
    BY <1>6, DeliveryAssumption DEF Send, DeliveryTypeOK
  <2>2. out' = out \/ out' = [out EXCEPT ![cur[p]] = @ + 1]
    BY <1>6 DEF Send
  <2>3. cur[p] \in Deliveries
    BY <1>6 DEF Send, Hands
  <2>4. out' \in [Deliveries -> Nat]
    <3>1. out \in [Deliveries -> Nat]
      BY DEF DeliveryTypeOK
    <3>2. out[cur[p]] + 1 \in Nat
      BY <2>3, <3>1
    <3> QED
      BY <2>2, <2>3, <3>1, <3>2
  <2>5. faults' \in 0 .. MaxFaults
    BY <1>6, DeliveryAssumption DEF Send, DeliveryTypeOK
  <2>6. /\ dpc' \in [Procs -> Pc]
        /\ UNCHANGED <<rowVars, lookAge, todo, cur, snap, own>>
    BY <1>6 DEF Send, Goto, DeliveryTypeOK, Pc
  <2> QED
    BY <2>1, <2>4, <2>5, <2>6 DEF DeliveryTypeOK, rowVars
<1>7. ASSUME NEW p \in Procs, Settle(p) PROVE DeliveryTypeOK'
  <2>1. CASE dstat[cur[p]] = "gone"
    BY <1>7, <2>1, EndsType DEF Settle, DeliveryTypeOK, rowVars
  <2>2. CASE dstat[cur[p]] # "gone"
    <3>1. Settled(p) \in RowStatus
      BY DEF Settled, RowStatus
    <3>2. NextTry(p) - lookAge[p] \in Int /\ -MaxLook \in Int
      <4>1. snap[p] \in Snap /\ lookAge[p] \in 0 .. MaxLook
        BY DEF DeliveryTypeOK
      <4>2. snap[p].attempts >= 1
        BY <1>7 DEF Settle, Hands
      <4>3. NextTry(p) \in Nat
        BY <4>1, <4>2, NextTryType
      <4> QED
        BY <4>1, <4>3, DeliveryAssumption
    <3>3. dstat' = dstat \/ dstat' = [dstat EXCEPT ![cur[p]] = Settled(p)]
      BY <1>7, <2>2 DEF Settle, DeliveryTypeOK
    <3>4. dstat' \in [Deliveries -> RowStatus]
      BY <3>1, <3>3 DEF DeliveryTypeOK
    <3>5. wait' \in [Deliveries -> Int]
      <4>1. wait \in [Deliveries -> Int]
        BY DEF DeliveryTypeOK
      <4>2. PICK n \in Int :
                wait' = [wait EXCEPT ![cur[p]] = n] \/ wait' = [wait EXCEPT ![cur[p]] = @]
        BY <1>7, <2>2, <3>2 DEF Settle
      <4> QED
        BY <4>1, <4>2
    <3> QED
      BY <1>7, <2>2, <3>4, <3>5 DEF Settle, Goto, DeliveryTypeOK, Pc
  <2> QED
    BY <2>1, <2>2
<1>8. ASSUME NEW p \in Procs, LookEnds(p) PROVE DeliveryTypeOK'
  BY <1>8, EndsType DEF LookEnds, DeliveryTypeOK, rowVars
<1>9. ASSUME NEW p \in Procs, TestEnds(p) PROVE DeliveryTypeOK'
  BY <1>9, EndsType DEF TestEnds, DeliveryTypeOK, RowStatus
<1>10. ASSUME NEW p \in Procs, Crash(p) PROVE DeliveryTypeOK'
  <2>1. faults' \in 0 .. MaxFaults
    BY <1>10, DeliveryAssumption DEF Crash, DeliveryTypeOK
  <2> QED
    BY <1>10, <2>1, EndsType DEF Crash, DeliveryTypeOK, rowVars
<1>11. CASE DeliveryTick
  <2>1. lookAge' \in [Procs -> 0 .. MaxLook]
    BY <1>11, DeliveryAssumption DEF DeliveryTick, DeliveryTypeOK
  <2>2. claimAge' \in [Deliveries -> 0 .. ClaimExpires + MaxLook]
    BY <1>11, DeliveryAssumption DEF DeliveryTick, DeliveryTypeOK, Aged
  <2>3. age' \in [Deliveries -> 0 .. GiveUpAfter + MaxLook]
    BY <1>11, DeliveryAssumption DEF DeliveryTick, DeliveryTypeOK, Aged
  <2>4. wait' \in [Deliveries -> Int]
    BY <1>11 DEF DeliveryTick, DeliveryTypeOK
  <2> QED
    BY <1>11, <2>1, <2>2, <2>3, <2>4 DEF DeliveryTick, DeliveryTypeOK
<1>12. CASE UNCHANGED deliveryVars
  BY <1>12 DEF DeliveryTypeOK, deliveryVars, rowVars, procVars
<1> QED
  BY <1>1, <1>2, <1>3, <1>4, <1>5, <1>6, <1>7, <1>8, <1>9, <1>10, <1>11, <1>12
  DEF DeliveryNext, DeliveryStep

\* A step after which process p has no row in hand, and which leaves the rows
\* in other hands as they are or deletes them, keeps the claims.
LEMMA LetsGo ==
    ASSUME NEW p \in Procs, Hands, OneSender,
           dpc'[p] \notin {"read", "send", "settle"},
           \A q \in Procs \ {p} : /\ dpc'[q] = dpc[q] /\ cur'[q] = cur[q]
                                  /\ snap'[q] = snap[q] /\ lookAge'[q] = lookAge[q],
           \A q \in Procs \ {p}, d \in Deliveries : Sending(q, d) =>
               /\ dstat'[d] \in {dstat[d], "gone"}
               /\ claimAge'[d] = claimAge[d]
               /\ attempts'[d] = attempts[d]
    PROVE  Hands' /\ OneSender'
  BY DEF Hands, OneSender, Sending

\* No two looks have one row in hand, and each has its own claim on its row: a
\* claim of another process is refused until it expires, which is later than
\* the look it belongs to can last.
LEMMA StepHands ==
    ASSUME Timely, DeliveryTypeOK, Hands, OneSender, [DeliveryNext]_deliveryVars
    PROVE  Hands' /\ OneSender'
<1>0. /\ dstat \in [Deliveries -> RowStatus]
      /\ claimAge \in [Deliveries -> 0 .. ClaimExpires + MaxLook]
      /\ attempts \in [Deliveries -> 0 .. Len(RetryAfter)]
      /\ dpc \in [Procs -> Pc]
      /\ cur \in [Procs -> 0 .. Count]
      /\ lookAge \in [Procs -> 0 .. MaxLook]
      /\ snap \in [Procs -> Snap]
      /\ todo \in [Procs -> SUBSET Deliveries]
  BY DEF DeliveryTypeOK
<1>1. ASSUME NEW w \in Senders, Look(w) PROVE Hands' /\ OneSender'
  <2>1. w \in Procs
    BY DEF Procs
  <2>2. \A d \in Deliveries : dstat[d] # "absent" => dstat'[d] = dstat[d]
    BY <1>1 DEF Look, MakeRows
  <2>3. /\ dpc' = [dpc EXCEPT ![w] = "claim"]
        /\ UNCHANGED <<cur, claimAge, attempts, lookAge, snap>>
    BY <1>1 DEF Look, BeginLook, Goto
  <2>4. \A q \in Procs, d \in Deliveries : Sending(q, d) => dstat[d] # "absent"
    BY DEF Hands
  <2> QED
    BY <1>0, <2>1, <2>2, <2>3, <2>4, LetsGo
<1>2. ASSUME NEW a \in Askers, Ask(a) PROVE Hands' /\ OneSender'
  <2>1. a \in Procs
    BY DEF Procs
  <2>2. \A d \in Deliveries : dstat[d] # "absent" => dstat'[d] = dstat[d]
    BY <1>2 DEF Ask, MakeRows
  <2>3. /\ dpc' = [dpc EXCEPT ![a] = "claim"]
        /\ UNCHANGED <<cur, claimAge, attempts, lookAge, snap>>
    BY <1>2 DEF Ask, BeginLook, Goto
  <2>4. \A q \in Procs, d \in Deliveries : Sending(q, d) => dstat[d] # "absent"
    BY DEF Hands
  <2> QED
    BY <1>0, <2>1, <2>2, <2>3, <2>4, LetsGo
<1>3. ASSUME NEW p \in Procs, Claim(p) PROVE Hands' /\ OneSender'
  <2>1. PICK d \in todo[p] :
            IF Due(p, d)
            THEN /\ dstat' = [dstat EXCEPT ![d] = "sending"]
                 /\ claimAge' = [claimAge EXCEPT ![d] = lookAge[p]]
                 /\ attempts' = [attempts EXCEPT ![d] = Tried(@)]
                 /\ dpc' = [dpc EXCEPT ![p] = "read"]
                 /\ cur' = [cur EXCEPT ![p] = d]
            ELSE UNCHANGED <<rowVars, dpc, cur>>
    BY <1>3 DEF Claim, Goto
  <2>2. d \in Deliveries
    BY <1>0
  <2>3. dpc[p] = "claim" /\ UNCHANGED <<lookAge, snap>>
    BY <1>3 DEF Claim
  <2>4. CASE ~Due(p, d)
    BY <2>1, <2>3, <2>4, LetsGo DEF rowVars
  <2>5. CASE Due(p, d)
    <3>1. ASSUME NEW q \in Procs, Sending(q, d) PROVE FALSE
      <4>1. dstat[d] = "gone" \/ (dstat[d] = "sending" /\ claimAge[d] = lookAge[q])
        BY <2>2, <3>1 DEF Hands
      <4>2. dstat[d] = "sending" /\ claimAge[d] >= lookAge[p] + ClaimExpires
        BY <2>5, <4>1 DEF Due
      <4>3. lookAge[q] \in 0 .. MaxLook /\ lookAge[p] \in 0 .. MaxLook
        BY <1>0
      <4> QED
        BY <4>1, <4>2, <4>3, DeliveryAssumption DEF Timely
    <3>2. Tried(attempts[d]) >= 1
      <4>1. attempts[d] \in 0 .. Len(RetryAfter)
        BY <1>0, <2>2
      <4>2. Tried(attempts[d]) \in 1 .. Len(RetryAfter)
        BY <4>1, TriedCounts
      <4> QED
        BY <4>2, DeliveryAssumption
    <3>3. /\ dstat'[d] = "sending" /\ claimAge'[d] = lookAge[p] /\ attempts'[d] >= 1
          /\ dpc'[p] = "read" /\ cur'[p] = d
          /\ lookAge' = lookAge /\ snap' = snap
      BY <1>0, <2>1, <2>2, <2>3, <2>5, <3>2
    <3>4. \A e \in Deliveries \ {d} : /\ dstat'[e] = dstat[e] /\ claimAge'[e] = claimAge[e]
                                     /\ attempts'[e] = attempts[e]
      BY <1>0, <2>1, <2>5
    <3>5. \A q \in Procs \ {p} : dpc'[q] = dpc[q] /\ cur'[q] = cur[q]
      BY <1>0, <2>1, <2>5
    <3>6. \A q \in Procs \ {p} : dpc[q] \in {"read", "send", "settle"} =>
                                 cur[q] \in Deliveries \ {d}
      BY <3>1 DEF Hands, Sending
    <3>7. Hands'
      <4>1. ASSUME NEW q \in Procs, NEW e \in Deliveries, Sending(q, e)'
            PROVE  dstat'[e] = "gone" \/ (dstat'[e] = "sending" /\ claimAge'[e] = lookAge'[q])
        <5>1. CASE q = p
          BY <3>3, <4>1, <5>1 DEF Sending
        <5>2. CASE q # p
          <6>1. Sending(q, e) /\ e # d
            BY <3>5, <3>6, <4>1, <5>2 DEF Sending
          <6>2. dstat[e] = "gone" \/ (dstat[e] = "sending" /\ claimAge[e] = lookAge[q])
            BY <6>1 DEF Hands
          <6> QED
            BY <3>3, <3>4, <6>1, <6>2
        <5> QED
          BY <5>1, <5>2
      <4>2. ASSUME NEW q \in Procs, dpc'[q] \in {"read", "send", "settle"}
            PROVE  /\ cur'[q] \in Deliveries /\ attempts'[cur'[q]] >= 1
                   /\ dpc'[q] \in {"send", "settle"} => snap'[q].attempts >= 1
        <5>1. CASE q = p
          BY <2>2, <3>3, <5>1
        <5>2. CASE q # p
          BY <3>3, <3>4, <3>5, <3>6, <4>2, <5>2 DEF Hands
        <5> QED
          BY <5>1, <5>2
      <4> QED
        BY <4>1, <4>2 DEF Hands
    <3>8. OneSender'
      BY <3>3, <3>5, <3>6 DEF OneSender, Sending
    <3> QED
      BY <3>7, <3>8
  <2> QED
    BY <2>4, <2>5
<1>4. ASSUME NEW p \in Procs, ReadRow(p) PROVE Hands' /\ OneSender'
  <2>1. dpc[p] = "read" /\ UNCHANGED rowVars
    BY <1>4 DEF ReadRow
  <2>2. CASE dstat[cur[p]] = "gone"
    BY <1>0, <1>4, <2>1, <2>2, LetsGo DEF ReadRow, ProcEnds, Goto, rowVars
  <2>3. CASE dstat[cur[p]] # "gone"
    <3>1. /\ dpc' = [dpc EXCEPT ![p] = "send"]
          /\ snap' = [snap EXCEPT ![p] = [status |-> dstat[cur[p]],
                                          attempts |-> attempts[cur[p]]]]
          /\ UNCHANGED <<lookAge, cur>>
      BY <1>4, <2>3 DEF ReadRow, Goto
    <3>2. snap'[p].attempts >= 1
      BY <1>0, <2>1, <3>1 DEF Hands
    <3>3. \A q \in Procs \ {p} : dpc'[q] = dpc[q] /\ snap'[q] = snap[q]
      BY <1>0, <3>1
    <3>4. dpc'[p] = "send"
      BY <1>0, <3>1
    <3>5. UNCHANGED <<dstat, claimAge, attempts, lookAge, cur>>
      BY <2>1, <3>1 DEF rowVars
    <3> QED
      BY <2>1, <3>2, <3>3, <3>4, <3>5 DEF Hands, OneSender, Sending
  <2> QED
    BY <2>2, <2>3
<1>5. ASSUME NEW p \in Procs, SwitchedOff(p) PROVE Hands' /\ OneSender'
  BY <1>0, <1>5, LetsGo DEF SwitchedOff, Goto
<1>6. ASSUME NEW p \in Procs, Send(p) PROVE Hands' /\ OneSender'
  <2>1. dpc[p] = "send" /\ dpc' = [dpc EXCEPT ![p] = "settle"]
    BY <1>6 DEF Send, Goto
  <2>2. UNCHANGED <<dstat, claimAge, attempts, lookAge, cur, snap>>
    BY <1>6 DEF Send, rowVars
  <2>3. \A q \in Procs : dpc'[q] = dpc[q] \/ (dpc[q] = "send" /\ dpc'[q] = "settle")
    BY <1>0, <2>1
  <2>4. \A q \in Procs, d \in Deliveries : Sending(q, d)' => Sending(q, d)
    BY <2>2, <2>3 DEF Sending
  <2>5. OneSender'
    BY <2>4 DEF OneSender
  <2>6. Hands'
    BY <2>2, <2>3, <2>4 DEF Hands
  <2> QED
    BY <2>5, <2>6
<1>7. ASSUME NEW p \in Procs, Settle(p) PROVE Hands' /\ OneSender'
  <2>1. dpc[p] = "settle"
    BY <1>7 DEF Settle
  <2>2. \A q \in Procs \ {p} : dpc'[q] = dpc[q] /\ cur'[q] = cur[q]
                               /\ snap'[q] = snap[q] /\ lookAge'[q] = lookAge[q]
    BY <1>0, <1>7 DEF Settle, ProcEnds, Goto
  <2>3. dpc'[p] \notin {"read", "send", "settle"}
    BY <1>0, <1>7 DEF Settle, ProcEnds, Goto
  <2>4. claimAge' = claimAge /\ attempts' = attempts
    BY <1>7 DEF Settle, rowVars
  <2>5. \A d \in Deliveries \ {cur[p]} : dstat'[d] = dstat[d]
    BY <1>0, <1>7 DEF Settle, rowVars
  <2>6. \A q \in Procs \ {p}, d \in Deliveries : Sending(q, d) => d # cur[p]
    BY <2>1 DEF OneSender, Sending
  <2> QED
    BY <2>2, <2>3, <2>4, <2>5, <2>6, LetsGo
<1>8. ASSUME NEW p \in Procs, LookEnds(p) PROVE Hands' /\ OneSender'
  BY <1>0, <1>8, LetsGo DEF LookEnds, ProcEnds, Goto, rowVars
<1>9. ASSUME NEW p \in Procs, TestEnds(p) PROVE Hands' /\ OneSender'
  BY <1>0, <1>9, LetsGo DEF TestEnds, ProcEnds, Goto
<1>10. ASSUME NEW p \in Procs, Crash(p) PROVE Hands' /\ OneSender'
  BY <1>0, <1>10, LetsGo DEF Crash, ProcEnds, Goto, rowVars
<1>11. CASE DeliveryTick
  BY <1>0, <1>11, DeliveryAssumption DEF DeliveryTick, Aged, Hands, OneSender, Sending
<1>12. CASE UNCHANGED deliveryVars
  BY <1>12 DEF deliveryVars, rowVars, procVars, Hands, OneSender, Sending
<1> QED
  BY <1>1, <1>2, <1>3, <1>4, <1>5, <1>6, <1>7, <1>8, <1>9, <1>10, <1>11, <1>12
  DEF DeliveryNext, DeliveryStep

-----------------------------------------------------------------------------
\* The inductive invariant: types, claims and their holders.
THEOREM ClaimsHold ==
    ASSUME Timely PROVE DeliverySpec => []ClaimHeld
<1>1. DeliveryInit => ClaimHeld
  BY InitHeld
<1>2. ClaimHeld /\ [DeliveryNext]_deliveryVars => ClaimHeld'
  BY StepSendTypes, StepHands DEF ClaimHeld
<1> QED
  BY <1>1, <1>2, PTL DEF DeliverySpec

\* No notification is sent by two processes at once, whichever process dies,
\* whatever the channels answer and however often a delivery is taken up again.
THEOREM SentByOne ==
    ASSUME Timely PROVE DeliverySpec => []OneSender
<1>1. DeliverySpec => []ClaimHeld
  BY ClaimsHold
<1>2. ClaimHeld => OneSender
  BY DEF ClaimHeld
<1> QED
  BY <1>1, <1>2, PTL

-----------------------------------------------------------------------------
\* A step leaves a delivery that was sent as it is, or deletes its row: a row
\* in a process's hands is not sent yet, whoever else was at it meanwhile.
LEMMA StepKeepsSent ==
    ASSUME ClaimHeld, [DeliveryNext]_deliveryVars, NEW d \in Deliveries, dstat[d] = "sent"
    PROVE  dstat'[d] \in {"sent", "gone"}
<1>0. /\ dstat \in [Deliveries -> RowStatus]
      /\ \A p \in Procs : dpc[p] \in {"send", "settle"} =>
            cur[p] \in Deliveries /\ (cur[p] # d \/ dstat[d] = "gone")
  BY DEF ClaimHeld, DeliveryTypeOK, Hands, Sending
<1>1. ASSUME NEW w \in Senders, Look(w) PROVE dstat'[d] \in {"sent", "gone"}
  BY <1>0, <1>1 DEF Look, MakeRows
<1>2. ASSUME NEW a \in Askers, Ask(a) PROVE dstat'[d] \in {"sent", "gone"}
  BY <1>0, <1>2 DEF Ask, MakeRows
<1>3. ASSUME NEW p \in Procs, Claim(p) PROVE dstat'[d] \in {"sent", "gone"}
  BY <1>0, <1>3 DEF Claim, Due, rowVars
<1>4. ASSUME NEW p \in Procs, SwitchedOff(p) \/ Settle(p)
      PROVE  dstat'[d] \in {"sent", "gone"}
  BY <1>0, <1>4 DEF SwitchedOff, Settle, rowVars
<1>5. ASSUME NEW p \in Procs, TestEnds(p) PROVE dstat'[d] \in {"sent", "gone"}
  BY <1>0, <1>5 DEF TestEnds
<1>6. ASSUME NEW p \in Procs, ReadRow(p) \/ Send(p) \/ LookEnds(p) \/ Crash(p)
      PROVE  dstat'[d] \in {"sent", "gone"}
  BY <1>6 DEF ReadRow, Send, LookEnds, Crash, rowVars
<1>7. CASE DeliveryTick
  BY <1>7 DEF DeliveryTick
<1>8. CASE UNCHANGED deliveryVars
  BY <1>8 DEF deliveryVars, rowVars
<1> QED
  BY <1>1, <1>2, <1>3, <1>4, <1>5, <1>6, <1>7, <1>8 DEF DeliveryNext, DeliveryStep

\* What was sent is never queued again or given up, for any number of workers
\* and of people who ask for tests.
THEOREM SentStays ==
    ASSUME Timely PROVE DeliverySpec => SentIsFinal
<1>1. DeliverySpec => []ClaimHeld
  BY ClaimsHold
<1>2. ClaimHeld /\ [DeliveryNext]_deliveryVars =>
        [\A d \in Deliveries : dstat[d] = "sent" => dstat'[d] \in {"sent", "gone"}]_deliveryVars
  BY StepKeepsSent
<1> QED
  BY <1>1, <1>2, PTL DEF DeliverySpec, SentIsFinal

-----------------------------------------------------------------------------
(***************************************************************************)
(* A notification is sent once.                                            *)
(***************************************************************************)

\* What is waiting, or about to be sent, was not sent before; what was sent is
\* settled, gone, or in the hands of the process that sent it and knows it did.
NotSentYet(d) ==
    /\ dstat[d] \in {"absent", "pending"} => out[d] = 0
    /\ \A p \in Procs : dpc[p] \in {"read", "send"} /\ cur[p] = d => out[d] = 0
SentKnown(d) ==
    dstat[d] = "sending" /\ out[d] # 0 =>
       \E p \in Procs : dpc[p] = "settle" /\ cur[p] = d /\ Delivered(p)

SnapKept == \A p \in Procs : dpc[p] \in {"send", "settle"} => snap[p].status = "sending"

OnceInv ==
    /\ SnapKept
    /\ faults = 0 => \A d \in Deliveries : out[d] \in {0, 1} /\ NotSentYet(d) /\ SentKnown(d)

\* A step that sends and settles nothing, and queues only what was never sent.
LEMMA OnceStays ==
    ASSUME OnceInv, faults = 0, NEW d \in Deliveries, NEW p \in Procs, UNCHANGED out,
           \/ dstat'[d] = dstat[d] \/ dstat'[d] = "gone"
           \/ dstat[d] = "absent" /\ dstat'[d] = "pending",
           dpc'[p] \in {"idle", "claim"}, dpc[p] # "settle",
           \A q \in Procs : q # p => dpc'[q] = dpc[q] /\ cur'[q] = cur[q] /\ res'[q] = res[q]
    PROVE  out'[d] \in {0, 1} /\ NotSentYet(d)' /\ SentKnown(d)'
<1>1. out[d] \in {0, 1} /\ NotSentYet(d) /\ SentKnown(d)
  BY DEF OnceInv
<1>2. NotSentYet(d)'
  BY <1>1 DEF NotSentYet
<1>3. SentKnown(d)'
  BY <1>1 DEF SentKnown, Delivered
<1> QED
  BY <1>1, <1>2, <1>3

\* A row is read when it was just claimed.
LEMMA StepSnap ==
    ASSUME ClaimHeld, SnapKept, [DeliveryNext]_deliveryVars PROVE SnapKept'
<1>d. /\ DOMAIN dpc = Procs /\ DOMAIN snap = Procs
      /\ Senders \subseteq Procs /\ Askers \subseteq Procs
  BY DEF ClaimHeld, DeliveryTypeOK, Procs
<1>1. ASSUME NEW p \in Procs, dpc'[p] \notin {"send", "settle"},
             \A q \in Procs : q # p => dpc'[q] = dpc[q] /\ snap'[q] = snap[q]
      PROVE  SnapKept'
  BY <1>1 DEF SnapKept
<1>2. ASSUME NEW w \in Senders, Look(w) PROVE SnapKept'
  BY <1>d, <1>1, <1>2 DEF Look, BeginLook, Goto
<1>3. ASSUME NEW a \in Askers, Ask(a) PROVE SnapKept'
  BY <1>d, <1>1, <1>3 DEF Ask, BeginLook, Goto
<1>4. ASSUME NEW p \in Procs, Claim(p) PROVE SnapKept'
  <2>1. snap' = snap /\ dpc[p] = "claim" /\ (dpc' = dpc \/ dpc' = [dpc EXCEPT ![p] = "read"])
    BY <1>4 DEF Claim, Goto
  <2> QED
    BY <1>d, <2>1 DEF SnapKept
<1>5. ASSUME NEW p \in Procs, ReadRow(p) PROVE SnapKept'
  <2>1. CASE dstat[cur[p]] = "gone"
    BY <1>d, <1>1, <1>5, <2>1 DEF ReadRow, ProcEnds, Goto
  <2>2. CASE dstat[cur[p]] # "gone"
    <3>1. dstat[cur[p]] = "sending"
      BY <1>5, <2>2 DEF ReadRow, ClaimHeld, Hands, Sending
    <3>2. /\ dpc' = [dpc EXCEPT ![p] = "send"]
          /\ snap' = [snap EXCEPT ![p] = [status |-> dstat[cur[p]], attempts |-> attempts[cur[p]]]]
      BY <1>5, <2>2 DEF ReadRow, Goto
    <3> QED
      BY <1>d, <3>1, <3>2 DEF SnapKept
  <2> QED
    BY <2>1, <2>2
<1>6. ASSUME NEW p \in Procs, Send(p) PROVE SnapKept'
  <2>1. dpc[p] = "send" /\ dpc' = [dpc EXCEPT ![p] = "settle"] /\ snap' = snap
    BY <1>6 DEF Send, Goto
  <2> QED
    BY <1>d, <2>1 DEF SnapKept
<1>7. ASSUME NEW p \in Procs, SwitchedOff(p) \/ LookEnds(p) \/ TestEnds(p)
                               \/ Crash(p) \/ Settle(p)
      PROVE  SnapKept'
  BY <1>d, <1>1, <1>7
     DEF SwitchedOff, LookEnds, TestEnds, Crash, Settle, ProcEnds, Goto
<1>8. CASE DeliveryTick \/ UNCHANGED deliveryVars
  BY <1>8 DEF DeliveryTick, deliveryVars, procVars, SnapKept
<1> QED
  BY <1>2, <1>3, <1>4, <1>5, <1>6, <1>7, <1>8 DEF DeliveryNext, DeliveryStep

\* A claim is taken over only when its process is past its look, so nobody
\* claims what another one has sent and not settled.
LEMMA ClaimsUnsent ==
    ASSUME Timely, ClaimHeld, OnceInv, faults = 0,
           NEW p \in Procs, NEW d \in Deliveries, Due(p, d)
    PROVE  out[d] = 0
<1>1. NotSentYet(d) /\ SentKnown(d)
  BY DEF OnceInv
<1>2. CASE dstat[d] = "pending"
  BY <1>1, <1>2 DEF NotSentYet
<1>3. CASE dstat[d] = "sending" /\ claimAge[d] >= lookAge[p] + ClaimExpires
  <2>1. ASSUME NEW q \in Procs, dpc[q] = "settle", cur[q] = d PROVE FALSE
    <3>1. claimAge[d] = lookAge[q]
      BY <1>3, <2>1 DEF ClaimHeld, Hands, Sending
    <3>2. lookAge[q] \in 0 .. MaxLook /\ lookAge[p] \in 0 .. MaxLook
      BY DEF ClaimHeld, DeliveryTypeOK
    <3> QED
      BY <1>3, <3>1, <3>2, DeliveryAssumption DEF Timely
  <2> QED
    BY <1>1, <1>3, <2>1 DEF SentKnown
<1> QED
  BY <1>2, <1>3 DEF Due

\* Each step sends what was not sent, or nothing.
LEMMA StepOnce ==
    ASSUME Timely, ClaimHeld, OnceInv, [DeliveryNext]_deliveryVars,
           faults' = 0, NEW d \in Deliveries
    PROVE  out'[d] \in {0, 1} /\ NotSentYet(d)' /\ SentKnown(d)'
<1>d. /\ DOMAIN dpc = Procs /\ DOMAIN cur = Procs /\ DOMAIN res = Procs
      /\ DOMAIN dstat = Deliveries
      /\ DOMAIN out = Deliveries /\ Senders \subseteq Procs /\ Askers \subseteq Procs
      /\ \A p \in Procs : todo[p] \subseteq Deliveries
  BY DEF ClaimHeld, DeliveryTypeOK, Procs
<1>0. faults = 0
  <2>1. faults \in Nat
    BY DeliveryAssumption DEF ClaimHeld, DeliveryTypeOK
  <2>2. faults' = faults \/ faults' = faults + 1
    <3>1. ASSUME NEW p \in Procs, DeliveryStep(p) \/ Crash(p)
          PROVE  faults' = faults \/ faults' = faults + 1
      BY <2>1, <3>1 DEF DeliveryStep, Claim, ReadRow, SwitchedOff, Send, Settle,
         LookEnds, TestEnds, Crash
    <3> QED
      BY <3>1 DEF DeliveryNext, Look, Ask, BeginLook, DeliveryTick, deliveryVars
  <2> QED
    BY <2>1, <2>2
<1>i. out[d] \in {0, 1} /\ NotSentYet(d) /\ SentKnown(d)
  BY <1>0 DEF OnceInv
<1>1. ASSUME NEW w \in Senders, Look(w)
      PROVE  out'[d] \in {0, 1} /\ NotSentYet(d)' /\ SentKnown(d)'
  <2>1. dpc[w] = "idle" /\ dpc' = [dpc EXCEPT ![w] = "claim"] /\ UNCHANGED <<out, cur, res>>
    BY <1>1 DEF Look, BeginLook, Goto
  <2>2. dstat'[d] = dstat[d] \/ (dstat[d] = "absent" /\ dstat'[d] = "pending")
    BY <1>1 DEF Look, MakeRows
  <2> QED
    BY <1>0, <1>d, <2>1, <2>2, OnceStays
<1>2. ASSUME NEW a \in Askers, Ask(a)
      PROVE  out'[d] \in {0, 1} /\ NotSentYet(d)' /\ SentKnown(d)'
  <2>1. dpc[a] = "idle" /\ dpc' = [dpc EXCEPT ![a] = "claim"] /\ UNCHANGED <<out, cur, res>>
    BY <1>2 DEF Ask, BeginLook, Goto
  <2>2. dstat'[d] = dstat[d] \/ (dstat[d] = "absent" /\ dstat'[d] = "pending")
    BY <1>2 DEF Ask, MakeRows
  <2> QED
    BY <1>0, <1>d, <2>1, <2>2, OnceStays
<1>3. ASSUME NEW p \in Procs, Claim(p)
      PROVE  out'[d] \in {0, 1} /\ NotSentYet(d)' /\ SentKnown(d)'
  <2>1. dpc[p] = "claim" /\ UNCHANGED <<out, res>>
    BY <1>3 DEF Claim
  <2>2. PICK e \in todo[p] :
           IF Due(p, e) THEN /\ dstat' = [dstat EXCEPT ![e] = "sending"]
                             /\ dpc' = [dpc EXCEPT ![p] = "read"] /\ cur' = [cur EXCEPT ![p] = e]
           ELSE UNCHANGED <<dstat, dpc, cur>>
    BY <1>3 DEF Claim, Goto, rowVars
  <2>3. CASE Due(p, e)
    <3>1. e \in Deliveries /\ out[e] = 0
      BY <1>0, <1>d, <2>3, ClaimsUnsent
    <3>2. /\ \A q \in Procs : q # p => dpc'[q] = dpc[q] /\ cur'[q] = cur[q]
          /\ dpc'[p] = "read" /\ cur'[p] = e
          /\ dstat'[d] = IF d = e THEN "sending" ELSE dstat[d]
      BY <1>d, <2>2, <2>3
    <3>3. NotSentYet(d)'
      BY <1>i, <2>1, <3>1, <3>2 DEF NotSentYet
    <3>4. SentKnown(d)'
      BY <1>i, <2>1, <3>1, <3>2 DEF SentKnown, Delivered
    <3> QED
      BY <1>i, <2>1, <3>3, <3>4
  <2>4. CASE ~Due(p, e)
    BY <1>i, <2>1, <2>2, <2>4 DEF NotSentYet, SentKnown, Delivered
  <2> QED
    BY <2>3, <2>4
<1>4. ASSUME NEW p \in Procs, ReadRow(p)
      PROVE  out'[d] \in {0, 1} /\ NotSentYet(d)' /\ SentKnown(d)'
  <2>1. dpc[p] = "read" /\ UNCHANGED <<out, dstat>>
    BY <1>4 DEF ReadRow, rowVars
  <2>2. CASE dstat[cur[p]] = "gone"
    BY <1>0, <1>d, <1>4, <2>1, <2>2, OnceStays DEF ReadRow, ProcEnds, Goto
  <2>3. CASE dstat[cur[p]] # "gone"
    <3>1. dpc' = [dpc EXCEPT ![p] = "send"] /\ UNCHANGED <<cur, res>>
      BY <1>4, <2>3 DEF ReadRow, Goto
    <3> QED
      BY <1>d, <1>i, <2>1, <3>1 DEF NotSentYet, SentKnown, Delivered
  <2> QED
    BY <2>2, <2>3
<1>5. ASSUME NEW p \in Procs, SwitchedOff(p) \/ LookEnds(p) \/ TestEnds(p)
      PROVE  out'[d] \in {0, 1} /\ NotSentYet(d)' /\ SentKnown(d)'
  <2>1. /\ dpc[p] \in {"send", "claim"} /\ UNCHANGED out /\ dpc'[p] \in {"idle", "claim"}
        /\ \A q \in Procs : q # p => dpc'[q] = dpc[q] /\ cur'[q] = cur[q] /\ res'[q] = res[q]
    BY <1>d, <1>5 DEF SwitchedOff, LookEnds, TestEnds, Done, ProcEnds, Goto
  <2>2. dstat'[d] = dstat[d] \/ dstat'[d] = "gone"
    BY <1>d, <1>5 DEF SwitchedOff, LookEnds, TestEnds, rowVars
  <2> QED
    BY <1>0, <2>1, <2>2, OnceStays
<1>6. ASSUME NEW p \in Procs, Send(p)
      PROVE  out'[d] \in {0, 1} /\ NotSentYet(d)' /\ SentKnown(d)'
  <2>1. /\ dpc[p] = "send" /\ dpc' = [dpc EXCEPT ![p] = "settle"] /\ UNCHANGED <<dstat, cur>>
    BY <1>6 DEF Send, Goto, rowVars
  <2>2. PICK r \in Answers \ {"off"} :
           /\ res' = [res EXCEPT ![p] = r]
           /\ out' = IF r \in {"ok", "unsure"}
                     THEN [out EXCEPT ![cur[p]] = out[cur[p]] + 1] ELSE out
           /\ faults' = faults + IF r = "unsure" THEN 1 ELSE 0
    BY <1>6 DEF Send
  <2>3. r # "unsure"
    BY <1>0, <2>2
  <2>4. \A q \in Procs : q # p => ~(dpc[q] \in {"read", "send", "settle"} /\ cur[q] = cur[p])
    BY <2>1 DEF ClaimHeld, OneSender, Hands, Sending
  <2>5. CASE d = cur[p]
    <3>1. out[d] = 0
      BY <1>i, <2>1, <2>5 DEF NotSentYet
    <3>2. out'[d] = IF r = "ok" THEN 1 ELSE 0
      BY <1>d, <2>2, <2>3, <2>5, <3>1
    <3>3. dstat[d] \notin {"absent", "pending"}
      BY <2>1, <2>5 DEF ClaimHeld, Hands, Sending
    <3>4. NotSentYet(d)'
      BY <1>d, <2>1, <2>4, <2>5, <3>3 DEF NotSentYet
    <3>5. r = "ok" => SentKnown(d)'
      BY <1>d, <2>1, <2>2, <2>5 DEF SentKnown, Delivered
    <3> QED
      BY <3>2, <3>4, <3>5 DEF SentKnown
  <2>6. CASE d # cur[p]
    <3>1. out'[d] = out[d]
      BY <1>d, <2>2, <2>6
    <3>2. \A q \in Procs : cur[q] = d => dpc'[q] = dpc[q] /\ res'[q] = res[q]
      BY <1>d, <2>1, <2>2, <2>6
    <3> QED
      BY <1>i, <2>1, <3>1, <3>2 DEF NotSentYet, SentKnown, Delivered
  <2> QED
    BY <2>5, <2>6
<1>7. ASSUME NEW p \in Procs, Settle(p)
      PROVE  out'[d] \in {0, 1} /\ NotSentYet(d)' /\ SentKnown(d)'
  <2>1. /\ dpc[p] = "settle" /\ UNCHANGED out /\ dpc'[p] \in {"idle", "claim"}
        /\ \A q \in Procs : q # p => dpc'[q] = dpc[q] /\ cur'[q] = cur[q] /\ res'[q] = res[q]
        /\ d # cur[p] => dstat'[d] = dstat[d]
    BY <1>d, <1>7 DEF Settle, ProcEnds, Goto, rowVars
  <2>2. \A q \in Procs : q # p => ~(dpc[q] \in {"read", "send", "settle"} /\ cur[q] = cur[p])
    BY <2>1 DEF ClaimHeld, OneSender, Hands, Sending
  <2>3. CASE d # cur[p]
    <3>1. NotSentYet(d)'
      BY <1>i, <2>1, <2>3 DEF NotSentYet
    <3>2. SentKnown(d)'
      BY <1>i, <2>1, <2>3 DEF SentKnown, Delivered
    <3> QED
      BY <1>i, <2>1, <3>1, <3>2
  <2>4. CASE d = cur[p]
    <3>1. dstat[d] \in {"gone", "sending"} /\ snap[p].status = "sending"
      BY <2>1, <2>4 DEF ClaimHeld, Hands, Sending, OnceInv, SnapKept
    <3>2. CASE dstat[d] = "gone"
      <4>1. dstat'[d] = "gone"
        BY <1>7, <2>4, <3>2 DEF Settle, rowVars
      <4> QED
        BY <1>i, <2>1, <2>2, <2>4, <4>1 DEF NotSentYet, SentKnown
    <3>3. CASE dstat[d] = "sending"
      <4>1. dstat'[d] = Settled(p) /\ Settled(p) \in {"sent", "failed", "pending"}
        BY <1>d, <1>7, <2>4, <3>1, <3>3 DEF Settle, Settled
      <4>2. ~Delivered(p) => out[d] = 0
        BY <1>i, <2>2, <2>4, <3>3 DEF SentKnown
      <4>3. Settled(p) = "pending" => out[d] = 0
        BY <4>2 DEF Settled
      <4> QED
        BY <1>i, <2>1, <2>2, <2>4, <4>1, <4>3 DEF NotSentYet, SentKnown
    <3> QED
      BY <3>1, <3>2, <3>3
  <2> QED
    BY <2>3, <2>4
<1>8. ASSUME NEW p \in Procs PROVE ~Crash(p)
  BY <1>0 DEF Crash
<1>9. CASE DeliveryTick \/ UNCHANGED deliveryVars
  BY <1>9, <1>i
     DEF DeliveryTick, deliveryVars, rowVars, procVars, NotSentYet, SentKnown, Delivered
<1> QED
  BY <1>1, <1>2, <1>3, <1>4, <1>5, <1>6, <1>7, <1>8, <1>9 DEF DeliveryNext, DeliveryStep

\* As long as nothing was killed and every failure was one, nobody gets a
\* notification twice, for any number of workers and of people who ask.
THEOREM SentOnlyOnce ==
    ASSUME Timely PROVE DeliverySpec => []SentOnce
<1>1. DeliveryInit => OnceInv
  BY DEF DeliveryInit, OnceInv, SnapKept, NotSentYet, SentKnown
<1>2. ClaimHeld /\ OnceInv /\ [DeliveryNext]_deliveryVars => OnceInv'
  BY StepSnap, StepOnce DEF OnceInv
<1>3. OnceInv => SentOnce
  BY DEF OnceInv, SentOnce
<1> QED
  BY <1>1, <1>2, <1>3, ClaimsHold, PTL DEF DeliverySpec

=============================================================================
