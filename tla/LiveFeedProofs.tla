--------------------------- MODULE LiveFeedProofs ---------------------------
(***************************************************************************)
(* Every line is accounted for, what is stored keeps the order it arrived  *)
(* in, no record twice, and a run tells of no line that is not stored: for *)
(* any number of lines, any size of the queue and of the batches, any      *)
(* number of starts and ends of the receiver, and under every fault.       *)
(***************************************************************************)
EXTENDS LiveFeed, SequenceTheorems, FiniteSetTheorems, WellFoundedInduction, TLAPS

\* A part of the batch: not empty, and within the batch.
LEMMA PartFacts ==
    ASSUME TypeOK, PartsFit, pc = "save", ends # <<>>
    PROVE  /\ Len(ends) \in Nat \ {0} /\ Len(batch) \in Nat
           /\ Head(ends) = ends[1] /\ Head(ends) \in 1 .. Len(batch)
           /\ at < Head(ends) /\ PartSize \in Nat \ {0}
           /\ Tail(ends) \in Seq(1 .. Len(batch)) /\ Len(Tail(ends)) = Len(ends) - 1
           /\ \A i \in 1 .. Len(ends) - 1 : Tail(ends)[i] = ends[i + 1]
<1>1. Len(batch) \in Nat /\ ends \in Seq(1 .. Len(batch))
  BY LenProperties DEF TypeOK
<1>2. Len(ends) \in Nat \ {0}
  BY <1>1, EmptySeq
<1>3. Head(ends) = ends[1] /\ 1 \in DOMAIN ends
  BY <1>1, <1>2, LenProperties
<1>4. /\ Head(ends) \in 1 .. Len(batch)
      /\ Tail(ends) \in Seq(1 .. Len(batch)) /\ Len(Tail(ends)) = Len(ends) - 1
      /\ \A i \in 1 .. Len(Tail(ends)) : Tail(ends)[i] = ends[i + 1]
  BY <1>1, HeadTailProperties
<1>5. at < Head(ends)
  BY <1>3 DEF PartsFit
<1> QED
  BY <1>1, <1>2, <1>3, <1>4, <1>5 DEF PartSize, TypeOK

\* What is new of a part is no more than the part.
LEMMA NewFacts ==
    ASSUME TypeOK, PartsFit, pc = "save", ends # <<>>, NEW new \in Ascending(New)
    PROVE  /\ new \in Seq(New) /\ Len(new) \in 0 .. PartSize
           /\ New \subseteq DOMAIN lines
           /\ \A l \in New : \E k \in 1 .. Len(new) : new[k] = l
<1>1. /\ Head(ends) \in 1 .. Len(batch) /\ at < Head(ends) /\ at \in Nat
      /\ Len(batch) \in Nat /\ PartSize = Head(ends) - at
  BY PartFacts DEF TypeOK, PartSize
<1> DEFINE Places == (at + 1) .. Head(ends)
           Names  == [i \in Places |-> batch[i]]
<1>2. Names \in Surjection(Places, PartLines)
  BY DEF Surjection, PartLines
<1>3. IsFiniteSet(Places) /\ Cardinality(Places) = PartSize
  <2>1. at + 1 \in Int /\ Head(ends) \in Int /\ ~(at + 1 > Head(ends))
    BY <1>1
  <2>2. /\ IsFiniteSet(Places)
        /\ Cardinality(Places) = IF at + 1 > Head(ends) THEN 0 ELSE Head(ends) - (at + 1) + 1
    BY <2>1, FS_Interval
  <2> QED
    BY <1>1, <2>1, <2>2
<1>4. IsFiniteSet(PartLines) /\ Cardinality(PartLines) <= PartSize
  BY <1>2, <1>3, FS_Surjection
<1>5. New \in SUBSET PartLines
  BY DEF New
<1>6. /\ IsFiniteSet(New) /\ Cardinality(New) \in Nat
      /\ Cardinality(New) <= Cardinality(PartLines) /\ Cardinality(PartLines) \in Nat
  BY <1>4, <1>5, FS_Subset, FS_CardinalityType
<1>7. new \in [1 .. Cardinality(New) -> New]
  BY DEF Ascending
<1>8. new \in Seq(New) /\ Len(new) = Cardinality(New)
  BY <1>6, <1>7, SeqDef
<1>9. \A i \in Places : batch[i] \in DOMAIN lines
  <2>1. batch \in Seq(DOMAIN lines)
    BY DEF TypeOK
  <2>2. ASSUME NEW i \in Places PROVE i \in 1 .. Len(batch)
    BY <1>1
  <2>3. ASSUME NEW i \in 1 .. Len(batch) PROVE batch[i] \in DOMAIN lines
    BY <2>1, ElementOfSeq
  <2> QED
    BY <2>2, <2>3
<1>10. \A l \in New : \E k \in 1 .. Cardinality(New) : new[k] = l
  <2>1. \A i, j \in 1 .. Cardinality(New) : i < j => new[i] < new[j]
    <3>1. \A i, j \in DOMAIN new : i < j => new[i] < new[j]
      BY DEF Ascending
    <3> QED
      BY <1>7, <3>1
  <2>2. \A l \in New : l \in Int
    <3>1. DOMAIN lines \subseteq Nat
      BY LenProperties DEF TypeOK
    <3> QED
      BY <1>5, <1>9, <3>1 DEF PartLines
  <2>3. ASSUME NEW i \in 1 .. Cardinality(New), NEW j \in 1 .. Cardinality(New),
               new[i] = new[j]
        PROVE  i = j
    <3>1. new[i] \in Int /\ new[j] \in Int /\ i \in Int /\ j \in Int
      BY <1>6, <1>7, <2>2
    <3>2. ~(i < j) /\ ~(j < i)
      BY <2>1, <2>3, <3>1
    <3> QED
      BY <3>1, <3>2
  <2>4. new \in Injection(1 .. Cardinality(New), New)
    BY <1>7, <2>3 DEF Injection, IsInjective
  <2>5. Cardinality(1 .. Cardinality(New)) = Cardinality(New)
    <3>1. 1 \in Int /\ Cardinality(New) \in Int
      BY <1>6
    <3>2. Cardinality(1 .. Cardinality(New))
             = IF 1 > Cardinality(New) THEN 0 ELSE Cardinality(New) - 1 + 1
      BY <3>1, FS_Interval
    <3> QED
      BY <1>6, <3>2
  <2>6. new \in Surjection(1 .. Cardinality(New), New)
    BY <1>6, <2>4, <2>5, FS_Injection
  <2> QED
    BY <2>6 DEF Surjection
<1>11. Len(new) \in 0 .. PartSize
  BY <1>1, <1>4, <1>6, <1>8
<1>12. New \subseteq DOMAIN lines
  BY <1>5, <1>9 DEF PartLines
<1> QED
  BY <1>8, <1>10, <1>11, <1>12

-----------------------------------------------------------------------------
(***************************************************************************)
(* Types.                                                                  *)
(***************************************************************************)

\* Nothing is received and nothing is told at first.
LEMMA InitTypes == Init => TypeOK
<1> SUFFICES ASSUME Init PROVE TypeOK
  OBVIOUS
<1>1. /\ lines \in Seq(Line) /\ Len(lines) = 0
      /\ pending \in Seq(DOMAIN lines) /\ Len(pending) = 0
      /\ batch \in Seq(DOMAIN lines) /\ Len(batch) = 0
      /\ ends \in Seq(1 .. Len(batch)) /\ rows \in Seq(DOMAIN lines)
      /\ runs \in Seq(Run) /\ Len(runs) = 0
  BY EmptySeq DEF Init
<1>2. /\ received \in Nat /\ dropped \in Nat /\ stop \in BOOLEAN /\ finished \in BOOLEAN
      /\ pc \in {"down", "batch", "save", "round", "idle", "close"}
      /\ gaveUp \in BOOLEAN /\ at = 0
  BY DEF Init
<1>3. saved \in [Counts -> Nat]
  BY DEF Init, Nothing
<1>4. kills \in 0 .. MaxKills
  BY FeedAssumption DEF Init
<1>5. /\ Len(lines) <= MaxLines /\ Len(pending) <= MaxPending /\ Len(batch) <= BatchSize
      /\ at \in 0 .. Len(batch) /\ Len(runs) <= MaxRuns
  BY <1>1, <1>2, FeedAssumption
<1> QED
  BY <1>1, <1>2, <1>3, <1>4, <1>5 DEF TypeOK

\* The memory of a new process is well typed.
LEMMA ForgottenTypes ==
    ASSUME TypeOK, Forgotten, lines' = lines
    PROVE  /\ pending' \in Seq(DOMAIN lines') /\ Len(pending') <= MaxPending
           /\ received' \in Nat /\ dropped' \in Nat
           /\ stop' \in BOOLEAN /\ finished' \in BOOLEAN
           /\ batch' \in Seq(DOMAIN lines') /\ Len(batch') <= BatchSize
           /\ at' \in 0 .. Len(batch') /\ ends' \in Seq(1 .. Len(batch'))
           /\ saved' \in [Counts -> Nat] /\ gaveUp' \in BOOLEAN
<1>1. /\ pending' \in Seq(DOMAIN lines') /\ Len(pending') = 0
      /\ batch' \in Seq(DOMAIN lines') /\ Len(batch') = 0
      /\ ends' \in Seq(1 .. Len(batch'))
  BY EmptySeq DEF Forgotten
<1>2. saved' \in [Counts -> Nat]
  BY DEF Forgotten, Nothing
<1>3. /\ received' \in Nat /\ dropped' \in Nat /\ stop' \in BOOLEAN /\ finished' \in BOOLEAN
      /\ gaveUp' \in BOOLEAN /\ at' = 0
  BY DEF Forgotten
<1>4. /\ Len(pending') <= MaxPending /\ Len(batch') <= BatchSize
      /\ at' \in 0 .. Len(batch')
  BY <1>1, <1>3, FeedAssumption
<1> QED
  BY <1>1, <1>2, <1>3, <1>4

\* A count that grows.
LEMMA CountsGrow ==
    ASSUME TypeOK, NEW c \in Counts, NEW n \in Nat
    PROVE  [saved EXCEPT ![c] = @ + n] \in [Counts -> Nat]
<1>1. saved \in [Counts -> Nat]
  BY DEF TypeOK
<1> QED
  BY <1>1

\* What a run is told is a run.
LEMMA ToldType ==
    ASSUME TypeOK, NEW status \in {"running", "completed", "stopped"}
    PROVE  Told(status) \in Run
<1>1. \A c \in Counts : saved[c] \in Nat
  BY DEF TypeOK
<1>2. Dropped \in Nat
  <2>1. saved["atStop"] \in Nat /\ saved["diskLow"] \in Nat
    BY <1>1 DEF Counts
  <2>2. dropped \in Nat
    BY DEF TypeOK
  <2> QED
    BY <2>1, <2>2 DEF Dropped
<1> QED
  BY <1>1, <1>2 DEF Told, Run, Counts, TypeOK

\* A run that is told, and its place.
LEMMA TellsType ==
    ASSUME TypeOK, LastCounts, pc # "down", NEW status \in {"running", "completed", "stopped"},
           runs' = [runs EXCEPT ![Len(runs)] = Told(status)]
    PROVE  /\ runs' \in Seq(Run) /\ Len(runs') = Len(runs) /\ Len(runs) \in Nat \ {0}
           /\ \A r \in 1 .. Len(runs) :
                 runs'[r] = IF r = Len(runs) THEN Told(status) ELSE runs[r]
<1>1. runs \in Seq(Run) /\ Len(runs) \in Nat /\ Len(runs) \in 1 .. Len(runs)
  BY LenProperties DEF TypeOK, LastCounts
<1> QED
  BY <1>1, ToldType, ExceptSeq

\* A start leaves what earlier runs tell, unless it stops them.
LEMMA StartRuns ==
    ASSUME TypeOK, Start
    PROVE  /\ runs' \in Seq(Run) /\ Len(runs) \in Nat /\ Len(runs') = Len(runs) + 1
           /\ runs'[Len(runs) + 1].status = "running"
           /\ \A r \in 1 .. Len(runs) : runs'[r] = runs[r] \/ runs'[r].status = "stopped"
           /\ runs'[Len(runs) + 1].stored = 0
           /\ \A r \in 1 .. Len(runs) : runs'[r].stored = runs[r].stored
<1>1. PICK silent \in SUBSET Left :
          runs' = Append([r \in DOMAIN runs |->
                             IF r \in silent THEN [runs[r] EXCEPT !.status = "stopped"]
                                             ELSE runs[r]],
                         [status |-> "running", received |-> 0, stored |-> 0,
                          duplicates |-> 0, unstorable |-> 0, dropped |-> 0])
  BY DEF Start
<1> DEFINE old == [r \in DOMAIN runs |->
                      IF r \in silent THEN [runs[r] EXCEPT !.status = "stopped"]
                                      ELSE runs[r]]
           new == [status |-> "running", received |-> 0, stored |-> 0,
                   duplicates |-> 0, unstorable |-> 0, dropped |-> 0]
<1>2. runs \in Seq(Run) /\ DOMAIN runs = 1 .. Len(runs) /\ Len(runs) \in Nat
  BY LenProperties DEF TypeOK
<1>3. \A r \in DOMAIN runs : runs[r] \in Run
  BY <1>2, ElementOfSeq
<1>4. /\ \A r \in DOMAIN runs : old[r] \in Run
      /\ \A r \in DOMAIN runs : old[r] = runs[r] \/ old[r].status = "stopped"
      /\ \A r \in DOMAIN runs : old[r].stored = runs[r].stored
  BY <1>3 DEF Run
<1>5. old \in Seq(Run) /\ Len(old) = Len(runs)
  BY <1>2, <1>4, SeqDef
<1>6. new \in Run /\ new.status = "running" /\ new.stored = 0
  BY DEF Run
<1> HIDE DEF old, new
<1>7. /\ runs' \in Seq(Run) /\ Len(runs') = Len(runs) + 1 /\ runs'[Len(runs) + 1] = new
      /\ \A r \in 1 .. Len(runs) : runs'[r] = old[r]
  BY <1>1, <1>5, <1>6, AppendProperties DEF old, new
<1> QED
  BY <1>2, <1>4, <1>6, <1>7

\* Every step keeps the types.
LEMMA StepTypes ==
    ASSUME TypeOK, PartsFit, LastCounts, [Next]_vars
    PROVE  TypeOK'
<1> USE DEF queueVars, handVars, dataVars
<1>1. ASSUME Start PROVE TypeOK'
  <2>1. runs' \in Seq(Run) /\ Len(runs') = Len(runs) + 1 /\ Len(runs) \in Nat
    BY <1>1, StartRuns
  <2>2. Len(runs') <= MaxRuns
    BY <1>1, <2>1, FeedAssumption DEF Start
  <2>3. Forgotten /\ UNCHANGED <<lines, rows, kills>> /\ pc' = "batch"
    BY <1>1 DEF Start
  <2> QED
    BY <2>1, <2>2, <2>3, ForgottenTypes DEF TypeOK
<1>2. ASSUME Receive PROVE TypeOK'
  <2>1. PICK t \in Texts : lines' = Append(lines, [text |-> t, run |-> Len(runs)])
    BY <1>2 DEF Receive
  <2>2. /\ lines \in Seq(Line) /\ Len(lines) \in Nat /\ DOMAIN lines = 1 .. Len(lines)
        /\ Len(lines) < MaxLines
    BY <1>2, LenProperties DEF TypeOK, Receive
  <2>3. t \in 0 .. MaxLines
    <3>1. ASSUME NEW l \in 1 .. Len(lines) PROVE lines[l].text \in 0 .. MaxLines
      <4>1. lines[l] \in Line
        BY <2>2, ElementOfSeq
      <4> QED
        BY <4>1 DEF Line
    <3>2. Len(lines) + 1 \in 0 .. MaxLines /\ 0 \in 0 .. MaxLines
      BY <2>2, FeedAssumption
    <3> QED
      BY <2>1, <2>2, <3>1, <3>2 DEF Texts, Bad
  <2>4. Len(runs) \in 1 .. MaxRuns
    <3>1. Len(runs) \in Nat
      BY LenProperties DEF TypeOK
    <3>2. Len(runs) <= MaxRuns /\ Len(runs) > 0
      BY <1>2 DEF TypeOK, LastCounts, Receive
    <3> QED
      BY <3>1, <3>2, FeedAssumption
  <2>5. [text |-> t, run |-> Len(runs)] \in Line
    BY <2>3, <2>4 DEF Line
  <2>6. lines' \in Seq(Line) /\ Len(lines') = Len(lines) + 1
    BY <2>1, <2>2, <2>5, AppendProperties
  <2>7. DOMAIN lines' = 1 .. Len(lines) + 1
    BY <2>6, LenProperties
  <2>8. DOMAIN lines \subseteq DOMAIN lines' /\ Len(lines) + 1 \in DOMAIN lines'
    BY <2>2, <2>7
  <2>9. Len(lines') <= MaxLines
    BY <2>2, <2>6, FeedAssumption
  <2>10. pending \in Seq(DOMAIN lines') /\ batch \in Seq(DOMAIN lines')
         /\ rows \in Seq(DOMAIN lines')
    BY <2>8, SeqMonotonic DEF TypeOK
  <2>11. pending' \in Seq(DOMAIN lines') /\ Len(pending') <= MaxPending
    <3>1. CASE Len(pending) < MaxPending
      <4>1. pending' = Append(pending, Len(lines) + 1)
        BY <1>2, <3>1 DEF Receive, HasRoom
      <4>2. pending' \in Seq(DOMAIN lines') /\ Len(pending') = Len(pending) + 1
        BY <2>8, <2>10, <4>1, AppendProperties
      <4>3. Len(pending) \in Nat
        BY <2>10, LenProperties
      <4> QED
        BY <3>1, <4>2, <4>3, FeedAssumption
    <3>2. CASE ~(Len(pending) < MaxPending)
      BY <1>2, <2>10, <3>2 DEF Receive, HasRoom, TypeOK
    <3> QED
      BY <3>1, <3>2
  <2>12. received' \in Nat /\ dropped' \in Nat
    BY <1>2 DEF Receive, TypeOK
  <2>13. UNCHANGED <<stop, finished, pc, batch, at, ends, saved, gaveUp, rows, runs, kills>>
    BY <1>2 DEF Receive
  <2> QED
    BY <2>6, <2>9, <2>10, <2>11, <2>12, <2>13 DEF TypeOK
<1>3. ASSUME AskToStop \/ ReceivingEnds PROVE TypeOK'
  BY <1>3 DEF TypeOK, AskToStop, ReceivingEnds
<1>4. ASSUME Take PROVE TypeOK'
  <2>1. /\ pending \in Seq(DOMAIN lines) /\ pending # <<>>
        /\ batch \in Seq(DOMAIN lines) /\ Len(batch) < BatchSize
        /\ batch' = Append(batch, Head(pending)) /\ pending' = Tail(pending)
    BY <1>4 DEF TypeOK, Take
  <2>2. /\ Len(batch) \in Nat /\ Len(pending) \in Nat /\ Len(pending) <= MaxPending
        /\ at \in 0 .. Len(batch) /\ ends \in Seq(1 .. Len(batch))
    BY <2>1, LenProperties DEF TypeOK
  <2>3. /\ Head(pending) \in DOMAIN lines
        /\ pending' \in Seq(DOMAIN lines) /\ Len(pending') = Len(pending) - 1
    BY <2>1, HeadTailProperties
  <2>4. batch' \in Seq(DOMAIN lines) /\ Len(batch') = Len(batch) + 1
    BY <2>1, <2>3, AppendProperties
  <2>5. /\ Len(batch') <= BatchSize /\ Len(pending') <= MaxPending /\ at \in 0 .. Len(batch')
        /\ 1 .. Len(batch) \subseteq 1 .. Len(batch')
    BY <2>1, <2>2, <2>3, <2>4, FeedAssumption
  <2>6. ends \in Seq(1 .. Len(batch'))
    BY <2>2, <2>5, SeqMonotonic
  <2>7. UNCHANGED <<lines, received, dropped, stop, finished, pc, at, ends, saved, gaveUp,
                    rows, runs, kills>>
    BY <1>4 DEF Take
  <2> QED
    BY <2>3, <2>4, <2>5, <2>6, <2>7 DEF TypeOK

<1>5. ASSUME Batched PROVE TypeOK'
  <2>1. /\ batch \in Seq(DOMAIN lines) /\ Len(batch) \in Nat /\ Len(batch) <= BatchSize
        /\ at \in 0 .. Len(batch) /\ ends \in Seq(1 .. Len(batch))
        /\ ends = <<>> /\ at = 0
    BY <1>5, LenProperties DEF TypeOK, PartsFit, Batched
  <2>2. UNCHANGED <<lines, pending, received, dropped, stop, finished, gaveUp, rows, runs,
                    kills>>
    BY <1>5 DEF Batched
  <2>3. /\ batch' \in Seq(DOMAIN lines) /\ Len(batch') <= BatchSize
        /\ at' \in 0 .. Len(batch') /\ ends' \in Seq(1 .. Len(batch'))
        /\ saved' \in [Counts -> Nat] /\ pc' \in {"idle", "round", "save"}
    <3>1. CASE pc' = "idle" /\ UNCHANGED <<batch, at, ends, saved>>
      BY <2>1, <3>1 DEF TypeOK
    <3>2. CASE /\ saved' = [saved EXCEPT !["diskLow"] = @ + Len(batch)]
               /\ batch' = <<>> /\ pc' = "round" /\ UNCHANGED <<at, ends>>
      <4>1. saved' \in [Counts -> Nat]
        BY <2>1, <3>2 DEF TypeOK, Counts
      <4>2. /\ batch' \in Seq(DOMAIN lines) /\ Len(batch') = 0
            /\ ends' \in Seq(1 .. Len(batch'))
        BY <2>1, <3>2, EmptySeq
      <4> QED
        BY <2>1, <3>2, <4>1, <4>2, FeedAssumption
    <3>3. CASE /\ batch # <<>> /\ ends' = <<Len(batch)>> /\ pc' = "save"
               /\ UNCHANGED <<batch, at, saved>>
      <4>1. Len(batch) \in 1 .. Len(batch)
        BY <2>1, <3>3, EmptySeq
      <4>2. ends' \in Seq(1 .. Len(batch))
        BY <3>3, <4>1
      <4> QED
        BY <2>1, <3>3, <4>2 DEF TypeOK
    <3> QED
      BY <1>5, <3>1, <3>2, <3>3 DEF Batched
  <2> QED
    BY <2>2, <2>3 DEF TypeOK
<1>6. ASSUME PartDone, pc = "save", ends # <<>>, UNCHANGED lines
      PROVE  /\ batch' \in Seq(DOMAIN lines') /\ Len(batch') <= BatchSize
             /\ at' \in 0 .. Len(batch') /\ ends' \in Seq(1 .. Len(batch'))
  <2>1. /\ Head(ends) \in 1 .. Len(batch) /\ Len(batch) \in Nat
        /\ Tail(ends) \in Seq(1 .. Len(batch))
    BY <1>6, PartFacts
  <2>2. batch \in Seq(DOMAIN lines) /\ Len(batch) <= BatchSize
    BY DEF TypeOK
  <2>3. at' = Head(ends) /\ ends' = Tail(ends) /\ batch' = batch
    BY <1>6 DEF PartDone
  <2> QED
    BY <1>6, <2>1, <2>2, <2>3
<1>7. ASSUME Refused, pc = "save", ends # <<>>, UNCHANGED lines
      PROVE  /\ batch' \in Seq(DOMAIN lines') /\ Len(batch') <= BatchSize
             /\ at' \in 0 .. Len(batch') /\ ends' \in Seq(1 .. Len(batch'))
             /\ saved' \in [Counts -> Nat]
  <2>1. CASE /\ saved' = [saved EXCEPT !["unstorable"] = @ + 1] /\ PartDone
    <3>1. saved' \in [Counts -> Nat]
      BY <2>1, CountsGrow DEF Counts
    <3> QED
      BY <1>6, <1>7, <2>1, <3>1
  <2>2. CASE /\ PartSize > 1 /\ ends' = <<at + PartSize \div 2>> \o ends
             /\ UNCHANGED <<saved, batch, at>>
    <3>1. /\ at \in Nat /\ Head(ends) \in 1 .. Len(batch) /\ Len(batch) \in Nat
          /\ PartSize = Head(ends) - at /\ PartSize \in Nat
      BY <1>7, PartFacts DEF PartSize, TypeOK
    <3>2. at + PartSize \div 2 \in 1 .. Len(batch)
      BY <2>2, <3>1
    <3>3. <<at + PartSize \div 2>> \in Seq(1 .. Len(batch)) /\ ends \in Seq(1 .. Len(batch))
      BY <3>2 DEF TypeOK
    <3>4. ends' \in Seq(1 .. Len(batch))
      BY <2>2, <3>3, ConcatProperties
    <3> QED
      BY <1>7, <2>2, <3>4 DEF TypeOK
  <2> QED
    BY <1>7, <2>1, <2>2 DEF Refused
<1>8. ASSUME Save PROVE TypeOK'
  <2>1. /\ pc = "save" /\ ends # <<>>
        /\ UNCHANGED <<lines, pending, received, dropped, stop, finished, pc, gaveUp, runs,
                        kills>>
    BY <1>8 DEF Save
  <2>2. /\ batch' \in Seq(DOMAIN lines') /\ Len(batch') <= BatchSize
        /\ at' \in 0 .. Len(batch') /\ ends' \in Seq(1 .. Len(batch'))
        /\ saved' \in [Counts -> Nat] /\ rows' \in Seq(DOMAIN lines)
    <3>1. CASE Commits
      <4>1. PICK new \in Ascending(New) :
              /\ rows' = rows \o new
              /\ \/ /\ saved' = [saved EXCEPT !["stored"] = @ + Len(new),
                                              !["duplicates"] = @ + PartSize - Len(new)]
                    /\ PartDone
                 \/ Refused
        BY <3>1 DEF Commits
      <4>2. /\ new \in Seq(New) /\ Len(new) \in 0 .. PartSize /\ New \subseteq DOMAIN lines
            /\ PartSize \in Nat
        BY <2>1, NewFacts, PartFacts
      <4>3. rows' \in Seq(DOMAIN lines)
        <5>1. new \in Seq(DOMAIN lines) /\ rows \in Seq(DOMAIN lines)
          BY <4>2, SeqMonotonic DEF TypeOK
        <5> QED
          BY <4>1, <5>1, ConcatProperties
      <4>4. CASE /\ saved' = [saved EXCEPT !["stored"] = @ + Len(new),
                                            !["duplicates"] = @ + PartSize - Len(new)]
                 /\ PartDone
        <5>1. saved \in [Counts -> Nat]
          BY DEF TypeOK
        <5>2. saved["stored"] + Len(new) \in Nat
          BY <4>2, <5>1 DEF Counts
        <5>3. saved["duplicates"] + PartSize - Len(new) \in Nat
          <6>1. saved["duplicates"] \in Nat
            BY <5>1 DEF Counts
          <6> QED
            BY <4>2, <6>1
        <5>4. saved' \in [Counts -> Nat]
          BY <4>4, <5>1, <5>2, <5>3
        <5> QED
          BY <1>6, <2>1, <4>3, <4>4, <5>4
      <4> QED
        BY <1>7, <2>1, <4>1, <4>3, <4>4
    <3>2. CASE Refused /\ UNCHANGED rows
      BY <1>7, <1>8, <2>1, <3>2 DEF Save, TypeOK
    <3> QED
      BY <1>8, <3>1, <3>2 DEF Save
  <2> QED
    BY <2>1, <2>2 DEF TypeOK
<1>9. ASSUME GiveUp PROVE TypeOK'
  <2>1. /\ pc = "save" /\ ends # <<>> /\ PartDone /\ gaveUp' = TRUE
        /\ saved' = [saved EXCEPT !["atStop"] = @ + PartSize]
        /\ UNCHANGED <<lines, pending, received, dropped, stop, finished, pc, rows, runs, kills>>
    BY <1>9 DEF GiveUp
  <2>2. PartSize \in Nat
    BY <2>1, PartFacts
  <2>3. saved' \in [Counts -> Nat]
    BY <2>1, <2>2, CountsGrow DEF Counts
  <2> QED
    BY <1>6, <2>1, <2>3 DEF TypeOK
<1>10. ASSUME BatchEnds PROVE TypeOK'
  <2>1. /\ batch' = <<>> /\ at' = 0 /\ ends = <<>>
        /\ UNCHANGED <<lines, received, dropped, stop, finished, ends, gaveUp, rows, runs,
                        kills>>
    BY <1>10 DEF BatchEnds
  <2>2. /\ batch' \in Seq(DOMAIN lines) /\ Len(batch') = 0
        /\ ends' \in Seq(1 .. Len(batch'))
    BY <2>1, EmptySeq
  <2>3. Len(batch') <= BatchSize /\ at' \in 0 .. Len(batch')
    BY <2>1, <2>2, FeedAssumption
  <2>4. pending \in Seq(DOMAIN lines) /\ Len(pending) \in Nat /\ Len(pending) <= MaxPending
    BY LenProperties DEF TypeOK
  <2>5. saved' \in [Counts -> Nat] /\ pc' \in {"close", "round"}
    <3>1. CASE gaveUp
      BY <1>10, <2>4, <3>1 DEF BatchEnds, Remaining, TypeOK, Counts
    <3>2. CASE ~gaveUp
      BY <1>10, <3>2 DEF BatchEnds, TypeOK
    <3> QED
      BY <3>1, <3>2
  <2>6. pending' \in Seq(DOMAIN lines) /\ Len(pending') <= MaxPending
    <3>1. CASE gaveUp
      <4>1. pending' = <<>>
        BY <1>10, <3>1 DEF BatchEnds
      <4>2. pending' \in Seq(DOMAIN lines) /\ Len(pending') = 0
        BY <4>1, EmptySeq
      <4> QED
        BY <4>2, FeedAssumption
    <3>2. CASE ~gaveUp
      BY <1>10, <2>4, <3>2 DEF BatchEnds
    <3> QED
      BY <3>1, <3>2
  <2> QED
    BY <2>1, <2>2, <2>3, <2>5, <2>6 DEF TypeOK
<1>11. ASSUME Again PROVE TypeOK'
  <2>1. pc' \in {"close", "batch"}
    BY <1>11 DEF Again
  <2> QED
    BY <1>11, <2>1 DEF Again, TypeOK
<1>12. ASSUME Report PROVE TypeOK'
  <2>1. pc # "down" /\ runs' = [runs EXCEPT ![Len(runs)] = Told("running")]
    BY <1>12 DEF Report, LastCounts
  <2>2. runs' \in Seq(Run) /\ Len(runs') = Len(runs)
    BY <2>1, TellsType
  <2>3. UNCHANGED <<lines, pending, received, dropped, stop, finished, pc, batch, at, ends,
                    saved, gaveUp, rows, kills>>
    BY <1>12 DEF Report
  <2> QED
    BY <2>2, <2>3 DEF TypeOK
<1>13. ASSUME Close PROVE TypeOK'
  <2>1. /\ pc' = "down" /\ Forgotten /\ UNCHANGED <<lines, rows, kills>>
        /\ UNCHANGED runs \/ runs' = [runs EXCEPT ![Len(runs)] = Told("completed")]
    BY <1>13 DEF Close, Down
  <2>2. runs' \in Seq(Run) /\ Len(runs') <= MaxRuns
    BY <1>13, <2>1, TellsType DEF Close, TypeOK
  <2> QED
    BY <2>1, <2>2, ForgottenTypes DEF TypeOK
<1>14. ASSUME Dies PROVE TypeOK'
  <2>1. pc' = "down" /\ Forgotten /\ UNCHANGED <<lines, rows, runs>>
    BY <1>14 DEF Dies, Down
  <2>2. kills' \in 0 .. MaxKills
    BY <1>14, FeedAssumption DEF Dies, TypeOK
  <2> QED
    BY <2>1, <2>2, ForgottenTypes DEF TypeOK
<1>15. CASE UNCHANGED vars
  BY <1>15 DEF vars, TypeOK
<1> QED
  BY <1>1, <1>2, <1>3, <1>4, <1>5, <1>8, <1>9, <1>10, <1>11, <1>12, <1>13, <1>14, <1>15
  DEF Next, Saver

-----------------------------------------------------------------------------
(***************************************************************************)
(* Every line is counted once, step by step.                               *)
(***************************************************************************)

\* The numbers that the accounts add up.
LEMMA Numbers ==
    ASSUME TypeOK
    PROVE  /\ saved \in [Counts -> Nat] /\ SavedSum \in Nat
           /\ saved["stored"] \in Nat /\ saved["duplicates"] \in Nat
           /\ saved["unstorable"] \in Nat /\ saved["atStop"] \in Nat
           /\ saved["diskLow"] \in Nat /\ received \in Nat /\ dropped \in Nat
           /\ Len(pending) \in Nat /\ Len(batch) \in Nat /\ at \in 0 .. Len(batch)
<1>1. saved \in [Counts -> Nat]
  BY DEF TypeOK
<1>2. pending \in Seq(DOMAIN lines) /\ batch \in Seq(DOMAIN lines)
  BY DEF TypeOK
<1>3. Len(pending) \in Nat /\ Len(batch) \in Nat
  BY <1>2, LenProperties
<1>4. /\ saved["stored"] \in Nat /\ saved["duplicates"] \in Nat
      /\ saved["unstorable"] \in Nat /\ saved["atStop"] \in Nat
      /\ saved["diskLow"] \in Nat
  BY <1>1 DEF Counts
<1>5. SavedSum \in Nat
  BY <1>4 DEF SavedSum
<1> QED
  BY <1>1, <1>3, <1>4, <1>5 DEF TypeOK

\* A part that is counted is no longer waiting.
LEMMA PartSum ==
    ASSUME NEW d \in Nat, NEW p \in Nat, NEW b \in Nat, NEW a \in Nat, NEW h \in Nat,
           NEW s \in Nat
    PROVE  d + p + (b - a) + s = d + p + (b - h) + (s + (h - a))
OBVIOUS

\* A line that is received waits, or is dropped.
LEMMA ReceivedSum ==
    ASSUME NEW d \in Nat, NEW p \in Nat, NEW b \in Nat, NEW a \in Nat, NEW s \in Nat,
           NEW d2 \in Int, NEW p2 \in Int, p2 + d2 = p + d + 1
    PROVE  d2 + p2 + (b - a) + s = d + p + (b - a) + s + 1
OBVIOUS

\* One count that grows makes the sum grow.
LEMMA SumGrows ==
    ASSUME TypeOK, NEW c \in Counts, NEW n \in Nat, saved' = [saved EXCEPT ![c] = @ + n]
    PROVE  SavedSum' = SavedSum + n
<1>1. /\ saved["stored"] \in Nat /\ saved["duplicates"] \in Nat
      /\ saved["unstorable"] \in Nat /\ saved["atStop"] \in Nat /\ saved["diskLow"] \in Nat
  BY DEF TypeOK, Counts
<1>2. \A k \in Counts : saved'[k] = IF k = c THEN saved[k] + n ELSE saved[k]
  BY DEF TypeOK
<1>3. \A s, d, u, a, l, m \in Nat :
         /\ (s + m) + d + u + a + l = s + d + u + a + l + m
         /\ s + (d + m) + u + a + l = s + d + u + a + l + m
         /\ s + d + (u + m) + a + l = s + d + u + a + l + m
         /\ s + d + u + (a + m) + l = s + d + u + a + l + m
  OBVIOUS
<1>4. CASE c = "stored"
  BY <1>1, <1>2, <1>3, <1>4 DEF SavedSum, Counts
<1>5. CASE c = "duplicates"
  BY <1>1, <1>2, <1>3, <1>5 DEF SavedSum, Counts
<1>6. CASE c = "unstorable"
  BY <1>1, <1>2, <1>3, <1>6 DEF SavedSum, Counts
<1>7. CASE c = "atStop"
  BY <1>1, <1>2, <1>3, <1>7 DEF SavedSum, Counts
<1>8. CASE c = "diskLow"
  BY <1>1, <1>2, <1>3, <1>8 DEF SavedSum, Counts
<1> QED
  BY <1>4, <1>5, <1>6, <1>7, <1>8 DEF Counts

\* Whatever is counted of a part is as much as the part.
LEMMA PartAccounted ==
    ASSUME TypeOK, PartsFit, pc = "save", ends # <<>>,
           UNCHANGED <<lines, pending, received, dropped, pc>>, Accounted,
           SavedSum' = SavedSum + PartSize, PartDone
    PROVE  Accounted'
<1>1. /\ PartSize = Head(ends) - at /\ Head(ends) \in Nat
      /\ at' = Head(ends) /\ batch' = batch
  BY PartFacts DEF PartSize, PartDone
<1>2. received = dropped + Len(pending) + (Len(batch) - at) + SavedSum
  BY DEF Accounted
<1>3. received = dropped + Len(pending) + (Len(batch) - Head(ends)) + (SavedSum + PartSize)
  <2>1. /\ SavedSum \in Nat /\ dropped \in Nat /\ Len(pending) \in Nat
        /\ Len(batch) \in Nat /\ at \in 0 .. Len(batch)
    BY Numbers
  <2>2. at \in Nat /\ Head(ends) \in Nat
    BY <1>1, <2>1
  <2>3. dropped + Len(pending) + (Len(batch) - at) + SavedSum
           = dropped + Len(pending) + (Len(batch) - Head(ends)) + (SavedSum + (Head(ends) - at))
    BY <2>1, <2>2, PartSum
  <2> QED
    BY <1>1, <1>2, <2>3
<1> QED
  BY <1>1, <1>3 DEF Accounted

\* What is new of a part and what is not make up the part.
LEMMA SumOfPart ==
    ASSUME TypeOK, NEW new \in Nat, NEW size \in Nat,
           saved'["stored"] = saved["stored"] + new,
           saved'["duplicates"] = saved["duplicates"] + size - new,
           saved'["unstorable"] = saved["unstorable"],
           saved'["atStop"] = saved["atStop"], saved'["diskLow"] = saved["diskLow"]
    PROVE  SavedSum' = SavedSum + size
<1>1. /\ saved["stored"] \in Nat /\ saved["duplicates"] \in Nat
      /\ saved["unstorable"] \in Nat /\ saved["atStop"] \in Nat /\ saved["diskLow"] \in Nat
  BY DEF TypeOK, Counts
<1>2. \A s, d, u, a, l \in Nat :
         (s + new) + (d + size - new) + u + a + l = s + d + u + a + l + size
  OBVIOUS
<1> QED
  BY <1>1, <1>2 DEF SavedSum

\* Whatever happens to a line, it is counted once.
LEMMA StepAccounted ==
    ASSUME TypeOK, PartsFit, LastCounts, Accounted, [Next]_vars
    PROVE  Accounted'
<1> USE DEF queueVars, handVars, dataVars
<1>0. SavedSum \in Nat
  BY Numbers
<1>1. ASSUME Start PROVE Accounted'
  <2>1. Forgotten
    BY <1>1 DEF Start
  <2>2. SavedSum' = 0 /\ received' = 0 /\ dropped' = 0 /\ at' = 0
    BY <2>1 DEF Forgotten, SavedSum, Nothing, Counts
  <2>3. Len(pending') = 0 /\ Len(batch') = 0
    BY <2>1, EmptySeq DEF Forgotten
  <2> QED
    BY <2>2, <2>3 DEF Accounted
<1>2. ASSUME Receive PROVE Accounted'
  <2>1. /\ pc # "down" /\ received' = received + 1
        /\ UNCHANGED <<pc, batch, at, saved>> /\ SavedSum' = SavedSum
    BY <1>2 DEF Receive, SavedSum
  <2>2. Len(pending') + dropped' = Len(pending) + dropped + 1
    <3>1. CASE HasRoom
      <4>1. pending' = Append(pending, Len(lines) + 1) /\ dropped' = dropped
        BY <1>2, <3>1 DEF Receive
      <4>2. pending \in Seq(Nat) /\ Len(lines) + 1 \in Nat
        <5>1. lines \in Seq(Line) /\ pending \in Seq(DOMAIN lines)
          BY DEF TypeOK
        <5>2. Len(lines) \in Nat /\ DOMAIN lines = 1 .. Len(lines)
          BY <5>1, LenProperties
        <5>3. DOMAIN lines \subseteq Nat
          BY <5>2
        <5> QED
          BY <5>1, <5>2, <5>3, SeqMonotonic
      <4>3. Len(pending') = Len(pending) + 1
        BY <4>1, <4>2, AppendProperties
      <4> QED
        BY <4>1, <4>3, Numbers
    <3>2. CASE ~HasRoom
      BY <1>2, <3>2, Numbers DEF Receive
    <3> QED
      BY <3>1, <3>2
  <2>3. Len(pending') \in Int /\ dropped' \in Int
    <3>1. TypeOK'
      BY <1>2, StepTypes DEF Next
    <3>2. pending' \in Seq(DOMAIN lines')
      BY <3>1 DEF TypeOK
    <3> QED
      BY <3>1, <3>2, LenProperties DEF TypeOK
  <2>4. /\ dropped \in Nat /\ Len(pending) \in Nat /\ Len(batch) \in Nat /\ at \in Nat
        /\ received \in Nat
    <3>1. at \in 0 .. Len(batch) /\ Len(batch) \in Nat
      BY Numbers
    <3> QED
      BY <3>1, Numbers
  <2>5. dropped' + Len(pending') + (Len(batch) - at) + SavedSum
           = dropped + Len(pending) + (Len(batch) - at) + SavedSum + 1
    BY <1>0, <2>2, <2>3, <2>4, ReceivedSum
  <2>6. received = dropped + Len(pending) + (Len(batch) - at) + SavedSum
    BY <2>1 DEF Accounted
  <2> QED
    BY <2>1, <2>5, <2>6 DEF Accounted
<1>3. ASSUME AskToStop \/ ReceivingEnds \/ Report PROVE Accounted'
  BY <1>3 DEF Accounted, AskToStop, ReceivingEnds, Report, SavedSum
<1>4. ASSUME Take PROVE Accounted'
  <2>1. /\ pending \in Seq(DOMAIN lines) /\ pending # <<>> /\ batch \in Seq(DOMAIN lines)
        /\ batch' = Append(batch, Head(pending)) /\ pending' = Tail(pending)
    BY <1>4 DEF TypeOK, Take
  <2>2. Len(pending') = Len(pending) - 1 /\ Len(batch') = Len(batch) + 1
    BY <2>1, HeadTailProperties, AppendProperties
  <2>3. UNCHANGED <<received, dropped, pc, at, saved>> /\ SavedSum' = SavedSum
    BY <1>4 DEF Take, SavedSum
  <2> QED
    BY <1>0, <2>2, <2>3, Numbers DEF Accounted
<1>5. ASSUME Batched PROVE Accounted'
  <2>1. pc = "batch" /\ at = 0 /\ UNCHANGED <<pending, received, dropped>>
    BY <1>5 DEF Batched, PartsFit
  <2>2. CASE UNCHANGED <<batch, at, saved>>
    BY <2>1, <2>2 DEF Accounted, SavedSum
  <2>3. CASE /\ saved' = [saved EXCEPT !["diskLow"] = @ + Len(batch)]
             /\ batch' = <<>> /\ UNCHANGED at
    <3>1. SavedSum' = SavedSum + Len(batch)
      BY <2>3, Numbers, SumGrows DEF Counts
    <3>2. Len(batch') = 0
      BY <2>3, EmptySeq
    <3> QED
      BY <1>0, <2>1, <2>3, <3>1, <3>2, Numbers DEF Accounted
  <2> QED
    BY <1>5, <2>2, <2>3 DEF Batched
<1>6. ASSUME Refused, pc = "save", ends # <<>>,
             UNCHANGED <<lines, pending, received, dropped, pc>>
      PROVE  Accounted'
  <2>1. CASE /\ PartSize = 1
             /\ saved' = [saved EXCEPT !["unstorable"] = @ + 1] /\ PartDone
    <3>1. SavedSum' = SavedSum + PartSize
      BY <2>1, SumGrows DEF Counts
    <3> QED
      BY <1>6, <2>1, <3>1, PartAccounted
  <2>2. CASE UNCHANGED <<saved, batch, at>>
    BY <1>6, <2>2 DEF Accounted, SavedSum
  <2> QED
    BY <1>6, <2>1, <2>2 DEF Refused
<1>7. ASSUME Save PROVE Accounted'
  <2>1. pc = "save" /\ ends # <<>> /\ UNCHANGED <<lines, pending, received, dropped, pc>>
    BY <1>7 DEF Save
  <2>2. CASE Commits
    <3>1. PICK new \in Ascending(New) :
            \/ /\ saved' = [saved EXCEPT !["stored"] = @ + Len(new),
                                         !["duplicates"] = @ + PartSize - Len(new)]
               /\ PartDone
            \/ Refused
      BY <2>2 DEF Commits
    <3>2. CASE /\ saved' = [saved EXCEPT !["stored"] = @ + Len(new),
                                        !["duplicates"] = @ + PartSize - Len(new)]
               /\ PartDone
      <4>1. Len(new) \in Nat /\ PartSize \in Nat
        <5>1. Len(new) \in 0 .. PartSize
          BY <2>1, NewFacts
        <5>2. PartSize \in Nat
          BY <2>1, PartFacts
        <5> QED
          BY <5>1, <5>2
      <4>2. /\ saved'["stored"] = saved["stored"] + Len(new)
            /\ saved'["duplicates"] = saved["duplicates"] + PartSize - Len(new)
            /\ saved'["unstorable"] = saved["unstorable"]
            /\ saved'["atStop"] = saved["atStop"] /\ saved'["diskLow"] = saved["diskLow"]
        BY <3>2, Numbers DEF Counts
      <4>3. SavedSum' = SavedSum + PartSize
        BY <4>1, <4>2, SumOfPart
      <4> QED
        BY <2>1, <3>2, <4>3, PartAccounted
    <3> QED
      BY <1>6, <2>1, <3>1, <3>2
  <2> QED
    BY <1>6, <1>7, <2>1, <2>2 DEF Save
<1>8. ASSUME GiveUp PROVE Accounted'
  <2>1. /\ pc = "save" /\ ends # <<>> /\ PartDone
        /\ saved' = [saved EXCEPT !["atStop"] = @ + PartSize]
        /\ UNCHANGED <<lines, pending, received, dropped, pc>>
    BY <1>8 DEF GiveUp
  <2>2. PartSize \in Nat
    BY <2>1, PartFacts
  <2>3. SavedSum' = SavedSum + PartSize
    BY <2>1, <2>2, SumGrows DEF Counts
  <2> QED
    BY <2>1, <2>3, PartAccounted
<1>9. ASSUME BatchEnds PROVE Accounted'
  <2>1. /\ pc = "save" /\ at = Len(batch) /\ batch' = <<>> /\ at' = 0
        /\ UNCHANGED <<received, dropped>>
    BY <1>9 DEF BatchEnds, PartsFit
  <2>2. Len(batch') = 0
    BY <2>1, EmptySeq
  <2>3. CASE gaveUp
    <3>1. saved' = [saved EXCEPT !["atStop"] = @ + Len(pending)] /\ pending' = <<>>
      BY <1>9, <2>3 DEF BatchEnds, Remaining
    <3>2. SavedSum' = SavedSum + Len(pending)
      BY <3>1, Numbers, SumGrows DEF Counts
    <3>3. Len(pending') = 0
      BY <3>1, EmptySeq
    <3> QED
      BY <1>0, <2>1, <2>2, <3>2, <3>3, Numbers DEF Accounted
  <2>4. CASE ~gaveUp
    <3>1. UNCHANGED <<saved, pending>> /\ SavedSum' = SavedSum
      BY <1>9, <2>4 DEF BatchEnds, SavedSum
    <3> QED
      BY <1>0, <2>1, <2>2, <3>1, Numbers DEF Accounted
  <2> QED
    BY <2>3, <2>4
<1>10. ASSUME Again PROVE Accounted'
  BY <1>10 DEF Again, Accounted, SavedSum
<1>11. ASSUME Close \/ Dies PROVE Accounted'
  BY <1>11 DEF Close, Dies, Down, Accounted
<1>12. CASE UNCHANGED vars
  BY <1>12 DEF vars, Accounted, SavedSum
<1> QED
  BY <1>1, <1>2, <1>3, <1>4, <1>5, <1>7, <1>8, <1>9, <1>10, <1>11, <1>12 DEF Next, Saver

\* The part that is done with leaves the parts after it.
LEMMA PartDoneFits ==
    ASSUME TypeOK, PartsFit, pc = "save", ends # <<>>, PartDone, pc' = pc
    PROVE  PartsFit'
<1>1. /\ Len(ends) \in Nat \ {0} /\ Len(batch) \in Nat /\ Head(ends) = ends[1]
      /\ Tail(ends) \in Seq(1 .. Len(batch)) /\ Len(Tail(ends)) = Len(ends) - 1
      /\ \A i \in 1 .. Len(ends) - 1 : Tail(ends)[i] = ends[i + 1]
  BY PartFacts
<1>2. ends \in Seq(1 .. Len(batch)) /\ DOMAIN ends = 1 .. Len(ends)
  BY LenProperties DEF TypeOK
<1>3. DOMAIN ends' = 1 .. Len(ends) - 1 /\ ends' = Tail(ends) /\ Len(ends') = Len(ends) - 1
  BY <1>1, LenProperties DEF PartDone
<1>4. at' = ends[1] /\ batch' = batch
  BY <1>1 DEF PartDone
<1>5. \A i, j \in 1 .. Len(ends) : i < j => ends[i] < ends[j]
  BY <1>2 DEF PartsFit
<1>6. ends[Len(ends)] = Len(batch)
  BY DEF PartsFit
<1>7. \A i, j \in DOMAIN ends' : i < j => ends'[i] < ends'[j]
  <2>1. ASSUME NEW i \in DOMAIN ends', NEW j \in DOMAIN ends', i < j
        PROVE  ends'[i] < ends'[j]
    <3>1. /\ i + 1 \in 1 .. Len(ends) /\ j + 1 \in 1 .. Len(ends) /\ i + 1 < j + 1
          /\ i \in 1 .. Len(ends) - 1 /\ j \in 1 .. Len(ends) - 1
      BY <1>1, <1>3, <2>1
    <3>2. ends'[i] = ends[i + 1] /\ ends'[j] = ends[j + 1]
      BY <1>1, <1>3, <3>1
    <3> QED
      BY <1>5, <3>1, <3>2
  <2> QED
    BY <2>1
<1>8. \A i \in DOMAIN ends' : at' < ends'[i]
  BY <1>1, <1>3, <1>4, <1>5
<1>9. (IF ends' = <<>> THEN at' ELSE ends'[Len(ends')]) = Len(batch')
  <2>1. CASE ends' = <<>>
    <3>1. Len(ends') = 0
      BY <2>1, EmptySeq
    <3>2. Len(ends) = 1
      BY <1>1, <1>3, <3>1
    <3> QED
      BY <1>4, <1>6, <2>1, <3>2
  <2>2. CASE ends' # <<>>
    <3>1. Len(ends') # 0
      BY <1>1, <1>3, <2>2, EmptySeq
    <3>2. Len(ends) - 1 \in 1 .. Len(ends) - 1
      BY <1>1, <1>3, <3>1
    <3>3. ends'[Len(ends')] = ends[Len(ends)]
      BY <1>1, <1>3, <3>2
    <3> QED
      BY <1>4, <1>6, <2>2, <3>3
  <2> QED
    BY <2>1, <2>2
<1> QED
  BY <1>7, <1>8, <1>9 DEF PartsFit

\* The halves of a part that the database refused follow each other.
LEMMA RefusedFits ==
    ASSUME TypeOK, PartsFit, pc = "save", ends # <<>>, Refused, pc' = pc
    PROVE  PartsFit'
<1>1. CASE PartDone
  BY <1>1, PartDoneFits
<1>2. CASE /\ PartSize > 1 /\ ends' = <<at + PartSize \div 2>> \o ends
           /\ UNCHANGED <<batch, at>>
  <2> DEFINE middle == at + PartSize \div 2
  <2>1. /\ Len(ends) \in Nat \ {0} /\ Len(batch) \in Nat /\ Head(ends) = ends[1]
        /\ Head(ends) \in 1 .. Len(batch) /\ PartSize = Head(ends) - at /\ at \in Nat
    <3>1. /\ Len(ends) \in Nat \ {0} /\ Len(batch) \in Nat /\ Head(ends) = ends[1]
          /\ Head(ends) \in 1 .. Len(batch)
      BY PartFacts
    <3>2. at \in 0 .. Len(batch)
      BY DEF TypeOK
    <3> QED
      BY <3>1, <3>2 DEF PartSize
  <2>2. middle \in 1 .. Len(batch) /\ at < middle /\ middle < ends[1]
    BY <1>2, <2>1
  <2>3. ends \in Seq(1 .. Len(batch)) /\ DOMAIN ends = 1 .. Len(ends)
    BY LenProperties DEF TypeOK
  <2> HIDE DEF middle
  <2>4. <<middle>> \in Seq(1 .. Len(batch)) /\ Len(<<middle>>) = 1 /\ <<middle>>[1] = middle
    BY <2>2
  <2>5. /\ ends' \in Seq(1 .. Len(batch)) /\ Len(ends') = 1 + Len(ends)
        /\ \A i \in 1 .. 1 + Len(ends) :
              ends'[i] = IF i <= 1 THEN <<middle>>[i] ELSE ends[i - 1]
    BY <1>2, <2>3, <2>4, ConcatProperties DEF middle
  <2>6. /\ ends'[1] = middle /\ DOMAIN ends' = 1 .. 1 + Len(ends)
        /\ \A i \in 2 .. 1 + Len(ends) : ends'[i] = ends[i - 1] /\ i - 1 \in 1 .. Len(ends)
    BY <2>1, <2>4, <2>5, LenProperties
  <2>7. \A i, j \in 1 .. Len(ends) : i < j => ends[i] < ends[j]
    BY <2>3 DEF PartsFit
  <2>8. \A i \in 1 .. Len(ends) : middle < ends[i] /\ at < ends[i] /\ ends[i] \in Nat
    <3>1. ASSUME NEW i \in 1 .. Len(ends) PROVE ends[i] \in Nat
      BY <2>3, ElementOfSeq
    <3>2. \A i \in 1 .. Len(ends) : at < ends[i] /\ (i = 1 \/ ends[1] < ends[i])
      BY <2>1, <2>3, <2>7 DEF PartsFit
    <3> QED
      BY <2>1, <2>2, <3>1, <3>2
  <2>9. \A i, j \in DOMAIN ends' : i < j => ends'[i] < ends'[j]
    <3>1. ASSUME NEW i \in DOMAIN ends', NEW j \in DOMAIN ends', i < j
          PROVE  ends'[i] < ends'[j]
      <4>1. j \in 2 .. 1 + Len(ends) /\ ends'[j] = ends[j - 1] /\ j - 1 \in 1 .. Len(ends)
        <5>1. i \in 1 .. 1 + Len(ends) /\ j \in 1 .. 1 + Len(ends)
          BY <2>6
        <5>2. j \in 2 .. 1 + Len(ends)
          BY <2>1, <3>1, <5>1
        <5> QED
          BY <2>6, <5>2
      <4>2. CASE i = 1
        BY <2>6, <2>8, <4>1, <4>2
      <4>3. CASE i # 1
        <5>1. ends'[i] = ends[i - 1] /\ i - 1 \in 1 .. Len(ends) /\ i - 1 < j - 1
          BY <2>1, <2>6, <3>1, <4>3
        <5> QED
          BY <2>7, <4>1, <5>1
      <4> QED
        BY <4>2, <4>3
    <3> QED
      BY <3>1
  <2>10. \A i \in DOMAIN ends' : at' < ends'[i]
    <3>1. ASSUME NEW i \in DOMAIN ends' PROVE at < ends'[i]
      <4>1. CASE i = 1
        BY <2>2, <2>6, <4>1
      <4>2. CASE i # 1
        <5>1. i \in 2 .. 1 + Len(ends)
          BY <2>1, <2>6, <4>2
        <5> QED
          BY <2>6, <2>8, <5>1
      <4> QED
        BY <4>1, <4>2
    <3> QED
      BY <1>2, <3>1
  <2>11. ends' # <<>> /\ ends'[Len(ends')] = Len(batch')
    <3>1. ends[Len(ends)] = Len(batch)
      BY DEF PartsFit
    <3>2. ends'[Len(ends')] = ends[Len(ends)]
      BY <2>1, <2>5, <2>6
    <3>3. Len(ends') # 0
      BY <2>1, <2>5
    <3> QED
      BY <1>2, <3>1, <3>2, <3>3, EmptySeq
  <2> QED
    BY <2>9, <2>10, <2>11 DEF PartsFit
<1> QED
  BY <1>1, <1>2 DEF Refused

\* Every step keeps the parts in the batch.
LEMMA StepParts ==
    ASSUME TypeOK, PartsFit, [Next]_vars
    PROVE  PartsFit'
<1> USE DEF queueVars, handVars, dataVars
<1>1. ASSUME Start PROVE PartsFit'
  <2>1. pc' = "batch" /\ at' = 0 /\ ends' = <<>> /\ batch' = <<>>
    BY <1>1 DEF Start, Forgotten
  <2> QED
    BY <2>1 DEF PartsFit
<1>2. ASSUME Receive \/ AskToStop \/ ReceivingEnds \/ Report PROVE PartsFit'
  BY <1>2 DEF Receive, AskToStop, ReceivingEnds, Report, PartsFit
<1>3. ASSUME Take PROVE PartsFit'
  <2>1. pc = "batch" /\ UNCHANGED <<pc, at, ends>>
    BY <1>3 DEF Take
  <2> QED
    BY <2>1 DEF PartsFit
<1>4. ASSUME Batched PROVE PartsFit'
  <2>1. pc = "batch" /\ at = 0 /\ ends = <<>>
    BY <1>4 DEF Batched, PartsFit
  <2>2. CASE UNCHANGED <<batch, at, ends>> /\ batch = <<>> /\ pc' = "idle"
    BY <2>1, <2>2 DEF PartsFit
  <2>3. CASE batch' = <<>> /\ pc' = "round" /\ UNCHANGED <<at, ends>>
    BY <2>1, <2>3 DEF PartsFit
  <2>4. CASE /\ batch # <<>> /\ ends' = <<Len(batch)>> /\ pc' = "save"
             /\ UNCHANGED <<batch, at>>
    <3>1. Len(batch) > 0
      <4>1. batch \in Seq(DOMAIN lines)
        BY DEF TypeOK
      <4> QED
        BY <2>4, <4>1, EmptySeq
    <3> QED
      BY <2>1, <2>4, <3>1 DEF PartsFit
  <2> QED
    BY <1>4, <2>2, <2>3, <2>4 DEF Batched
<1>5. ASSUME Save PROVE PartsFit'
  BY <1>5, PartDoneFits, RefusedFits DEF Save, Commits
<1>6. ASSUME GiveUp PROVE PartsFit'
  BY <1>6, PartDoneFits DEF GiveUp
<1>7. ASSUME BatchEnds PROVE PartsFit'
  <2>1. batch' = <<>> /\ at' = 0 /\ ends' = <<>> /\ pc' \in {"close", "round"}
    BY <1>7 DEF BatchEnds
  <2> QED
    BY <2>1 DEF PartsFit
<1>8. ASSUME Again PROVE PartsFit'
  BY <1>8 DEF Again, PartsFit
<1>9. ASSUME Close \/ Dies PROVE PartsFit'
  BY <1>9 DEF Close, Dies, Down, PartsFit
<1>10. CASE UNCHANGED vars
  BY <1>10 DEF vars, PartsFit
<1> QED
  BY <1>1, <1>2, <1>3, <1>4, <1>5, <1>6, <1>7, <1>8, <1>9, <1>10 DEF Next, Saver

\* Every step knows its run until the end.
LEMMA StepLast ==
    ASSUME TypeOK, PartsFit, LastCounts, [Next]_vars
    PROVE  LastCounts'
<1> USE DEF queueVars, handVars, dataVars
<1>1. ASSUME Start PROVE LastCounts'
  <2>1. /\ Len(runs) \in Nat /\ Len(runs') = Len(runs) + 1
        /\ runs'[Len(runs) + 1].status = "running"
    BY <1>1, StartRuns
  <2>2. pc' = "batch" /\ gaveUp' = FALSE
    BY <1>1 DEF Start, Forgotten
  <2> QED
    BY <2>1, <2>2 DEF LastCounts
<1>2. ASSUME Receive PROVE LastCounts'
  BY <1>2 DEF Receive, LastCounts
<1>3. ASSUME AskToStop \/ ReceivingEnds PROVE LastCounts'
  BY <1>3 DEF AskToStop, ReceivingEnds, LastCounts
<1>4. ASSUME Take \/ Batched PROVE LastCounts'
  BY <1>4 DEF Take, Batched, LastCounts
<1>5. ASSUME Save PROVE LastCounts'
  BY <1>5 DEF Save, LastCounts
<1>6. ASSUME GiveUp PROVE LastCounts'
  BY <1>6 DEF GiveUp, Waited, LastCounts
<1>7. ASSUME BatchEnds PROVE LastCounts'
  BY <1>7 DEF BatchEnds, LastCounts
<1>8. ASSUME Again PROVE LastCounts'
  BY <1>8 DEF Again, Finished, LastCounts
<1>9. ASSUME Report PROVE LastCounts'
  <2>1. /\ pc # "down" /\ runs[Len(runs)].status = "running"
        /\ runs' = [runs EXCEPT ![Len(runs)] = Told("running")]
    BY <1>9 DEF Report, LastCounts
  <2>2. /\ Len(runs') = Len(runs) /\ Len(runs) \in Nat \ {0}
        /\ \A r \in 1 .. Len(runs) :
              runs'[r] = IF r = Len(runs) THEN Told("running") ELSE runs[r]
    BY <2>1, TellsType
  <2>3. Len(runs) \in 1 .. Len(runs)
    BY <2>2
  <2>4. runs'[Len(runs')] = Told("running") /\ Len(runs') > 0
    BY <2>2, <2>3
  <2>5. Told("running").status = "running"
    BY DEF Told
  <2> QED
    BY <1>9, <2>1, <2>4, <2>5 DEF Report, LastCounts
<1>10. ASSUME Close \/ Dies PROVE LastCounts'
  BY <1>10 DEF Close, Dies, Down, LastCounts
<1>11. CASE UNCHANGED vars
  BY <1>11 DEF vars, LastCounts
<1> QED
  BY <1>1, <1>2, <1>3, <1>4, <1>5, <1>6, <1>7, <1>8, <1>9, <1>10, <1>11 DEF Next, Saver

\* Every step keeps the sums of the closed runs.
LEMMA StepClosed ==
    ASSUME TypeOK, Accounted, PartsFit, LastCounts, ClosedAddsUp, [Next]_vars
    PROVE  ClosedAddsUp'
<1> USE DEF queueVars, handVars, dataVars
<1>0. runs \in Seq(Run) /\ Len(runs) \in Nat /\ DOMAIN runs = 1 .. Len(runs)
  BY LenProperties DEF TypeOK
<1>1. ASSUME Start PROVE ClosedAddsUp'
  <2>1. /\ runs' \in Seq(Run) /\ Len(runs') = Len(runs) + 1
        /\ runs'[Len(runs) + 1].status = "running"
        /\ \A r \in 1 .. Len(runs) : runs'[r] = runs[r] \/ runs'[r].status = "stopped"
    BY <1>1, StartRuns
  <2>2. DOMAIN runs' = 1 .. Len(runs) + 1
    BY <2>1, LenProperties
  <2>3. ASSUME NEW r \in DOMAIN runs', runs'[r].status = "completed"
        PROVE  r \in DOMAIN runs /\ runs'[r] = runs[r]
    <3>1. r # Len(runs) + 1
      BY <2>1, <2>3
    <3>2. r \in 1 .. Len(runs)
      BY <1>0, <2>2, <3>1
    <3> QED
      BY <1>0, <2>1, <2>3, <3>2
  <2> QED
    BY <2>3 DEF ClosedAddsUp
<1>2. ASSUME NEW status \in {"running", "completed"}, pc # "down",
             runs' = [runs EXCEPT ![Len(runs)] = Told(status)],
             status = "completed" => pc = "close"
      PROVE  ClosedAddsUp'
  <2>1. /\ runs' \in Seq(Run) /\ Len(runs') = Len(runs)
        /\ \A r \in 1 .. Len(runs) :
              runs'[r] = IF r = Len(runs) THEN Told(status) ELSE runs[r]
    BY <1>2, TellsType
  <2>2. DOMAIN runs' = 1 .. Len(runs)
    BY <2>1, LenProperties
  <2>3. /\ Told(status).status = status
        /\ status = "completed" =>
             Told(status).received = Told(status).stored + Told(status).duplicates
                                     + Told(status).unstorable + Told(status).dropped
    <3>1. ASSUME pc = "close"
          PROVE  received = saved["stored"] + saved["duplicates"] + saved["unstorable"]
                            + Dropped
      <4>1. Len(batch) = 0 /\ Len(pending) = 0 /\ at = 0
        BY <3>1, EmptySeq DEF PartsFit, LastCounts
      <4>2. received = dropped + SavedSum
        <5>1. SavedSum \in Int
          BY Numbers
        <5> QED
          BY <1>2, <4>1, <5>1, Numbers DEF Accounted
      <4>3. /\ saved["stored"] \in Nat /\ saved["duplicates"] \in Nat
            /\ saved["unstorable"] \in Nat /\ saved["atStop"] \in Nat
            /\ saved["diskLow"] \in Nat /\ dropped \in Nat
        BY Numbers
      <4> QED
        BY <4>2, <4>3 DEF SavedSum, Dropped
    <3> QED
      BY <1>2, <3>1 DEF Told
  <2>4. ASSUME NEW r \in DOMAIN runs', runs'[r].status = "completed"
        PROVE  runs'[r].received = runs'[r].stored + runs'[r].duplicates
                                   + runs'[r].unstorable + runs'[r].dropped
    <3>1. CASE r = Len(runs)
      BY <1>2, <2>1, <2>2, <2>3, <2>4, <3>1
    <3>2. CASE r # Len(runs)
      BY <1>0, <2>1, <2>2, <2>4, <3>2 DEF ClosedAddsUp
    <3> QED
      BY <3>1, <3>2
  <2> QED
    BY <2>4 DEF ClosedAddsUp
<1>3. ASSUME Report PROVE ClosedAddsUp'
  <2>1. pc # "down" /\ runs' = [runs EXCEPT ![Len(runs)] = Told("running")]
    BY <1>3 DEF Report, LastCounts
  <2> QED
    BY <1>2, <2>1
<1>4. ASSUME Close PROVE ClosedAddsUp'
  <2>1. pc = "close" /\ (UNCHANGED runs \/ runs' = [runs EXCEPT ![Len(runs)] = Told("completed")])
    BY <1>4 DEF Close
  <2>2. CASE UNCHANGED runs
    BY <2>2 DEF ClosedAddsUp
  <2>3. CASE runs' = [runs EXCEPT ![Len(runs)] = Told("completed")]
    BY <1>2, <2>1, <2>3
  <2> QED
    BY <2>1, <2>2, <2>3
<1>5. ASSUME UNCHANGED runs PROVE ClosedAddsUp'
  BY <1>5 DEF ClosedAddsUp
<1>6. ASSUME ~Start, ~Report, ~Close PROVE UNCHANGED runs
  BY <1>6 DEF Next, Saver, Receive, AskToStop, ReceivingEnds, Save, Take, Batched, GiveUp,
              BatchEnds, Again, Dies, vars
<1> QED
  BY <1>1, <1>3, <1>4, <1>5, <1>6

-----------------------------------------------------------------------------
\* A receiver counts every line it takes off the socket, also the lines of batches
\* that it halves, tries again or gives up, and a run it closes adds up: for every
\* number of lines, size of batch and queue, and under every fault.
THEOREM Accounts == Spec => []IInv
<1>1. Init => IInv
  <2> SUFFICES ASSUME Init PROVE IInv
    OBVIOUS
  <2>1. pc = "down" /\ DOMAIN runs = {}
    BY DEF Init
  <2> QED
    BY <2>1, InitTypes DEF IInv, Accounted, PartsFit, LastCounts, ClosedAddsUp
<1>2. IInv /\ [Next]_vars => IInv'
  BY StepTypes, StepAccounted, StepParts, StepLast, StepClosed DEF IInv
<1> QED
  BY <1>1, <1>2, PTL DEF Spec

\* A receiver that ends by itself has counted every line: it ends after its queue
\* and its batch are empty, as long as no exception leaves the loop.
THEOREM NothingLeft == ASSUME Faults = {} PROVE Spec => EndsAccounted
<1>1. ASSUME IInv, Next, pc # "down", pc' = "down", kills' = kills
      PROVE  received = dropped + SavedSum
  <2>1. kills \in Int
    BY <1>1 DEF IInv, TypeOK
  <2>2. ~Dies
    BY <1>1, <2>1 DEF Dies, Raised
  <2>3. pc = "close"
    BY <1>1, <2>2 DEF Next, Saver, Start, Receive, AskToStop, ReceivingEnds, Save, Report,
                      Take, Batched, GiveUp, BatchEnds, Again, Close
  <2>4. Len(batch) = 0 /\ Len(pending) = 0 /\ at = 0
    BY <1>1, <2>3, EmptySeq DEF IInv, PartsFit, LastCounts
  <2>5. TypeOK /\ Accounted
    BY <1>1 DEF IInv
  <2> QED
    BY <1>1, <2>4, <2>5, Numbers DEF Accounted
<1>2. IInv /\ [Next]_vars
        => [pc # "down" /\ pc' = "down" /\ kills' = kills =>
               received = dropped + SavedSum]_vars
  BY <1>1
<1> QED
  BY <1>2, Accounts, PTL DEF Spec, EndsAccounted

-----------------------------------------------------------------------------
(***************************************************************************)
(* The order of what is stored.                                            *)
(***************************************************************************)

\* Lines wait in the order they arrived in, and all that wait in the queue came
\* after what is in the batch and in the table.
QueueOrder ==
    /\ \A i, j \in DOMAIN batch : i < j => batch[i] < batch[j]
    /\ \A i, j \in DOMAIN pending : i < j => pending[i] < pending[j]
    /\ \A i \in DOMAIN batch, j \in DOMAIN pending : batch[i] < pending[j]
    /\ \A i \in DOMAIN rows, j \in DOMAIN pending : rows[i] < pending[j]

\* What is left of the batch came after the table's lines, or is one of them: a part
\* that was stored, and halved because its commit was not answered.
AheadOrKnown ==
    \A i \in DOMAIN batch : i > at =>
        Known(batch[i]) \/ \A j \in DOMAIN rows : rows[j] < batch[i]

Order == InOrder /\ QueueOrder /\ AheadOrKnown

\* A set of naturals has a smallest element.
LEMMA Smallest ==
    ASSUME NEW T \in SUBSET Nat, T # {}
    PROVE  \E x \in T : \A y \in T : x <= y
<1> DEFINE Less == OpToRel(<, Nat)
<1>1. IsWellFoundedOn(Less, Nat)
  BY NatLessThanWellFounded
<1>2. \A x, y \in Nat : x < y => <<x, y>> \in Less
  BY DEF OpToRel
<1> HIDE DEF Less
<1>3. PICK x \in T : \A y \in T : ~ (<<y, x>> \in Less)
  BY <1>1, WFMin
<1>4. ASSUME NEW y \in T PROVE x <= y
  <2>1. x \in Nat /\ y \in Nat /\ ~ (y < x)
    BY <1>2, <1>3
  <2> QED
    BY <2>1
<1> QED
  BY <1>4

\* The places of the sequences, and what they hold.
LEMMA Held ==
    ASSUME TypeOK
    PROVE  /\ Len(lines) \in Nat /\ DOMAIN lines = 1 .. Len(lines)
           /\ Len(batch) \in Nat /\ DOMAIN batch = 1 .. Len(batch)
           /\ Len(pending) \in Nat /\ DOMAIN pending = 1 .. Len(pending)
           /\ Len(rows) \in Nat /\ DOMAIN rows = 1 .. Len(rows)
           /\ \A i \in DOMAIN batch : batch[i] \in 1 .. Len(lines)
           /\ \A i \in DOMAIN pending : pending[i] \in 1 .. Len(lines)
           /\ \A i \in DOMAIN rows : rows[i] \in 1 .. Len(lines)
<1>1. /\ lines \in Seq(Line) /\ batch \in Seq(DOMAIN lines)
      /\ pending \in Seq(DOMAIN lines) /\ rows \in Seq(DOMAIN lines)
  BY DEF TypeOK
<1>2. /\ Len(lines) \in Nat /\ DOMAIN lines = 1 .. Len(lines)
      /\ Len(batch) \in Nat /\ DOMAIN batch = 1 .. Len(batch)
      /\ Len(pending) \in Nat /\ DOMAIN pending = 1 .. Len(pending)
      /\ Len(rows) \in Nat /\ DOMAIN rows = 1 .. Len(rows)
  BY <1>1, LenProperties
<1>3. ASSUME NEW q \in Seq(DOMAIN lines), NEW i \in 1 .. Len(q) PROVE q[i] \in DOMAIN lines
  BY ElementOfSeq
<1> QED
  BY <1>1, <1>2, <1>3

\* What is stored goes after what was stored: it was not known, and so it came later.
LEMMA StoredOrder ==
    ASSUME TypeOK, PartsFit, Order, pc = "save", ends # <<>>,
           NEW new \in Ascending(New), rows' = rows \o new,
           lines' = lines, batch' = batch, pending' = pending
    PROVE  /\ InOrder' /\ QueueOrder'
           /\ \A l \in PartLines : Known(l)'
           /\ \A i \in DOMAIN batch : i > Head(ends) =>
                 Known(batch[i])' \/ \A j \in DOMAIN rows' : rows'[j] < batch[i]
<1>1. /\ new \in Seq(New) /\ New \subseteq DOMAIN lines
      /\ Head(ends) \in 1 .. Len(batch) /\ at < Head(ends) /\ at \in Nat
  BY NewFacts, PartFacts DEF TypeOK
<1>2. /\ Len(rows) \in Nat /\ DOMAIN rows = 1 .. Len(rows)
      /\ DOMAIN lines = 1 .. Len(lines) /\ Len(lines) \in Nat
      /\ DOMAIN batch = 1 .. Len(batch) /\ Len(batch) \in Nat
      /\ \A i \in DOMAIN rows : rows[i] \in 1 .. Len(lines)
      /\ \A i \in DOMAIN batch : batch[i] \in 1 .. Len(lines)
      /\ \A i \in DOMAIN pending : pending[i] \in 1 .. Len(lines)
  BY Held
<1>3. /\ Len(new) \in Nat
      /\ \A k \in 1 .. Len(new) : new[k] \in New
      /\ \A k, m \in 1 .. Len(new) : k < m => new[k] < new[m]
  <2>1. Len(new) \in Nat /\ DOMAIN new = 1 .. Len(new)
    BY <1>1, LenProperties
  <2>2. ASSUME NEW k \in 1 .. Len(new) PROVE new[k] \in New
    BY <1>1, ElementOfSeq
  <2>3. \A k, m \in DOMAIN new : k < m => new[k] < new[m]
    BY DEF Ascending
  <2> QED
    BY <2>1, <2>2, <2>3
<1>4. /\ DOMAIN rows' = 1 .. Len(rows) + Len(new)
      /\ \A i \in 1 .. Len(rows) : rows'[i] = rows[i]
      /\ \A i \in 1 .. Len(rows) + Len(new) : i > Len(rows) =>
            rows'[i] = new[i - Len(rows)] /\ i - Len(rows) \in 1 .. Len(new)
  <2>1. new \in Seq(DOMAIN lines) /\ rows \in Seq(DOMAIN lines)
    BY <1>1, SeqMonotonic DEF TypeOK
  <2>2. /\ rows' \in Seq(DOMAIN lines) /\ Len(rows') = Len(rows) + Len(new)
        /\ \A i \in 1 .. Len(rows) + Len(new) :
              rows'[i] = IF i <= Len(rows) THEN rows[i] ELSE new[i - Len(rows)]
    BY <2>1, ConcatProperties
  <2>3. DOMAIN rows' = 1 .. Len(rows) + Len(new)
    BY <2>2, LenProperties
  <2> QED
    BY <1>2, <1>3, <2>2, <2>3
<1>5. \A l \in New : /\ l \in 1 .. Len(lines) /\ ~Known(l)
                      /\ \E p \in DOMAIN batch : at < p /\ p <= Head(ends) /\ batch[p] = l
  <2>1. New \subseteq PartLines /\ \A l \in New : ~Known(l)
    BY DEF New
  <2>2. ASSUME NEW l \in PartLines
        PROVE  \E p \in DOMAIN batch : at < p /\ p <= Head(ends) /\ batch[p] = l
    <3>1. PICK p \in (at + 1) .. Head(ends) : batch[p] = l
      BY DEF PartLines
    <3>2. p \in DOMAIN batch /\ at < p /\ p <= Head(ends)
      BY <1>1, <1>2
    <3> QED
      BY <3>1, <3>2
  <2> QED
    BY <1>1, <1>2, <2>1, <2>2
<1>6. \A l \in New : \A i \in DOMAIN rows : rows[i] < l /\ lines[rows[i]].text # lines[l].text
  <2>1. ASSUME NEW l \in New, NEW i \in DOMAIN rows
        PROVE  rows[i] < l /\ lines[rows[i]].text # lines[l].text
    <3>1. PICK p \in DOMAIN batch : at < p /\ p <= Head(ends) /\ batch[p] = l
      BY <1>5
    <3>2. ~Known(l)
      BY <1>5
    <3>3. p > at
      BY <1>1, <1>2, <3>1
    <3>4. rows[i] < l
      BY <3>1, <3>2, <3>3 DEF Order, AheadOrKnown
    <3> QED
      BY <3>2, <3>4 DEF Known
  <2> QED
    BY <2>1
<1>7. \A k, l \in New : k < l => lines[k].text # lines[l].text
  <2>1. ASSUME NEW k \in New, NEW l \in New, k < l, lines[k].text = lines[l].text
        PROVE  FALSE
    <3>1. l <= k
      BY <2>1 DEF New
    <3> QED
      BY <1>5, <2>1, <3>1
  <2> QED
    BY <2>1
<1>8. InOrder'
  <2>1. ASSUME NEW i \in DOMAIN rows', NEW j \in DOMAIN rows', i < j
        PROVE  rows'[i] < rows'[j] /\ lines[rows'[i]].text # lines[rows'[j]].text
    <3>1. CASE j <= Len(rows)
      <4>1. i \in DOMAIN rows /\ j \in DOMAIN rows /\ rows'[i] = rows[i] /\ rows'[j] = rows[j]
        BY <1>2, <1>3, <1>4, <2>1, <3>1
      <4> QED
        BY <2>1, <4>1 DEF Order, InOrder
    <3>2. CASE j > Len(rows) /\ i <= Len(rows)
      <4>1. i \in DOMAIN rows /\ rows'[i] = rows[i] /\ rows'[j] \in New
        BY <1>2, <1>3, <1>4, <3>2
      <4> QED
        BY <1>6, <4>1
    <3>3. CASE i > Len(rows)
      <4>1. /\ i - Len(rows) \in 1 .. Len(new) /\ rows'[i] = new[i - Len(rows)]
            /\ j - Len(rows) \in 1 .. Len(new) /\ rows'[j] = new[j - Len(rows)]
            /\ i - Len(rows) < j - Len(rows)
        BY <1>2, <1>3, <1>4, <2>1, <3>3
      <4>2. rows'[i] < rows'[j] /\ rows'[i] \in New /\ rows'[j] \in New
        BY <1>3, <4>1
      <4> QED
        BY <1>7, <4>2
    <3> QED
      <4>1. i \in Nat /\ j \in Nat /\ Len(rows) \in Nat
        BY <1>2, <1>3, <1>4
      <4>2. j <= Len(rows) \/ (j > Len(rows) /\ i <= Len(rows)) \/ i > Len(rows)
        BY <4>1
      <4> QED
        BY <3>1, <3>2, <3>3, <4>2
  <2> QED
    BY <2>1 DEF InOrder
<1>9. QueueOrder'
  <2>1. ASSUME NEW i \in DOMAIN rows', NEW j \in DOMAIN pending PROVE rows'[i] < pending[j]
    <3>1. CASE i <= Len(rows)
      BY <1>2, <1>3, <1>4, <3>1 DEF Order, QueueOrder
    <3>2. CASE i > Len(rows)
      <4>1. rows'[i] \in New
        BY <1>2, <1>3, <1>4, <3>2
      <4> QED
        BY <1>5, <4>1 DEF Order, QueueOrder
    <3> QED
      BY <1>2, <1>3, <1>4, <3>1, <3>2
  <2> QED
    BY <2>1 DEF Order, QueueOrder
<1>10. ASSUME NEW l, Known(l) PROVE Known(l)'
  <2>1. PICK i \in DOMAIN rows : lines[rows[i]].text = lines[l].text
    BY <1>10 DEF Known
  <2>2. i \in DOMAIN rows' /\ rows'[i] = rows[i]
    BY <1>2, <1>3, <1>4
  <2> QED
    BY <2>1, <2>2 DEF Known
<1>11. ASSUME NEW l \in PartLines PROVE Known(l)'
  <2>1. CASE Known(l)
    BY <1>10, <2>1
  <2>2. CASE ~Known(l)
    <3> DEFINE Same == {k \in PartLines : lines[k].text = lines[l].text}
    <3>1. PartLines \subseteq Nat
      BY <1>1, <1>2 DEF PartLines
    <3>2. Same \in SUBSET Nat /\ Same # {}
      BY <3>1
    <3>3. PICK first \in Same : \A k \in Same : first <= k
      BY <3>2, Smallest
    <3>4. first \in New
      BY <2>2, <3>3 DEF New, Known
    <3>5. PICK k \in 1 .. Len(new) : new[k] = first
      BY <3>4, NewFacts
    <3>6. Len(rows) + k \in DOMAIN rows' /\ rows'[Len(rows) + k] = first
      BY <1>2, <1>3, <1>4, <3>5
    <3> QED
      BY <3>3, <3>6 DEF Known
  <2> QED
    BY <2>1, <2>2
<1>12. ASSUME NEW i \in DOMAIN batch, i > Head(ends)
       PROVE  Known(batch[i])' \/ \A j \in DOMAIN rows' : rows'[j] < batch[i]
  <2>1. CASE Known(batch[i])
    BY <1>10, <2>1
  <2>2. CASE ~Known(batch[i])
    <3>1. \A j \in DOMAIN rows : rows[j] < batch[i]
      <4>1. i > at
        BY <1>1, <1>2, <1>12
      <4> QED
        BY <2>2, <4>1 DEF Order, AheadOrKnown
    <3>2. \A l \in New : l < batch[i]
      <4>1. ASSUME NEW l \in New PROVE l < batch[i]
        <5>1. PICK p \in DOMAIN batch : p <= Head(ends) /\ batch[p] = l
          BY <1>5
        <5>2. p < i
          BY <1>1, <1>2, <1>12, <5>1
        <5> QED
          BY <5>1, <5>2 DEF Order, QueueOrder
      <4> QED
        BY <4>1
    <3>3. ASSUME NEW j \in DOMAIN rows' PROVE rows'[j] < batch[i]
      BY <1>2, <1>3, <1>4, <3>1, <3>2
    <3> QED
      BY <3>3
  <2> QED
    BY <2>1, <2>2
<1> QED
  BY <1>8, <1>9, <1>11, <1>12

\* A step that stores nothing, and that leaves of batch and queue what comes after
\* what was stored, keeps the order.
LEMMA KeptOrder ==
    ASSUME TypeOK, Order, rows' = rows, batch' = batch, at' >= at, at \in Nat, at' \in Nat,
           pending' = pending, lines' = lines
    PROVE  Order'
<1>1. InOrder' /\ QueueOrder'
  BY DEF Order, InOrder, QueueOrder
<1>2. AheadOrKnown'
  <2>1. ASSUME NEW i \in DOMAIN batch, i > at' PROVE i > at
    BY <2>1, Held
  <2> QED
    BY <2>1 DEF Order, AheadOrKnown, Known
<1> QED
  BY <1>1, <1>2 DEF Order

\* So does one that ends the batch.
LEMMA ClearedOrder ==
    ASSUME TypeOK, Order, rows' = rows, batch' = <<>>,
           pending' = pending \/ pending' = <<>>, lines' = lines
    PROVE  Order'
<1>1. DOMAIN batch' = {}
  OBVIOUS
<1>2. InOrder'
  BY DEF Order, InOrder
<1>3. QueueOrder' /\ AheadOrKnown'
  BY <1>1 DEF Order, QueueOrder, AheadOrKnown
<1> QED
  BY <1>2, <1>3 DEF Order

\* Every step keeps the order.
LEMMA StepOrder ==
    ASSUME TypeOK, PartsFit, LastCounts, Order, [Next]_vars
    PROVE  Order'
<1> USE DEF queueVars, handVars, dataVars
<1>1. ASSUME Start \/ Close \/ Dies PROVE Order'
  BY <1>1, ClearedOrder DEF Start, Close, Dies, Down, Forgotten
<1>2. ASSUME Receive PROVE Order'
  <2>1. PICK t \in Texts : lines' = Append(lines, [text |-> t, run |-> Len(runs)])
    BY <1>2 DEF Receive
  <2>2. UNCHANGED <<rows, batch, at>>
    BY <1>2 DEF Receive
  <2>3. \A l \in 1 .. Len(lines) : lines'[l] = lines[l]
    <3>1. lines \in Seq(Line)
      BY DEF TypeOK
    <3> DEFINE S == Line \union {[text |-> t, run |-> Len(runs)]}
    <3>2. lines \in Seq(S) /\ [text |-> t, run |-> Len(runs)] \in S
      BY <3>1, SeqMonotonic
    <3> QED
      BY <2>1, <3>2, AppendProperties
  <2>4. InOrder'
    BY <2>2, <2>3, Held DEF Order, InOrder
  <2>5. AheadOrKnown'
    <3>1. ASSUME NEW i \in DOMAIN batch, i > at
          PROVE  Known(batch[i])' \/ \A j \in DOMAIN rows : rows[j] < batch[i]
      <4>1. /\ lines'[batch[i]] = lines[batch[i]]
            /\ \A j \in DOMAIN rows : lines'[rows[j]] = lines[rows[j]]
        BY <2>3, Held
      <4>2. Known(batch[i]) \/ \A j \in DOMAIN rows : rows[j] < batch[i]
        BY <3>1 DEF Order, AheadOrKnown
      <4>3. Known(batch[i]) => Known(batch[i])'
        BY <2>2, <4>1 DEF Known
      <4> QED
        BY <4>2, <4>3
    <3> QED
      BY <2>2, <3>1 DEF AheadOrKnown, Known
  <2>6. QueueOrder'
    <3>1. CASE pending' = pending
      BY <2>2, <3>1 DEF Order, QueueOrder
    <3>2. CASE pending' = Append(pending, Len(lines) + 1)
      <4>1. pending \in Seq(Nat) /\ Len(lines) + 1 \in Nat
        <5>1. pending \in Seq(DOMAIN lines) /\ DOMAIN lines \subseteq Nat /\ Len(lines) \in Nat
          BY Held DEF TypeOK
        <5> QED
          BY <5>1, SeqMonotonic
      <4>2. /\ DOMAIN pending' = 1 .. Len(pending) + 1 /\ Len(pending) \in Nat
            /\ pending'[Len(pending) + 1] = Len(lines) + 1
            /\ \A i \in 1 .. Len(pending) : pending'[i] = pending[i]
        BY <3>2, <4>1, AppendProperties, LenProperties
      <4>3. \A i \in DOMAIN pending' : i # Len(pending) + 1 => i \in DOMAIN pending
        BY <4>2, Held
      <4>4. \A i, j \in DOMAIN pending' : i < j => pending'[i] < pending'[j]
        <5>1. ASSUME NEW i \in DOMAIN pending', NEW j \in DOMAIN pending', i < j
              PROVE  pending'[i] < pending'[j]
          <6>1. i \in DOMAIN pending /\ pending'[i] = pending[i]
            <7>1. i \in 1 .. Len(pending) + 1 /\ j \in 1 .. Len(pending) + 1
              BY <4>2
            <7>2. i \in 1 .. Len(pending)
              BY <4>2, <5>1, <7>1
            <7> QED
              BY <4>2, <7>2, Held
          <6>2. CASE j = Len(pending) + 1
            BY <4>2, <6>1, <6>2, Held
          <6>3. CASE j # Len(pending) + 1
            <7>1. j \in DOMAIN pending /\ pending'[j] = pending[j]
              BY <4>2, <4>3, <6>3, Held
            <7> QED
              BY <5>1, <6>1, <7>1 DEF Order, QueueOrder
          <6> QED
            BY <6>2, <6>3
        <5> QED
          BY <5>1
      <4>5. \A i \in DOMAIN batch, j \in DOMAIN pending' : batch[i] < pending'[j]
        BY <4>2, <4>3, Held DEF Order, QueueOrder
      <4>6. \A i \in DOMAIN rows, j \in DOMAIN pending' : rows[i] < pending'[j]
        BY <4>2, <4>3, Held DEF Order, QueueOrder
      <4> QED
        <5>1. \A i, j \in DOMAIN batch : i < j => batch[i] < batch[j]
          BY DEF Order, QueueOrder
        <5> QED
          BY <2>2, <4>4, <4>5, <4>6, <5>1 DEF QueueOrder
    <3> QED
      BY <1>2, <3>1, <3>2 DEF Receive
  <2> QED
    BY <2>4, <2>5, <2>6 DEF Order
<1>3. ASSUME AskToStop \/ ReceivingEnds \/ Again \/ Report PROVE Order'
  <2>1. at \in Nat /\ at >= at
    BY DEF TypeOK
  <2> QED
    BY <1>3, <2>1, KeptOrder DEF AskToStop, ReceivingEnds, Again, Report
<1>4. ASSUME Take PROVE Order'
  <2>1. /\ pc = "batch" /\ pending # <<>> /\ batch' = Append(batch, Head(pending))
        /\ pending' = Tail(pending) /\ UNCHANGED <<lines, rows, at>>
    BY <1>4 DEF Take
  <2>2. batch \in Seq(DOMAIN lines) /\ pending \in Seq(DOMAIN lines)
    BY DEF TypeOK
  <2>3. /\ Head(pending) \in DOMAIN lines /\ 1 \in DOMAIN pending
        /\ Head(pending) = pending[1]
        /\ DOMAIN pending' = 1 .. Len(pending) - 1
        /\ \A i \in DOMAIN pending' : pending'[i] = pending[i + 1] /\ i + 1 \in DOMAIN pending
    <3>1. Len(pending) # 0
      BY <2>1, <2>2, EmptySeq
    <3>2. /\ Head(pending) \in DOMAIN lines /\ pending' \in Seq(DOMAIN lines)
          /\ Len(pending') = Len(pending) - 1
          /\ \A i \in 1 .. Len(pending') : pending'[i] = pending[i + 1]
      BY <2>1, <2>2, HeadTailProperties
    <3>3. DOMAIN pending' = 1 .. Len(pending) - 1
      BY <3>2, LenProperties
    <3>4. DOMAIN pending = 1 .. Len(pending) /\ Len(pending) \in Nat
      BY Held
    <3>5. Head(pending) = pending[1]
      BY <2>2, <3>1, <3>4
    <3>6. 1 \in DOMAIN pending /\ Len(pending') = Len(pending) - 1
      BY <3>1, <3>2, <3>4
    <3>7. \A i \in DOMAIN pending' : pending'[i] = pending[i + 1] /\ i + 1 \in DOMAIN pending
      BY <3>2, <3>3, <3>4
    <3> QED
      BY <3>2, <3>3, <3>5, <3>6, <3>7
  <2>4. /\ DOMAIN batch' = 1 .. Len(batch) + 1 /\ batch'[Len(batch) + 1] = pending[1]
        /\ \A i \in DOMAIN batch : batch'[i] = batch[i]
        /\ \A i \in DOMAIN batch' : i # Len(batch) + 1 => i \in DOMAIN batch
    <3>1. /\ batch' \in Seq(DOMAIN lines) /\ Len(batch') = Len(batch) + 1
          /\ batch'[Len(batch) + 1] = Head(pending)
          /\ \A i \in 1 .. Len(batch) : batch'[i] = batch[i]
      BY <2>1, <2>2, <2>3, AppendProperties
    <3>2. DOMAIN batch' = 1 .. Len(batch) + 1
      BY <3>1, LenProperties
    <3> QED
      BY <2>3, <3>1, <3>2, Held
  <2>5. \A i \in DOMAIN pending : i # 1 => pending[1] < pending[i]
    BY <2>3, Held DEF Order, QueueOrder
  <2>6. InOrder'
    BY <2>1 DEF Order, InOrder
  <2>7. QueueOrder'
    <3>1. \A i, j \in DOMAIN batch' : i < j => batch'[i] < batch'[j]
      <4>1. ASSUME NEW i \in DOMAIN batch', NEW j \in DOMAIN batch', i < j
            PROVE  batch'[i] < batch'[j]
        <5>1. i \in DOMAIN batch
          BY <2>4, <4>1, Held
        <5>2. CASE j \in DOMAIN batch
          BY <2>4, <4>1, <5>1, <5>2 DEF Order, QueueOrder
        <5>3. CASE j = Len(batch) + 1
          BY <2>3, <2>4, <5>1, <5>3 DEF Order, QueueOrder
        <5> QED
          BY <2>4, <5>2, <5>3
      <4> QED
        BY <4>1
    <3>2. \A i, j \in DOMAIN pending' : i < j => pending'[i] < pending'[j]
      BY <2>3, Held DEF Order, QueueOrder
    <3>3. ASSUME NEW i \in DOMAIN batch', NEW j \in DOMAIN pending'
          PROVE  batch'[i] < pending'[j]
      <4>1. j + 1 \in DOMAIN pending /\ pending'[j] = pending[j + 1] /\ j + 1 # 1
        BY <2>3, Held
      <4>2. CASE i \in DOMAIN batch
        BY <2>4, <4>1, <4>2 DEF Order, QueueOrder
      <4>3. CASE i = Len(batch) + 1
        BY <2>4, <2>5, <4>1, <4>3
      <4> QED
        BY <2>4, <4>2, <4>3
    <3>4. \A i \in DOMAIN rows, j \in DOMAIN pending' : rows[i] < pending'[j]
      BY <2>3 DEF Order, QueueOrder
    <3> QED
      BY <2>1, <3>1, <3>2, <3>3, <3>4 DEF QueueOrder
  <2>8. AheadOrKnown'
    <3>1. ASSUME NEW i \in DOMAIN batch', i > at
          PROVE  Known(batch'[i]) \/ \A j \in DOMAIN rows : rows[j] < batch'[i]
      <4>1. CASE i \in DOMAIN batch
        BY <2>4, <3>1, <4>1 DEF Order, AheadOrKnown
      <4>2. CASE i = Len(batch) + 1
        BY <2>3, <2>4, <4>2 DEF Order, QueueOrder
      <4> QED
        BY <2>4, <4>1, <4>2
    <3> QED
      BY <2>1, <3>1 DEF AheadOrKnown, Known
  <2> QED
    BY <2>6, <2>7, <2>8 DEF Order
<1>5. ASSUME Batched PROVE Order'
  <2>1. at \in Nat /\ at >= at
    BY DEF TypeOK
  <2> QED
    BY <1>5, <2>1, KeptOrder, ClearedOrder DEF Batched
<1>6. ASSUME PartDone, pc = "save", ends # <<>>, UNCHANGED <<lines, pending, rows>>
      PROVE  Order'
  <2>1. at' = Head(ends) /\ batch' = batch
    BY <1>6 DEF PartDone
  <2>2. at \in Nat /\ at' \in Nat /\ at' >= at
    <3>1. at \in Nat /\ Head(ends) \in 1 .. Len(batch) /\ Len(batch) \in Nat /\ at < Head(ends)
      BY <1>6, PartFacts DEF TypeOK
    <3> QED
      BY <2>1, <3>1
  <2> QED
    BY <1>6, <2>1, <2>2, KeptOrder
<1>7. ASSUME Save PROVE Order'
  <2>1. pc = "save" /\ ends # <<>> /\ UNCHANGED <<lines, pending>>
    BY <1>7 DEF Save
  <2>2. CASE Refused /\ UNCHANGED rows
    <3>1. Refused /\ UNCHANGED rows
      BY <2>2
    <3>2. CASE PartDone
      BY <1>6, <2>1, <3>1, <3>2
    <3>3. CASE UNCHANGED <<batch, at>>
      <4>1. at \in Nat /\ at >= at
        BY DEF TypeOK
      <4> QED
        BY <2>1, <3>1, <3>3, <4>1, KeptOrder
    <3> QED
      BY <3>1, <3>2, <3>3 DEF Refused
  <2>3. CASE Commits
    <3>1. PICK new \in Ascending(New) : rows' = rows \o new /\ (PartDone \/ Refused)
      BY <2>3 DEF Commits
    <3>2. batch' = batch /\ (at' = at \/ at' = Head(ends))
      BY <3>1 DEF Refused, PartDone
    <3>3. /\ InOrder' /\ QueueOrder'
          /\ \A l \in PartLines : Known(l)'
          /\ \A i \in DOMAIN batch : i > Head(ends) =>
                Known(batch[i])' \/ \A j \in DOMAIN rows' : rows'[j] < batch[i]
      BY <2>1, <3>1, <3>2, StoredOrder
    <3>4. ASSUME NEW i \in DOMAIN batch, i > at'
          PROVE  Known(batch[i])' \/ \A j \in DOMAIN rows' : rows'[j] < batch[i]
      <4>1. CASE i > Head(ends)
        BY <3>3, <4>1
      <4>2. CASE ~(i > Head(ends))
        <5>1. i \in (at + 1) .. Head(ends)
          <6>1. at \in Nat /\ Head(ends) \in Nat /\ at < Head(ends) /\ i \in Nat
            <7>1. at \in 0 .. Len(batch) /\ i \in 1 .. Len(batch) /\ Len(batch) \in Nat
              BY Held DEF TypeOK
            <7>2. Head(ends) \in 1 .. Len(batch) /\ at < Head(ends)
              BY <2>1, PartFacts
            <7> QED
              BY <7>1, <7>2
          <6> QED
            BY <3>2, <3>4, <4>2, <6>1
        <5>2. batch[i] \in PartLines
          BY <5>1 DEF PartLines
        <5>3. Known(batch[i])'
          <6>1. \A l \in PartLines : Known(l)'
            BY <3>3
          <6> QED
            BY <3>2, <5>2, <6>1 DEF Known
        <5> QED
          BY <5>3
      <4> QED
        BY <4>1, <4>2
    <3>5. AheadOrKnown'
      BY <3>2, <3>4 DEF AheadOrKnown, Known
    <3> QED
      BY <3>3, <3>5 DEF Order
  <2> QED
    BY <1>7, <2>2, <2>3 DEF Save
<1>8. ASSUME GiveUp PROVE Order'
  BY <1>6, <1>8 DEF GiveUp
<1>9. ASSUME BatchEnds PROVE Order'
  BY <1>9, ClearedOrder DEF BatchEnds
<1>10. CASE UNCHANGED vars
  <2>1. at \in Nat /\ at >= at
    BY DEF TypeOK
  <2> QED
    BY <1>10, <2>1, KeptOrder DEF vars
<1> QED
  BY <1>1, <1>2, <1>3, <1>4, <1>5, <1>7, <1>8, <1>9, <1>10 DEF Next, Saver

\* Lines are stored in the order they arrived in, and no record twice, although
\* batches are halved, tried again after a lost answer, given up and cut off by the
\* end of a process: for every size of queue and batch, and under every fault.
THEOREM StoredInOrder == Spec => []InOrder
<1>1. Init => Order
  <2> SUFFICES ASSUME Init PROVE Order
    OBVIOUS
  <2>1. DOMAIN rows = {} /\ DOMAIN batch = {} /\ DOMAIN pending = {}
    BY DEF Init
  <2> QED
    BY <2>1 DEF Order, InOrder, QueueOrder, AheadOrKnown
<1>2. IInv /\ Order /\ [Next]_vars => Order'
  BY StepOrder DEF IInv
<1>3. Order => InOrder
  BY DEF Order
<1> QED
  BY <1>1, <1>2, <1>3, Accounts, PTL DEF Spec

-----------------------------------------------------------------------------
(***************************************************************************)
(* What a run tells of its stored lines.                                   *)
(***************************************************************************)

\* Lines wait, and are saved, in the run that received them.
OfTheirRun ==
    /\ \A l \in DOMAIN lines : lines[l].run <= Len(runs)
    /\ pc # "down" => /\ \A i \in DOMAIN batch : lines[batch[i]].run = Len(runs)
                      /\ \A i \in DOMAIN pending : lines[pending[i]].run = Len(runs)

\* No more than the database has of a run, and as many while no connection is lost.
InTable(r) == Cardinality(OfRun(r))
Sure       == "lost_connection" \notin Faults

SavedInTable ==
    pc # "down" => /\ saved["stored"] <= InTable(Len(runs))
                   /\ Sure => saved["stored"] = InTable(Len(runs))
ToldInTable ==
    \A r \in DOMAIN runs :
        /\ runs[r].stored <= InTable(r)
        /\ Sure /\ runs[r].status = "completed" => runs[r].stored = InTable(r)

TellInv == OfTheirRun /\ SavedInTable /\ ToldInTable

\* The runs, and what they tell.
LEMMA RunFacts ==
    ASSUME TypeOK
    PROVE  /\ Len(runs) \in Nat /\ DOMAIN runs = 1 .. Len(runs)
           /\ \A r \in DOMAIN runs : runs[r].stored \in Nat
           /\ \A l \in DOMAIN lines : lines[l].run \in Nat
           /\ saved["stored"] \in Nat
<1>1. runs \in Seq(Run) /\ Len(runs) \in Nat /\ DOMAIN runs = 1 .. Len(runs)
  BY LenProperties DEF TypeOK
<1>2. ASSUME NEW r \in DOMAIN runs PROVE runs[r].stored \in Nat
  <2>1. runs[r] \in Run
    BY <1>1, ElementOfSeq
  <2> QED
    BY <2>1 DEF Run
<1>3. ASSUME NEW l \in DOMAIN lines PROVE lines[l].run \in Nat
  <2>1. lines \in Seq(Line)
    BY DEF TypeOK
  <2>2. lines[l] \in Line
    BY <2>1, Held, ElementOfSeq
  <2>3. lines[l].run \in 1 .. MaxRuns
    BY <2>2 DEF Line
  <2> QED
    BY <2>3, FeedAssumption
<1>4. saved["stored"] \in Nat
  BY DEF TypeOK, Counts
<1> QED
  BY <1>1, <1>2, <1>3, <1>4

\* The rows of a run can be counted.
LEMMA Countable ==
    ASSUME TypeOK, NEW r
    PROVE  /\ IsFiniteSet(OfRun(r)) /\ InTable(r) \in Nat
           /\ OfRun(r) \subseteq 1 .. Len(rows)
<1>1. Len(rows) \in Nat /\ DOMAIN rows = 1 .. Len(rows)
  BY Held
<1>2. OfRun(r) \in SUBSET (1 .. Len(rows))
  BY <1>1 DEF OfRun
<1>3. IsFiniteSet(1 .. Len(rows))
  <2>1. 1 \in Int /\ Len(rows) \in Int
    BY <1>1
  <2> QED
    BY <2>1, FS_Interval
<1>4. IsFiniteSet(OfRun(r))
  BY <1>2, <1>3, FS_Subset
<1> QED
  BY <1>2, <1>4, FS_CardinalityType DEF InTable

\* What is received stores nothing.
LEMMA SameRows ==
    ASSUME TypeOK, rows' = rows, \A l \in DOMAIN lines : lines'[l] = lines[l], NEW r
    PROVE  InTable(r)' = InTable(r)
<1>1. \A i \in DOMAIN rows : rows[i] \in DOMAIN lines
  BY Held
<1>2. OfRun(r)' = OfRun(r)
  BY <1>1 DEF OfRun
<1> QED
  BY <1>2 DEF InTable

\* What is stored of a batch is of the last run.
LEMMA StoredRows ==
    ASSUME TypeOK, PartsFit, OfTheirRun, pc = "save", ends # <<>>,
           NEW new \in Ascending(New), rows' = rows \o new, lines' = lines, NEW r \in Nat
    PROVE  /\ Len(new) \in Nat
           /\ InTable(r)' = IF r = Len(runs) THEN InTable(r) + Len(new) ELSE InTable(r)
<1>1. new \in Seq(New) /\ New \subseteq DOMAIN lines /\ Len(new) \in Nat
  BY NewFacts, LenProperties
<1>2. ASSUME NEW k \in 1 .. Len(new) PROVE new[k] \in DOMAIN lines /\ lines[new[k]].run = Len(runs)
  <2>1. new[k] \in New
    BY <1>1, ElementOfSeq
  <2>2. PICK p \in (at + 1) .. Head(ends) : batch[p] = new[k]
    BY <2>1 DEF New, PartLines
  <2>3. p \in DOMAIN batch
    <3>1. Head(ends) \in 1 .. Len(batch)
      BY PartFacts
    <3>3. at \in 0 .. Len(batch)
      BY DEF TypeOK
    <3>2. DOMAIN batch = 1 .. Len(batch) /\ Len(batch) \in Nat
      BY Held
    <3> QED
      BY <3>1, <3>2, <3>3
  <2> QED
    BY <1>1, <2>1, <2>2, <2>3 DEF OfTheirRun
<1> DEFINE Added == Len(rows) + 1 .. Len(rows) + Len(new)
<1>3. /\ Len(rows) \in Nat /\ DOMAIN rows = 1 .. Len(rows)
      /\ DOMAIN rows' = 1 .. Len(rows) + Len(new)
      /\ \A i \in 1 .. Len(rows) : rows'[i] = rows[i]
      /\ \A i \in Added : rows'[i] = new[i - Len(rows)] /\ i - Len(rows) \in 1 .. Len(new)
  <2>1. new \in Seq(DOMAIN lines) /\ rows \in Seq(DOMAIN lines)
    BY <1>1, SeqMonotonic DEF TypeOK
  <2>2. /\ rows' \in Seq(DOMAIN lines) /\ Len(rows') = Len(rows) + Len(new)
        /\ \A i \in 1 .. Len(rows) + Len(new) :
              rows'[i] = IF i <= Len(rows) THEN rows[i] ELSE new[i - Len(rows)]
    BY <2>1, ConcatProperties
  <2>3. DOMAIN rows' = 1 .. Len(rows) + Len(new)
    BY <2>2, LenProperties
  <2>4. Len(rows) \in Nat /\ DOMAIN rows = 1 .. Len(rows)
    BY Held
  <2> QED
    BY <1>1, <2>2, <2>3, <2>4
<1>4. DOMAIN rows' = DOMAIN rows \union Added /\ DOMAIN rows \intersect Added = {}
  BY <1>1, <1>3
<1>5. \A i \in Added : lines'[rows'[i]].run = Len(runs)
  BY <1>2, <1>3
<1>6. \A i \in DOMAIN rows : lines'[rows'[i]] = lines[rows[i]]
  BY <1>3
<1>7. CASE r # Len(runs)
  <2>1. OfRun(r)' = OfRun(r)
    BY <1>4, <1>5, <1>6, <1>7 DEF OfRun
  <2> QED
    BY <1>1, <1>7, <2>1 DEF InTable
<1>8. CASE r = Len(runs)
  <2>1. OfRun(r)' = OfRun(r) \union Added
    BY <1>4, <1>5, <1>6, <1>8 DEF OfRun
  <2>2. OfRun(r) \intersect Added = {}
    BY <1>4 DEF OfRun
  <2>3. IsFiniteSet(Added) /\ Cardinality(Added) = Len(new)
    <3>1. Len(rows) + 1 \in Int /\ Len(rows) + Len(new) \in Int
      BY <1>1, <1>3
    <3>2. /\ IsFiniteSet(Added)
          /\ Cardinality(Added) = IF Len(rows) + 1 > Len(rows) + Len(new) THEN 0
                                  ELSE Len(rows) + Len(new) - (Len(rows) + 1) + 1
      BY <3>1, FS_Interval
    <3> QED
      BY <1>1, <1>3, <3>2
  <2>4. IsFiniteSet(OfRun(r)) /\ Cardinality(OfRun(r)) \in Nat
    BY Countable DEF InTable
  <2>5. Cardinality(OfRun(r) \union Added)
           = Cardinality(OfRun(r)) + Len(new) - Cardinality(OfRun(r) \intersect Added)
    BY <2>3, <2>4, FS_Union
  <2>6. Cardinality(OfRun(r) \intersect Added) = 0
    BY <2>2, FS_EmptySet
  <2>7. Cardinality(OfRun(r) \union Added) = Cardinality(OfRun(r)) + Len(new)
    BY <1>1, <2>4, <2>5, <2>6
  <2> QED
    BY <1>1, <1>8, <2>1, <2>7 DEF InTable
<1> QED
  BY <1>7, <1>8

\* A step that stores nothing, starts nothing and tells nothing.
LEMMA QuietTells ==
    ASSUME TypeOK, TellInv, UNCHANGED <<lines, rows, runs>>,
           pc' = "down" \/ (pc # "down" /\ saved'["stored"] = saved["stored"]
                            /\ (\A i \in DOMAIN batch' : \/ \E j \in DOMAIN batch : batch'[i] = batch[j]
                                                         \/ \E j \in DOMAIN pending : batch'[i] = pending[j])
                            /\ (\A i \in DOMAIN pending' :
                                   \E j \in DOMAIN pending : pending'[i] = pending[j]))
    PROVE  TellInv'
<1>1. \A r : InTable(r)' = InTable(r)
  BY SameRows
<1>2. OfTheirRun'
  BY DEF TellInv, OfTheirRun
<1>3. SavedInTable' /\ ToldInTable'
  BY <1>1 DEF TellInv, SavedInTable, ToldInTable
<1> QED
  BY <1>2, <1>3 DEF TellInv

\* A part is saved; refused, or its answer lost, it is counted as something else.
LEMMA SaveTells ==
    ASSUME TypeOK, PartsFit, LastCounts, TellInv, Save
    PROVE  TellInv'
<1>1. /\ pc = "save" /\ ends # <<>> /\ batch' = batch /\ pc' = pc
      /\ UNCHANGED <<lines, pending, runs>>
  BY DEF Save, Commits, Refused, PartDone, queueVars
<1>2. saved \in [Counts -> Nat]
  BY DEF TypeOK
<1>3. Refused => saved'["stored"] = saved["stored"]
  BY <1>2 DEF Refused, Counts
<1>4. CASE Refused /\ UNCHANGED rows
  BY <1>1, <1>3, <1>4, QuietTells
<1>5. CASE Commits
  <2>1. PICK new \in Ascending(New) :
          /\ rows' = rows \o new
          /\ \/ saved' = [saved EXCEPT !["stored"] = @ + Len(new),
                                       !["duplicates"] = @ + PartSize - Len(new)]
             \/ "lost_connection" \in Faults /\ Refused
    BY <1>5 DEF Commits
  <2>2. Len(runs) \in Nat /\ Len(runs) \in DOMAIN runs /\ saved["stored"] \in Nat
        /\ DOMAIN runs \subseteq Nat
    BY <1>1, RunFacts DEF LastCounts
  <2>3. /\ Len(new) \in Nat
        /\ \A r \in Nat :
              InTable(r)' = IF r = Len(runs) THEN InTable(r) + Len(new) ELSE InTable(r)
    BY <1>1, <2>1, <2>2, StoredRows DEF TellInv
  <2>4. \A r : InTable(r) \in Nat
    BY Countable
  <2>5. \/ saved'["stored"] = saved["stored"] + Len(new)
        \/ ~Sure /\ saved'["stored"] = saved["stored"]
    BY <1>2, <1>3, <2>1 DEF Sure, Counts
  <2>6. OfTheirRun'
    BY <1>1 DEF TellInv, OfTheirRun
  <2>7. SavedInTable'
    <3>1. InTable(Len(runs))' = InTable(Len(runs)) + Len(new)
      BY <1>1, <2>2, <2>3
    <3>2. saved["stored"] <= InTable(Len(runs)) /\ (Sure => saved["stored"] = InTable(Len(runs)))
      BY <1>1 DEF TellInv, SavedInTable
    <3>3. InTable(Len(runs)) \in Nat
      BY <2>4
    <3>4. saved'["stored"] <= InTable(Len(runs))' /\ (Sure => saved'["stored"] = InTable(Len(runs))')
      BY <2>2, <2>3, <2>5, <3>1, <3>2, <3>3
    <3> QED
      BY <1>1, <3>4 DEF SavedInTable
  <2>8. ToldInTable'
    <3>1. ASSUME NEW r \in DOMAIN runs
          PROVE  /\ runs[r].stored <= InTable(r)'
                 /\ Sure /\ runs[r].status = "completed" => runs[r].stored = InTable(r)'
      <4>1. /\ runs[r].stored <= InTable(r)
            /\ Sure /\ runs[r].status = "completed" => runs[r].stored = InTable(r)
        BY DEF TellInv, ToldInTable
      <4>2. CASE r # Len(runs)
        BY <2>2, <2>3, <4>1, <4>2
      <4>3. CASE r = Len(runs)
        <5>1. runs[r].status = "running"
          BY <1>1, <4>3 DEF LastCounts
        <5>2. InTable(r)' = InTable(r) + Len(new) /\ InTable(r) \in Nat /\ runs[r].stored \in Nat
          BY <2>2, <2>3, <2>4, <4>3, RunFacts
        <5>3. runs[r].stored <= InTable(r)'
          BY <2>3, <4>1, <5>2
        <5> QED
          BY <5>1, <5>3
      <4> QED
        BY <4>2, <4>3
    <3> QED
      BY <1>1, <3>1 DEF ToldInTable
  <2> QED
    BY <2>6, <2>7, <2>8 DEF TellInv
<1> QED
  BY <1>4, <1>5 DEF Save

\* The last run is told what was saved.
LEMMA TellTells ==
    ASSUME TypeOK, LastCounts, TellInv, pc # "down", UNCHANGED <<lines, rows>>,
           NEW status \in {"running", "completed", "stopped"},
           runs' = [runs EXCEPT ![Len(runs)] = Told(status)],
           pc' = "down" \/ UNCHANGED <<pc, saved, batch, pending>>
    PROVE  TellInv'
<1>1. /\ Len(runs') = Len(runs) /\ Len(runs) \in Nat \ {0} /\ runs' \in Seq(Run)
      /\ \A r \in 1 .. Len(runs) : runs'[r] = IF r = Len(runs) THEN Told(status) ELSE runs[r]
  BY TellsType
<1>2. DOMAIN runs = 1 .. Len(runs) /\ DOMAIN runs' = 1 .. Len(runs)
  BY <1>1, RunFacts, LenProperties
<1>3. \A r : InTable(r)' = InTable(r)
  BY SameRows
<1>4. Told(status).stored = saved["stored"]
  BY DEF Told
<1>5. OfTheirRun'
  BY <1>1 DEF TellInv, OfTheirRun
<1>6. SavedInTable'
  BY <1>1, <1>3 DEF TellInv, SavedInTable
<1>7. ToldInTable'
  <2>1. ASSUME NEW r \in 1 .. Len(runs)
        PROVE  /\ runs'[r].stored <= InTable(r)
               /\ Sure /\ runs'[r].status = "completed" => runs'[r].stored = InTable(r)
    <3>1. CASE r = Len(runs)
      BY <1>1, <1>4, <3>1 DEF TellInv, SavedInTable
    <3>2. CASE r # Len(runs)
      BY <1>1, <1>2, <3>2 DEF TellInv, ToldInTable
    <3> QED
      BY <3>1, <3>2
  <2> QED
    BY <1>2, <1>3, <2>1 DEF ToldInTable
<1> QED
  BY <1>5, <1>6, <1>7 DEF TellInv

\* A new run has told and stored nothing.
LEMMA StartTells ==
    ASSUME TypeOK, TellInv, Start
    PROVE  TellInv'
<1>1. /\ Len(runs) \in Nat /\ Len(runs') = Len(runs) + 1 /\ runs' \in Seq(Run)
      /\ runs'[Len(runs) + 1].status = "running" /\ runs'[Len(runs) + 1].stored = 0
      /\ \A r \in 1 .. Len(runs) : /\ runs'[r] = runs[r] \/ runs'[r].status = "stopped"
                                   /\ runs'[r].stored = runs[r].stored
  BY StartRuns
<1>2. DOMAIN runs = 1 .. Len(runs) /\ DOMAIN runs' = 1 .. Len(runs) + 1
  BY <1>1, RunFacts, LenProperties
<1>3. UNCHANGED <<lines, rows>> /\ Forgotten
  BY DEF Start
<1>4. \A r : InTable(r)' = InTable(r)
  BY <1>3, SameRows
<1>5. saved'["stored"] = 0 /\ DOMAIN batch' = {} /\ DOMAIN pending' = {}
  BY <1>3 DEF Forgotten, Nothing, Counts
<1>6. \A l \in DOMAIN lines : lines[l].run < Len(runs) + 1
  BY <1>1, RunFacts DEF TellInv, OfTheirRun
<1>7. InTable(Len(runs) + 1) = 0
  <2>1. \A i \in DOMAIN rows : rows[i] \in DOMAIN lines
    BY Held
  <2>2. \A l \in DOMAIN lines : lines[l].run # Len(runs) + 1
    BY <1>1, <1>6, RunFacts
  <2>3. OfRun(Len(runs) + 1) = {}
    BY <2>1, <2>2 DEF OfRun
  <2> QED
    BY <2>3, FS_EmptySet DEF InTable
<1>8. OfTheirRun'
  <2>1. \A l \in DOMAIN lines : lines[l].run <= Len(runs) + 1
    BY <1>1, <1>6, RunFacts
  <2> QED
    BY <1>1, <1>3, <1>5, <2>1 DEF OfTheirRun
<1>9. SavedInTable'
  <2>1. InTable(Len(runs))' = 0
    BY <1>1, <1>4, <1>7
  <2> QED
    BY <1>5, <2>1 DEF SavedInTable
<1>10. ToldInTable'
  <2>1. ASSUME NEW r \in 1 .. Len(runs) + 1
        PROVE  /\ runs'[r].stored <= InTable(r)
               /\ Sure /\ runs'[r].status = "completed" => runs'[r].stored = InTable(r)
    <3>1. CASE r = Len(runs) + 1
      BY <1>1, <1>7, <3>1
    <3>2. CASE r # Len(runs) + 1
      <4>1. r \in 1 .. Len(runs)
        BY <1>1, <3>2
      <4> QED
        BY <1>1, <1>2, <4>1 DEF TellInv, ToldInTable
    <3> QED
      BY <3>1, <3>2
  <2> QED
    BY <1>2, <1>4, <2>1 DEF ToldInTable
<1> QED
  BY <1>8, <1>9, <1>10 DEF TellInv

\* A line that is received is of the last run.
LEMMA ReceiveTells ==
    ASSUME TypeOK, TellInv, Receive
    PROVE  TellInv'
<1>1. PICK t \in Texts : lines' = Append(lines, [text |-> t, run |-> Len(runs)])
  BY DEF Receive
<1>2. /\ pc # "down" /\ UNCHANGED <<rows, runs, pc, saved, batch>>
      /\ pending' = pending \/ pending' = Append(pending, Len(lines) + 1)
  BY DEF Receive, dataVars, handVars
<1>3. /\ Len(lines) \in Nat /\ DOMAIN lines = 1 .. Len(lines)
      /\ DOMAIN lines' = 1 .. Len(lines) + 1
      /\ \A l \in DOMAIN lines : lines'[l] = lines[l]
      /\ lines'[Len(lines) + 1].run = Len(runs)
  <2>1. lines \in Seq(Line)
    BY DEF TypeOK
  <2> DEFINE line == [text |-> t, run |-> Len(runs)]
             S    == Line \union {line}
  <2>2. lines \in Seq(S) /\ line \in S
    BY <2>1, SeqMonotonic
  <2>3. /\ lines' \in Seq(S) /\ Len(lines') = Len(lines) + 1 /\ lines'[Len(lines) + 1] = line
        /\ \A l \in 1 .. Len(lines) : lines'[l] = lines[l]
    BY <1>1, <2>2, AppendProperties
  <2>4. DOMAIN lines' = 1 .. Len(lines) + 1
    BY <2>3, LenProperties
  <2> QED
    BY <2>3, <2>4, Held
<1>4. \A r : InTable(r)' = InTable(r)
  BY <1>2, <1>3, SameRows
<1>5. SavedInTable' /\ ToldInTable'
  BY <1>2, <1>4 DEF TellInv, SavedInTable, ToldInTable
<1>6. Len(runs) \in Nat
  BY RunFacts
<1>7. \A l \in DOMAIN lines' : l # Len(lines) + 1 => l \in DOMAIN lines
  BY <1>3
<1>8. \A l \in DOMAIN lines' : lines'[l].run <= Len(runs)
  BY <1>3, <1>6, <1>7 DEF TellInv, OfTheirRun
<1>9. \A i \in DOMAIN batch : lines'[batch[i]].run = Len(runs)
  BY <1>2, <1>3, Held DEF TellInv, OfTheirRun
<1>10. \A i \in DOMAIN pending : lines'[pending[i]].run = Len(runs)
  BY <1>2, <1>3, Held DEF TellInv, OfTheirRun
<1>11. \A i \in DOMAIN pending' :
          pending'[i] = Len(lines) + 1 \/ \E j \in DOMAIN pending : pending'[i] = pending[j]
  <2>1. CASE pending' = pending
    BY <2>1
  <2>2. CASE pending' = Append(pending, Len(lines) + 1)
    <3>1. pending \in Seq(Nat) /\ Len(lines) + 1 \in Nat
      <4>1. pending \in Seq(DOMAIN lines) /\ DOMAIN lines \subseteq Nat
        BY <1>3 DEF TypeOK
      <4> QED
        BY <1>3, <4>1, SeqMonotonic
    <3>2. /\ DOMAIN pending' = 1 .. Len(pending) + 1 /\ Len(pending) \in Nat
          /\ pending'[Len(pending) + 1] = Len(lines) + 1
          /\ \A i \in 1 .. Len(pending) : pending'[i] = pending[i]
      BY <2>2, <3>1, AppendProperties, LenProperties
    <3>3. \A i \in DOMAIN pending' : i # Len(pending) + 1 => i \in DOMAIN pending
      BY <3>2, Held
    <3> QED
      BY <3>2, <3>3, Held
  <2> QED
    BY <1>2, <2>1, <2>2
<1>12. OfTheirRun'
  <2>1. \A i \in DOMAIN pending' : lines'[pending'[i]].run = Len(runs)
    BY <1>3, <1>10, <1>11
  <2> QED
    BY <1>2, <1>8, <1>9, <2>1 DEF OfTheirRun
<1> QED
  BY <1>5, <1>12 DEF TellInv

\* Every step keeps what is told and what is stored together.
LEMMA StepTells ==
    ASSUME TypeOK, PartsFit, LastCounts, TellInv, [Next]_vars
    PROVE  TellInv'
<1> USE DEF queueVars, handVars, dataVars
<1>1. saved \in [Counts -> Nat]
  BY DEF TypeOK
<1>2. ASSUME Take PROVE TellInv'
  <2>1. /\ pc # "down" /\ pc' = pc /\ pending # <<>> /\ batch' = Append(batch, Head(pending))
        /\ pending' = Tail(pending) /\ UNCHANGED <<lines, rows, runs, saved>>
    BY <1>2 DEF Take
  <2>2. batch \in Seq(DOMAIN lines) /\ pending \in Seq(DOMAIN lines)
    BY DEF TypeOK
  <2>3. /\ Head(pending) = pending[1] /\ Len(pending) \in Nat \ {0}
        /\ DOMAIN pending = 1 .. Len(pending)
    <3>1. Len(pending) # 0
      BY <2>1, <2>2, EmptySeq
    <3> QED
      BY <2>2, <3>1, Held
  <2>4. \A i \in DOMAIN pending' : \E j \in DOMAIN pending : pending'[i] = pending[j]
    <3>1. /\ pending' \in Seq(DOMAIN lines) /\ Len(pending') = Len(pending) - 1
          /\ \A i \in 1 .. Len(pending') : pending'[i] = pending[i + 1]
      BY <2>1, <2>2, HeadTailProperties
    <3>2. DOMAIN pending' = 1 .. Len(pending')
      BY <3>1, LenProperties
    <3>3. \A i \in DOMAIN pending' : i + 1 \in DOMAIN pending
      BY <2>3, <3>1, <3>2
    <3> QED
      BY <3>1, <3>2, <3>3
  <2>5. \A i \in DOMAIN batch' : \/ \E j \in DOMAIN batch : batch'[i] = batch[j]
                                 \/ \E j \in DOMAIN pending : batch'[i] = pending[j]
    <3>1. Head(pending) \in DOMAIN lines
      BY <2>1, <2>2, HeadTailProperties
    <3>2. /\ batch' \in Seq(DOMAIN lines) /\ Len(batch') = Len(batch) + 1
          /\ batch'[Len(batch) + 1] = Head(pending)
          /\ \A i \in 1 .. Len(batch) : batch'[i] = batch[i]
      BY <2>1, <2>2, <3>1, AppendProperties
    <3>3. DOMAIN batch' = 1 .. Len(batch) + 1
      BY <3>2, LenProperties
    <3>4. \A i \in DOMAIN batch' : i # Len(batch) + 1 => i \in DOMAIN batch
      BY <3>3, Held
    <3>5. 1 \in DOMAIN pending /\ batch'[Len(batch) + 1] = pending[1]
      BY <2>3, <3>2
    <3> QED
      BY <3>2, <3>4, <3>5, Held
  <2> QED
    BY <2>1, <2>4, <2>5, QuietTells
<1>3. ASSUME AskToStop \/ ReceivingEnds \/ Again PROVE TellInv'
  BY <1>3, QuietTells DEF AskToStop, ReceivingEnds, Again
<1>4. ASSUME Batched PROVE TellInv'
  <2>1. /\ pc # "down" /\ UNCHANGED <<lines, pending, rows, runs>>
        /\ batch' = batch \/ batch' = <<>>
    BY <1>4 DEF Batched
  <2>2. saved'["stored"] = saved["stored"]
    BY <1>1, <1>4 DEF Batched, Counts
  <2>3. \A i \in DOMAIN batch' : \E j \in DOMAIN batch : batch'[i] = batch[j]
    <3>1. batch' = <<>> => DOMAIN batch' = {}
      OBVIOUS
    <3> QED
      BY <2>1, <3>1
  <2> QED
    BY <2>1, <2>2, <2>3, QuietTells
<1>5. ASSUME GiveUp PROVE TellInv'
  <2>1. /\ pc # "down" /\ UNCHANGED <<lines, pending, rows, runs, batch>>
        /\ saved'["stored"] = saved["stored"]
    BY <1>1, <1>5 DEF GiveUp, PartDone, Counts
  <2> QED
    BY <2>1, QuietTells
<1>6. ASSUME BatchEnds PROVE TellInv'
  <2>1. /\ pc # "down" /\ UNCHANGED <<lines, rows, runs>> /\ batch' = <<>>
        /\ pending' = pending \/ pending' = <<>>
    BY <1>6 DEF BatchEnds
  <2>2. saved'["stored"] = saved["stored"]
    BY <1>1, <1>6 DEF BatchEnds, Counts
  <2>3. DOMAIN batch' = {}
    BY <2>1
  <2>4. \A i \in DOMAIN pending' : \E j \in DOMAIN pending : pending'[i] = pending[j]
    <3>1. pending' = <<>> => DOMAIN pending' = {}
      OBVIOUS
    <3> QED
      BY <2>1, <3>1
  <2> QED
    BY <2>1, <2>2, <2>3, <2>4, QuietTells
<1>7. ASSUME Report PROVE TellInv'
  <2>1. /\ pc # "down" /\ UNCHANGED <<lines, rows, pc, saved, batch, pending>>
        /\ runs' = [runs EXCEPT ![Len(runs)] = Told(runs[Len(runs)].status)]
    BY <1>7 DEF Report
  <2>2. runs[Len(runs)].status \in {"running", "completed", "stopped"}
    BY <2>1 DEF LastCounts
  <2> QED
    BY <2>1, <2>2, TellTells
<1>8. ASSUME Close \/ Dies PROVE TellInv'
  <2>1. pc # "down" /\ pc' = "down" /\ UNCHANGED <<lines, rows>>
    BY <1>8 DEF Close, Dies, Down
  <2>2. runs' = runs \/ runs' = [runs EXCEPT ![Len(runs)] = Told("completed")]
    BY <1>8 DEF Close, Dies
  <2> QED
    BY <2>1, <2>2, QuietTells, TellTells
<1>9. CASE UNCHANGED vars
  <2>1. UNCHANGED <<lines, rows, runs, pc, saved, batch, pending>>
    BY <1>9 DEF vars
  <2> QED
    BY <2>1, QuietTells
<1> QED
  BY <1>2, <1>3, <1>4, <1>5, <1>6, <1>7, <1>8, <1>9, SaveTells, StartTells, ReceiveTells
     DEF Next, Saver

\* Together with the accounts.
LEMMA TellsAlways == Spec => []TellInv
<1>1. Init => TellInv
  <2> SUFFICES ASSUME Init PROVE TellInv
    OBVIOUS
  <2>1. DOMAIN lines = {} /\ DOMAIN runs = {} /\ pc = "down"
    BY DEF Init
  <2> QED
    BY <2>1 DEF TellInv, OfTheirRun, SavedInTable, ToldInTable
<1>2. IInv /\ TellInv /\ [Next]_vars => TellInv'
  BY StepTells DEF IInv
<1> QED
  BY <1>1, <1>2, Accounts, PTL DEF Spec

\* A run never tells of a line that the database has not, although a report is
\* written while a batch is halved, given up or saved, and the process may end at
\* any time: under every fault.
THEOREM NoneInvented == Spec => [](\A r \in DOMAIN runs : runs[r].stored <= Cardinality(OfRun(r)))
<1>1. TellInv => \A r \in DOMAIN runs : runs[r].stored <= Cardinality(OfRun(r))
  BY DEF TellInv, ToldInTable, InTable
<1> QED
  BY <1>1, TellsAlways, PTL

\* And a run that its receiver closed tells of as many as there are, unless an
\* answer to a commit is lost.
THEOREM AllTold == ASSUME "lost_connection" \notin Faults PROVE Spec => []RowsTold
<1>1. TellInv => RowsTold
  BY DEF TellInv, ToldInTable, InTable, RowsTold, Sure
<1> QED
  BY <1>1, TellsAlways, PTL
=============================================================================
