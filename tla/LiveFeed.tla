------------------------------ MODULE LiveFeed ------------------------------
(***************************************************************************)
(* The receiver of live logs (syslog_service): a thread that takes lines   *)
(* off the socket into a queue of bounded length, the calling thread that  *)
(* saves them in batches, and the row of ingestion_runs that tells the     *)
(* page what became of them; under a database that is busy at times, a     *)
(* disk that is full at times, a stop that is asked for, and a process     *)
(* that is ended and started again.                                        *)
(***************************************************************************)
EXTENDS Integers, Sequences, FiniteSets

CONSTANTS
    BatchSize,      \* SYSLOG_BATCH_SIZE
    MaxPending,     \* SYSLOG_MAX_PENDING_LINES
    Faults,         \* what may happen of FaultKinds
    MaxLines,       \* bounds: lines that are received,
    MaxRuns,        \* starts of the receiver,
    MaxKills        \* and ends of its process

\* What the code is not ready for: the hourly audit row is due while the
\* receiver is to stop and the database is busy; a connection that is lost,
\* while a batch is committed and the batch is there, or at a report.
FaultKinds == {"audit_at_stop", "lost_connection"}

ASSUME FeedAssumption ==
    /\ BatchSize \in Nat \ {0} /\ MaxPending \in Nat \ {0}
    /\ Faults \subseteq FaultKinds
    /\ MaxLines \in Nat /\ MaxRuns \in Nat /\ MaxKills \in Nat

VARIABLES
    lines,          \* every line received: what it says, in which run
    pending,        \* the queue
    received, dropped,  \* what the receiving thread counts
    stop, finished, \* the events: asked to stop; nothing is received any more
    pc,             \* of the saving thread
    batch, at, ends,    \* its batch: lines done with, and where the parts
                        \* it was halved into end
    saved,          \* what it counts
    gaveUp,         \* the database stayed busy when it was to stop
    rows,           \* the database: the stored lines, in their order
    runs,           \* the receiver's runs
    kills

queueVars == <<lines, pending, received, dropped>>
handVars  == <<batch, at, ends>>
dataVars  == <<rows, runs>>
vars == <<queueVars, stop, finished, pc, handVars, saved, gaveUp, dataVars, kills>>

\* A line that the database does not take.
Bad == 0

Counts == {"stored", "duplicates", "unstorable", "atStop", "diskLow"}
Nothing == [c \in Counts |-> 0]

\* A batch that was counted, and what the receiving thread could not queue.
SavedSum == saved["stored"] + saved["duplicates"] + saved["unstorable"]
            + saved["atStop"] + saved["diskLow"]
Dropped == dropped + saved["atStop"] + saved["diskLow"]

Line == [text : 0 .. MaxLines, run : 1 .. MaxRuns]
Run  == [status : {"running", "completed", "stopped"}, received : Nat, stored : Nat,
         duplicates : Nat, unstorable : Nat, dropped : Nat]

TypeOK ==
    /\ lines \in Seq(Line) /\ Len(lines) <= MaxLines
    /\ pending \in Seq(DOMAIN lines) /\ Len(pending) <= MaxPending
    /\ received \in Nat /\ dropped \in Nat
    /\ stop \in BOOLEAN /\ finished \in BOOLEAN
    /\ pc \in {"down", "batch", "save", "round", "idle", "close"}
    /\ batch \in Seq(DOMAIN lines) /\ Len(batch) <= BatchSize
    /\ at \in 0 .. Len(batch) /\ ends \in Seq(1 .. Len(batch))
    /\ saved \in [Counts -> Nat]
    /\ gaveUp \in BOOLEAN
    /\ rows \in Seq(DOMAIN lines)
    /\ runs \in Seq(Run) /\ Len(runs) <= MaxRuns
    /\ kills \in 0 .. MaxKills

Init ==
    /\ lines = <<>> /\ pending = <<>> /\ received = 0 /\ dropped = 0
    /\ stop = FALSE /\ finished = FALSE /\ pc = "down"
    /\ batch = <<>> /\ at = 0 /\ ends = <<>>
    /\ saved = Nothing /\ gaveUp = FALSE
    /\ rows = <<>> /\ runs = <<>>
    /\ kills = 0

-----------------------------------------------------------------------------
\* Mutations: a new process goes on with the counts of the last one; what is left
\* in the queue is not counted; a receiver ends without a look at its queue; a line
\* is new that was stored before; only one part gives up; a batch waits until it
\* is full.
CountsKept ==
    /\ pending' = <<>> /\ received' = 0 /\ dropped' = 0
    /\ stop' = FALSE /\ finished' = FALSE
    /\ batch' = <<>> /\ at' = 0 /\ ends' = <<>> /\ gaveUp' = FALSE
    /\ UNCHANGED saved
NoneLeft           == 0
NothingMoreComes   == pc = "idle" /\ finished
NeverKnown(l)      == FALSE
PatientOnce        == finished /\ ~gaveUp
FullOrNothing      == Len(batch) = BatchSize \/ (batch = <<>> /\ pending = <<>>)

(***************************************************************************)
(* The receiver's start.                                                   *)
(***************************************************************************)

\* What a new process has in its memory.
Forgotten ==
    /\ pending' = <<>> /\ received' = 0 /\ dropped' = 0
    /\ stop' = FALSE /\ finished' = FALSE
    /\ batch' = <<>> /\ at' = 0 /\ ends' = <<>>
    /\ saved' = Nothing /\ gaveUp' = FALSE

Left == {r \in DOMAIN runs : runs[r].status = "running"}

\* Runs that no receiver closed are closed, with the counts of their last report,
\* when three reports in a row are missing.  A busy database ends the start, and
\* the script tries again.
Start ==
    /\ pc = "down"
    /\ Len(runs) < MaxRuns
    /\ \E silent \in SUBSET Left :
       runs' = Append([r \in DOMAIN runs |->
                           IF r \in silent THEN [runs[r] EXCEPT !.status = "stopped"]
                                           ELSE runs[r]],
                      [status |-> "running", received |-> 0, stored |-> 0, duplicates |-> 0,
                       unstorable |-> 0, dropped |-> 0])
    /\ pc' = "batch" /\ Forgotten
    /\ UNCHANGED <<lines, rows, kills>>

-----------------------------------------------------------------------------
(***************************************************************************)
(* The receiving thread.                                                   *)
(***************************************************************************)

\* A record of its own, a datagram that the network doubled, or a line that the
\* database does not take.
Texts ==
    {Bad, Len(lines) + 1} \union {lines[l].text : l \in {k \in DOMAIN lines : k = Len(lines)}}

HasRoom == Len(pending) < MaxPending

Receive ==
    /\ pc # "down" /\ ~finished
    /\ Len(lines) < MaxLines
    /\ \E t \in Texts : lines' = Append(lines, [text |-> t, run |-> Len(runs)])
    /\ received' = received + 1
    /\ IF HasRoom THEN pending' = Append(pending, Len(lines) + 1) /\ UNCHANGED dropped
                  ELSE dropped' = dropped + 1 /\ UNCHANGED pending
    /\ UNCHANGED <<stop, finished, pc, handVars, saved, gaveUp, dataVars, kills>>

AskToStop ==
    /\ pc # "down" /\ ~stop
    /\ stop' = TRUE
    /\ UNCHANGED <<queueVars, finished, pc, handVars, saved, gaveUp, dataVars, kills>>

ReceivingEnds ==
    /\ pc # "down" /\ stop /\ ~finished
    /\ finished' = TRUE
    /\ UNCHANGED <<queueVars, stop, pc, handVars, saved, gaveUp, dataVars, kills>>

-----------------------------------------------------------------------------
(***************************************************************************)
(* The saving thread: a batch, what becomes of it, reports, the end.       *)
(***************************************************************************)

\* _next_batch, line by line: each makes room in the queue.
Take ==
    /\ pc = "batch"
    /\ Len(batch) < BatchSize /\ pending # <<>>
    /\ batch' = Append(batch, Head(pending))
    /\ pending' = Tail(pending)
    /\ UNCHANGED <<lines, received, dropped, stop, finished, pc, at, ends, saved, gaveUp,
                   dataVars, kills>>

\* The batch is full, or its time is over.
Ready == Len(batch) = BatchSize \/ pending = <<>>

\* It is saved, or dropped while the disk is nearly full.
Batched ==
    /\ pc = "batch" /\ Ready
    /\ \/ batch = <<>> /\ pc' = "idle" /\ UNCHANGED <<handVars, saved>>
       \/ /\ batch # <<>>
          /\ saved' = [saved EXCEPT !["diskLow"] = @ + Len(batch)]
          /\ batch' = <<>> /\ pc' = "round" /\ UNCHANGED <<at, ends>>
       \/ /\ batch # <<>>
          /\ ends' = <<Len(batch)>> /\ pc' = "save" /\ UNCHANGED <<batch, at, saved>>
    /\ UNCHANGED <<queueVars, stop, finished, gaveUp, dataVars, kills>>

\* The part of the batch that is saved next.
PartSize  == Head(ends) - at
PartLines == {batch[i] : i \in (at + 1) .. Head(ends)}
Storable  == \A l \in PartLines : lines[l].text # Bad

\* store_parsed_batch: what is in the table is counted, the first of what is not
\* is stored, in one transaction and in order.
Known(l) == \E i \in DOMAIN rows : lines[rows[i]].text = lines[l].text
New ==
    {l \in PartLines : ~Known(l) /\ \A k \in PartLines : lines[k].text = lines[l].text => l <= k}
Ascending(S) ==
    {q \in [1 .. Cardinality(S) -> S] : \A i, j \in DOMAIN q : i < j => q[i] < q[j]}

PartDone ==
    /\ at' = Head(ends) /\ ends' = Tail(ends)
    /\ UNCHANGED batch

\* An exception that is not about a busy database, which a line need not have
\* caused: the part is halved, and a line alone is counted and skipped.
Refused ==
    \/ /\ PartSize = 1
       /\ saved' = [saved EXCEPT !["unstorable"] = @ + 1]
       /\ PartDone
    \/ /\ PartSize > 1
       /\ ends' = <<at + PartSize \div 2>> \o ends
       /\ UNCHANGED <<saved, batch, at>>

Commits ==
    \E new \in Ascending(New) :
        /\ rows' = rows \o new
        /\ \/ /\ saved' = [saved EXCEPT !["stored"] = @ + Len(new),
                                        !["duplicates"] = @ + PartSize - Len(new)]
              /\ PartDone
           \/ "lost_connection" \in Faults /\ Refused

Save ==
    /\ pc = "save" /\ ends # <<>>
    /\ (Refused /\ UNCHANGED rows) \/ (Storable /\ Commits)
    /\ UNCHANGED <<queueVars, stop, finished, pc, gaveUp, runs, kills>>

\* A stop waits STOPPING_BUSY_LIMIT_SECONDS for the database, once for each part.
Waited == finished

GiveUp ==
    /\ pc = "save" /\ ends # <<>> /\ Waited
    /\ saved' = [saved EXCEPT !["atStop"] = @ + PartSize]
    /\ gaveUp' = TRUE
    /\ PartDone
    /\ UNCHANGED <<queueVars, stop, finished, pc, dataVars, kills>>

\* Given up once, the rest of the queue is counted as well.
Remaining == Len(pending)

BatchEnds ==
    /\ pc = "save" /\ ends = <<>>
    /\ batch' = <<>> /\ at' = 0
    /\ IF gaveUp
       THEN /\ saved' = [saved EXCEPT !["atStop"] = @ + Remaining]
            /\ pending' = <<>> /\ pc' = "close"
       ELSE pc' = "round" /\ UNCHANGED <<saved, pending>>
    /\ UNCHANGED <<lines, received, dropped, stop, finished, ends, gaveUp, dataVars,
                   kills>>

Told(status) ==
    [status |-> status, received |-> received, stored |-> saved["stored"],
     duplicates |-> saved["duplicates"], unstorable |-> saved["unstorable"],
     dropped |-> Dropped]

\* A report while the receiver runs; a busy database skips it.
Report ==
    /\ pc \in {"round", "idle"}
    /\ runs' = [runs EXCEPT ![Len(runs)] = Told(runs[Len(runs)].status)]
    /\ UNCHANGED <<queueVars, stop, finished, pc, handVars, saved, gaveUp, rows, kills>>

\* The process is gone, by an exception or by its end, and its memory with it.
Down ==
    /\ pc' = "down" /\ Forgotten
    /\ UNCHANGED <<lines, rows>>

Finished == pc = "idle" /\ finished /\ pending = <<>>

Again ==
    /\ pc \in {"round", "idle"}
    /\ pc' = IF Finished THEN "close" ELSE "batch"
    /\ UNCHANGED <<queueVars, stop, finished, handVars, saved, gaveUp, dataVars, kills>>

\* The run is closed with the last counts, or left when the database is busy.
Close ==
    /\ pc = "close"
    /\ \/ UNCHANGED runs
       \/ runs' = [runs EXCEPT ![Len(runs)] = Told("completed")]
    /\ Down
    /\ UNCHANGED kills

\* It is ended from outside, or an exception leaves the loop: of the hourly audit
\* row, given up like a save, or of a report.
Raised ==
    /\ pc \in {"round", "idle"}
    /\ ("audit_at_stop" \in Faults /\ Waited) \/ "lost_connection" \in Faults

Dies ==
    /\ pc # "down"
    /\ Raised \/ kills < MaxKills
    /\ kills' = IF Raised THEN kills ELSE kills + 1
    /\ Down
    /\ UNCHANGED runs

-----------------------------------------------------------------------------
Saver == Take \/ Batched \/ GiveUp \/ BatchEnds \/ Again \/ Close

Next ==
    \/ Start
    \/ Receive \/ AskToStop \/ ReceivingEnds
    \/ Save \/ Saver \/ Report \/ Dies

Spec == Init /\ [][Next]_vars

\* The threads of a process go on.  A save may wait for the database for ever, until
\* it gives up.
FairSpec == Spec /\ WF_vars(ReceivingEnds) /\ WF_vars(Saver)

-----------------------------------------------------------------------------
\* "Every line is accounted for": what was received waits in the queue or in the
\* batch, or was counted once, also in batches that were halved or given up.
Accounted ==
    pc # "down" => received = dropped + Len(pending) + (Len(batch) - at) + SavedSum

\* The parts of a batch follow each other up to its end.
PartsFit ==
    pc # "down" =>
        /\ \A i, j \in DOMAIN ends : i < j => ends[i] < ends[j]
        /\ \A i \in DOMAIN ends : at < ends[i]
        /\ pc = "save" => (IF ends = <<>> THEN at ELSE ends[Len(ends)]) = Len(batch)
        /\ pc # "save" => ends = <<>> /\ at = 0
        /\ pc \notin {"batch", "save"} => batch = <<>>

\* Nothing is received any more once the last counts are taken; until then the
\* receiver's run is the last one, and open.
LastCounts ==
    /\ pc # "down" => /\ Len(runs) > 0 /\ runs[Len(runs)].status = "running"
                      /\ gaveUp => finished
    /\ pc = "close" => finished /\ pending = <<>>

\* A run that its receiver closed tells what became of every line it received.
ClosedAddsUp ==
    \A r \in DOMAIN runs : runs[r].status = "completed" =>
        runs[r].received = runs[r].stored + runs[r].duplicates + runs[r].unstorable
                           + runs[r].dropped

\* The inductive invariant.
IInv == TypeOK /\ Accounted /\ PartsFit /\ LastCounts /\ ClosedAddsUp

\* A run never tells of more saved lines than the database has of it, and, once its
\* receiver closed it, of as many.
OfRun(r) == {i \in DOMAIN rows : lines[rows[i]].run = r}
RowsTold ==
    \A r \in DOMAIN runs :
        /\ runs[r].stored <= Cardinality(OfRun(r))
        /\ runs[r].status = "completed" => runs[r].stored = Cardinality(OfRun(r))

\* Lines are stored in the order they arrived in, and a record that the network
\* doubled only once, although batches are halved, tried again and cut off.
InOrder ==
    \A i, j \in DOMAIN rows :
        i < j => rows[i] < rows[j] /\ lines[rows[i]].text # lines[rows[j]].text

\* A receiver that ends by itself has counted every line that it received.
EndsAccounted ==
    [][pc # "down" /\ pc' = "down" /\ kills' = kills =>
          received = dropped + SavedSum]_vars

\* A receiver that is asked to stop ends, also when the database stays busy.
StopEnds == stop /\ pc # "down" ~> pc = "down"

\* No line is left waiting in a quiet stream, unless a save waits for the database
\* for ever.
Waits(l) ==
    pc # "down" /\ \/ \E i \in DOMAIN pending : pending[i] = l
                   \/ \E i \in (at + 1) .. Len(batch) : batch[i] = l
EveryLineEnds == []<>(pc # "save") => \A l \in 1 .. MaxLines : Waits(l) ~> ~Waits(l)
=============================================================================
