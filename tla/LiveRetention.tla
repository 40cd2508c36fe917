---------------------------- MODULE LiveRetention ----------------------------
(***************************************************************************)
(* The logs of one live source, by the hour: summarised once the hour is   *)
(* past the limit (run_live_retention), then deleted if they were checked  *)
(* and nothing needs them, and the evidence of alerts closed long ago      *)
(* (delete_closed_alert_evidence).  Every worker process makes such passes *)
(* when no job is queued.  What a pass reads and what it then commits are  *)
(* two steps; detection, people and other workers act in between.          *)
(*                                                                         *)
(* The retention of the audit trail and of jobs is not part of it.         *)
(***************************************************************************)
EXTENDS Integers, FiniteSets

CONSTANTS
    Workers,
    Count,          \* bound: logs the source sends
    MaxHour,        \* bound: hours that pass
    Nameless,       \* logs without a source address
    Keep,           \* SYSLOG_RETENTION_HOURS
    KeepSummaries,  \* SYSLOG_SUMMARY_RETENTION_DAYS, in hours
    KeepEvidence,   \* ALERT_EVIDENCE_RETENTION_DAYS, in hours
    Chunk,          \* DELETE_CHUNK
    Units,          \* assumed: what a pass gets done before PASS_SECONDS are over
    Databases,      \* what ATDR may run on: a subset of {"sqlite", "postgresql"}
    Asked,          \* bound: what people and later runs refer to logs by
    MaxRestarts     \* bound: restarts of workers

Logs  == 1 .. Count         \* in the order they are stored
Hours == 0 .. MaxHour

ASSUME RetentionAssumption ==
    /\ IsFiniteSet(Workers)
    /\ Count \in Nat /\ MaxHour \in Nat /\ MaxRestarts \in Nat
    /\ Keep \in Nat /\ KeepSummaries \in Nat /\ KeepEvidence \in Nat
    /\ Chunk \in Nat \ {0} /\ Units \in Nat
    /\ Nameless \subseteq Logs
    /\ Databases \subseteq {"sqlite", "postgresql"}
    /\ Asked \subseteq {"label", "evidence"}

VARIABLES
    db, up,         \* the database, and the workers it permits
    clock,
    \* raw_logs and normalized_logs
    log, hour, checked,
    need,           \* what refers to the log: a label, an alert's evidence
    asking,         \* what is about to: its session has read the log
    summaries,      \* traffic_hourly_summaries: the hour, and what address
    \* a worker: where its pass is
    pc, limit, at,  \* the hour it has summarised up to
    chosen,         \* what it read and is about to write
    units,
    through,        \* RetentionProgress.deleted_through_raw_id
    restarts,
    counted         \* how often a log was counted in a summary

logVars  == <<log, hour, checked, need, asking>>
passVars == <<pc, limit, at, chosen, units, through>>
vars == <<db, up, clock, logVars, summaries, passVars, restarts, counted>>

Needs == {"label", "evidence"}

TypeOK ==
    /\ db \in Databases /\ up \subseteq Workers
    /\ clock \in Hours
    /\ log \in [Logs -> {"none", "stored", "gone"}]
    /\ hour \in [Logs -> Hours]
    /\ checked \in [Logs -> BOOLEAN]
    /\ need \in [Logs -> SUBSET Needs]
    /\ asking \in [Logs -> SUBSET Needs]
    /\ summaries \in SUBSET (Hours \X {"an address", "no address"})
    /\ pc \in [Workers -> {"idle", "hours", "summarise", "logs", "delete", "unlink"}]
    /\ limit \in [Workers -> -Keep .. MaxHour]
    /\ at \in [Workers -> Hours]
    /\ chosen \in [Workers -> SUBSET Logs]
    /\ units \in [Workers -> 0 .. Units]
    /\ through \in [Workers -> 0 .. Count]
    /\ restarts \in 0 .. MaxRestarts
    /\ counted \in [Logs -> Nat]

Init ==
    /\ db \in Databases
    /\ up \in IF db = "sqlite" THEN {{w} : w \in Workers} ELSE {Workers}
    /\ clock = 0
    /\ log = [i \in Logs |-> "none"]
    /\ hour = [i \in Logs |-> 0]
    /\ checked = [i \in Logs |-> FALSE]
    /\ need = [i \in Logs |-> {}]
    /\ asking = [i \in Logs |-> {}]
    /\ summaries = {}
    /\ pc = [w \in Workers |-> "idle"]
    /\ limit = [w \in Workers |-> -Keep]
    /\ at = [w \in Workers |-> 0]
    /\ chosen = [w \in Workers |-> {}]
    /\ units = [w \in Workers |-> 0]
    /\ through = [w \in Workers |-> 0]
    /\ restarts = 0
    /\ counted = [i \in Logs |-> 0]

-----------------------------------------------------------------------------
Stored == {i \in Logs : log[i] = "stored"}

Address(i) == IF i \in Nameless THEN "no address" ELSE "an address"

\* Hours that have a row.
Summarised == {s[1] : s \in summaries}

Newest(h, S) == h \in S /\ \A g \in S : g <= h
Oldest(h, S) == h \in S /\ \A g \in S : h <= g

\* Mutations: no summary outlives its days; an hour that has begun is past the
\* limit; nothing refers to logs by a foreign key.
PrunedAll(w, h) == h < limit[w] + Keep - KeepSummaries
PastAtOnce(w) == at[w] <= limit[w]
NeverRefused(S) == FALSE

\* _next_hour_to_summarise
NextHour ==
    IF summaries # {} THEN {h + 1 : h \in {g \in Hours : Newest(g, Summarised)}}
    ELSE {h \in Hours : Oldest(h, {hour[i] : i \in Stored})}

\* hour + HOUR <= cutoff
Past(w) == at[w] + 1 <= limit[w]

\* PostgreSQL enforces foreign keys; ATDR does not turn them on for SQLite.
ForeignKeys == db = "postgresql"

\* What _delete_chunk's SELECT may return.
Deletable(w) ==
    {i \in Stored : i > through[w] /\ hour[i] < at[w] /\ checked[i] /\ need[i] = {}}

\* _prune_summaries, by the now of the pass: the newest summarised hour says where
\* to carry on.
Pruned(w, h) == h < limit[w] + Keep - KeepSummaries /\ ~Newest(h, Summarised)

-----------------------------------------------------------------------------
(***************************************************************************)
(* A pass of a worker.                                                     *)
(***************************************************************************)

Goto(w, s) == pc' = [pc EXCEPT ![w] = s]

Unit(w) == units' = [units EXCEPT ![w] = IF @ < Units THEN @ + 1 ELSE @]

\* The pass is over or raised: its session is closed.
Leave(w) ==
    /\ Goto(w, "idle")
    /\ limit' = [limit EXCEPT ![w] = -Keep]
    /\ at' = [at EXCEPT ![w] = 0]
    /\ chosen' = [chosen EXCEPT ![w] = {}]
    /\ units' = [units EXCEPT ![w] = 0]

\* now, and the hour to carry on from; without one there is nothing to do.
Begin(w) ==
    /\ w \in up /\ pc[w] = "idle"
    /\ \E h \in NextHour : at' = [at EXCEPT ![w] = h]
    /\ limit' = [limit EXCEPT ![w] = clock - Keep]
    /\ Goto(w, "hours")
    /\ UNCHANGED <<db, up, clock, logVars, summaries, chosen, units, through, restarts, counted>>

ReadHour(w) ==
    /\ pc[w] = "hours" /\ Past(w)
    /\ chosen' = [chosen EXCEPT ![w] = {i \in Stored : hour[i] = at[w]}]
    /\ Goto(w, "summarise")
    /\ UNCHANGED <<db, up, clock, logVars, summaries, limit, at, units, through, restarts, counted>>

\* uq_traffic_hourly_summary: a second row for an hour and an address is
\* refused, unless the address is NULL.
Clashing(rows) == \E row \in rows \intersect summaries : row[2] # "no address"

\* One row for each address.
Summarise(w) ==
    LET rows == {<<at[w], Address(i)>> : i \in chosen[w]} IN
    /\ pc[w] = "summarise"
    /\ IF Clashing(rows)
       THEN Leave(w) /\ UNCHANGED <<summaries, counted>>
       ELSE /\ summaries' = summaries \union rows
            /\ counted' = [i \in Logs |-> counted[i] + IF i \in chosen[w] THEN 1 ELSE 0]
            /\ at' = [at EXCEPT ![w] = @ + 1]
            /\ chosen' = [chosen EXCEPT ![w] = {}]
            /\ Unit(w)
            /\ Goto(w, "hours")
            /\ UNCHANGED limit
    /\ UNCHANGED <<db, up, clock, logVars, through, restarts>>

HoursDone(w) ==
    /\ pc[w] = "hours" /\ ~Past(w)
    /\ Goto(w, "logs")
    /\ UNCHANGED <<db, up, clock, logVars, summaries, limit, at, chosen, units, through, restarts, counted>>

\* The oldest Chunk of them.
ReadChunk(w) ==
    /\ pc[w] = "logs" /\ Deletable(w) # {}
    /\ chosen' = [chosen EXCEPT ![w] =
                    {i \in Deletable(w) : Cardinality({j \in Deletable(w) : j < i}) < Chunk}]
    /\ Goto(w, "delete")
    /\ UNCHANGED <<db, up, clock, logVars, summaries, limit, at, units, through, restarts, counted>>

Refused(S) == ForeignKeys /\ \E i \in S : need[i] # {}

\* The cursor moves to the last log deleted.
MovedOn(w) == [through EXCEPT ![w] = CHOOSE i \in chosen[w] : \A j \in chosen[w] : j <= i]

DeleteChunk(w) ==
    /\ pc[w] = "delete"
    /\ IF Refused(chosen[w])
       THEN Leave(w) /\ UNCHANGED <<log, through>>
       ELSE /\ log' = [i \in Logs |-> IF i \in chosen[w] THEN "gone" ELSE log[i]]
            /\ through' = MovedOn(w)
            /\ chosen' = [chosen EXCEPT ![w] = {}]
            /\ Unit(w)
            /\ Goto(w, "logs")
            /\ UNCHANGED <<limit, at>>
    /\ UNCHANGED <<db, up, clock, hour, checked, need, asking, summaries, restarts, counted>>

\* Nothing is left to delete, or PASS_SECONDS are over.
End(w) ==
    /\ \/ pc[w] = "logs" /\ Deletable(w) = {}
       \/ pc[w] = "logs" /\ units[w] = Units
       \/ pc[w] = "hours" /\ Past(w) /\ units[w] = Units
    /\ summaries' = {s \in summaries : ~Pruned(w, s[1])}
    /\ Leave(w)
    /\ UNCHANGED <<db, up, clock, logVars, through, restarts, counted>>

Pass(w) ==
    \/ Begin(w) \/ ReadHour(w) \/ Summarise(w) \/ HoursDone(w)
    \/ ReadChunk(w) \/ DeleteChunk(w) \/ End(w)

\* The evidence of alerts closed long ago, whichever those are, is read.
ClosedEvidence == {i \in Stored : need[i] = {"evidence"} /\ hour[i] + KeepEvidence < clock}

ReadEvidence(w) ==
    /\ w \in up /\ pc[w] = "idle"
    /\ \E S \in SUBSET ClosedEvidence : S # {} /\ chosen' = [chosen EXCEPT ![w] = S]
    /\ Goto(w, "unlink")
    /\ UNCHANGED <<db, up, clock, logVars, summaries, limit, at, units, through, restarts, counted>>

Unlink(w) ==
    /\ pc[w] = "unlink"
    /\ IF ForeignKeys /\ \E i \in chosen[w] : "label" \in need[i]
       THEN UNCHANGED <<log, need>>
       ELSE /\ need' = [i \in Logs |-> IF i \in chosen[w] THEN need[i] \ {"evidence"} ELSE need[i]]
            /\ log' = [i \in Logs |-> IF i \in chosen[w] THEN "gone" ELSE log[i]]
    /\ Leave(w)
    /\ UNCHANGED <<db, up, clock, hour, checked, asking, summaries, through, restarts, counted>>

Restart(w) ==
    /\ w \in up
    /\ restarts < MaxRestarts /\ restarts' = restarts + 1
    /\ through' = [through EXCEPT ![w] = 0]
    /\ Leave(w)
    /\ UNCHANGED <<db, up, clock, logVars, summaries, counted>>

-----------------------------------------------------------------------------
(***************************************************************************)
(* The rest of ATDR.                                                       *)
(***************************************************************************)

\* The receiver saves the next log.
Store(i) ==
    /\ log[i] = "none" /\ \A j \in Logs : j < i => log[j] # "none"
    /\ log' = [log EXCEPT ![i] = "stored"]
    /\ hour' = [hour EXCEPT ![i] = clock]
    /\ UNCHANGED <<db, up, clock, checked, need, asking, summaries, passVars, restarts, counted>>

\* A detection run marks it checked, and may make it evidence.
Check(i) ==
    /\ log[i] = "stored" /\ ~checked[i]
    /\ checked' = [checked EXCEPT ![i] = TRUE]
    /\ \E new \in SUBSET {"evidence"} : need' = [need EXCEPT ![i] = @ \union new]
    /\ UNCHANGED <<db, up, clock, log, hour, asking, summaries, passVars, restarts, counted>>

\* A person labels it, or a run that checks checked logs again makes it
\* evidence: the log is read first.
Ask(i, what) ==
    /\ log[i] = "stored" /\ (what = "evidence" => checked[i])
    /\ what \notin need[i] \union asking[i]
    /\ asking' = [asking EXCEPT ![i] = @ \union {what}]
    /\ UNCHANGED <<db, up, clock, log, hour, checked, need, summaries, passVars, restarts, counted>>

Refer(i, what) ==
    /\ what \in asking[i]
    /\ asking' = [asking EXCEPT ![i] = @ \ {what}]
    /\ need' = IF ForeignKeys /\ log[i] = "gone" THEN need
               ELSE [need EXCEPT ![i] = @ \union {what}]
    /\ UNCHANGED <<db, up, clock, log, hour, checked, summaries, passVars, restarts, counted>>

Hour ==
    /\ clock < MaxHour /\ clock' = clock + 1
    /\ UNCHANGED <<db, up, logVars, summaries, passVars, restarts, counted>>

Next ==
    \/ \E w \in Workers : Pass(w) \/ ReadEvidence(w) \/ Unlink(w) \/ Restart(w)
    \/ \E i \in Logs : Store(i) \/ Check(i)
    \/ \E i \in Logs, what \in Asked : Ask(i, what) \/ Refer(i, what)
    \/ Hour

Spec == Init /\ [][Next]_vars

-----------------------------------------------------------------------------
\* "An hour is deleted only once it is summarised": a log a pass is about to
\* delete was counted, whatever passes were cut short or raised before.
DeletedIsCounted ==
    \A w \in Workers : pc[w] = "delete" => \A i \in chosen[w] : counted[i] >= 1

\* A log is counted in one summary: an hour is never summarised again, not
\* after a restart, an hour without logs, or once its summary was pruned, and
\* not by a second worker, whom the unique constraint stops.  It does not stop
\* him over an address that is NULL, or once the hour is so old that the first
\* one's summary was pruned while he was at it.
OneCounts(i) == Cardinality(up) = 1 \/ (i \notin Nameless /\ hour[i] >= clock - KeepSummaries)

CountedOnce == \A i \in Logs : OneCounts(i) => counted[i] <= 1

\* "Never when it is alert evidence or labelled": what detection makes evidence
\* while passes run stays, and on a database that enforces foreign keys so does
\* what a person labels or a later run makes evidence meanwhile.
NeededIsKept ==
    \A i \in Logs : "evidence" \in need[i] \/ (ForeignKeys /\ need[i] # {}) => log[i] = "stored"
LogsSound == TypeOK /\ NeededIsKept
=============================================================================
