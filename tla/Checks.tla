------------------------------- MODULE Checks -------------------------------
(***************************************************************************)
(* The checks that turn stored logs into alerts: the worker's automatic    *)
(* check (auto_detection_service), the page's buttons and the rebuild of   *)
(* the alert list, all of which run detection_service.run_detection, one   *)
(* batch after the other, next to a feed that goes on storing logs, to     *)
(* analysts who work on the alerts and to each other.                      *)
(*                                                                         *)
(* One source of traffic and one rule.  Time is counted in halves of the   *)
(* five-minute window, so that both grids of windows can be told apart;    *)
(* the instance lasts less than the 24 hours within which what the source  *)
(* does next joins its open alert.  Session starts, suppressions, the      *)
(* other kinds of alert and the record of the runs are left out.           *)
(***************************************************************************)
EXTENDS Integers, FiniteSets, Sequences

CONSTANTS
    Limit,          \* logs a batch is to have at least
    Fewest,         \* logs that make a pattern
    Patterns,       \* what the rule counts: "scan" by window, "beacon" by three
    Faults,         \* what may happen of FaultKinds
    MaxLogs, MaxTime,
    MaxPresses,     \* bounds: the buttons,
    MaxWorks,       \* what analysts do,
    MaxRebuilds,
    MaxMishaps,     \* checks that fail, time out or end with their process,
    MaxEvents       \* and all of these together

\* What the code is not ready for: logs that are older than others stored
\* before them by a window or more; a feed that was quiet and goes on where it
\* was, or while everything is checked; a button pressed while logs arrive; and
\* two checks at once on SQLite, which has no lock for them.
FaultKinds == {"late_log", "resumes", "early_button", "two_at_once"}

ASSUME CheckAssumption ==
    /\ Limit \in Nat \ {0} /\ Fewest \in Nat \ {0}
    /\ Patterns \subseteq {"scan", "beacon"} /\ Patterns # {}
    /\ Faults \subseteq FaultKinds
    /\ {MaxLogs, MaxTime, MaxPresses, MaxWorks, MaxRebuilds, MaxMishaps, MaxEvents}
          \subseteq Nat

Checkers == {"automatic", "button", "rebuild"}

\* A log without a time; the scope of a check that takes every unchecked log,
\* and of one that takes the newest logs, whether checked or not.
None       == -1
Everything == MaxTime + 1
Newest     == MaxTime + 2

VARIABLES
    pattern,
    time,           \* of every stored log, in the order they were stored
    quiet,          \* nothing was stored for AUTO_DETECTION_QUIET_SECONDS
    floor,          \* the window from which a feed that was quiet goes on
    checked,        \* the logs that bear a detection run
    state,          \* of every alert ever created: what became of it,
    evidence,       \* and the logs it is about
    pc, scope,      \* of each checker: where it is, what it takes,
    hands,          \* and what it has read and judged, not committed
    presses, works, rebuilds, mishaps

feedVars  == <<pattern, time, quiet, floor>>
boundVars == <<presses, works, rebuilds, mishaps>>
alertVars == <<state, evidence>>
vars == <<feedVars, checked, alertVars, pc, scope, hands, boundVars>>

Logs   == DOMAIN time
States == {"open", "worked", "closed", "archived"}
Empty  == [batch |-> {}, groups |-> {}, into |-> 0]

TypeOK ==
    /\ pattern \in Patterns
    /\ time \in Seq(None .. MaxTime) /\ Len(time) <= MaxLogs
    /\ quiet \in BOOLEAN /\ floor \in Nat /\ checked \subseteq Logs
    /\ state \in Seq(States) /\ evidence \in Seq(SUBSET Logs) /\ Len(state) = Len(evidence)
    /\ pc \in [Checkers -> {"idle", "batch", "judges"}]
    /\ scope \in [Checkers -> -1 .. Newest]
    /\ DOMAIN hands = Checkers
    /\ \A c \in Checkers :
          /\ hands[c].batch \subseteq Logs
          /\ \A g \in hands[c].groups : g # {} /\ g \subseteq hands[c].batch
          /\ hands[c].into \in 0 .. Len(state)
          /\ pc[c] # "judges" => hands[c] = Empty
    /\ presses \in 0 .. MaxPresses /\ works \in 0 .. MaxWorks
    /\ rebuilds \in 0 .. MaxRebuilds /\ mishaps \in 0 .. MaxMishaps

Init ==
    /\ pattern \in Patterns /\ time = <<>> /\ quiet = FALSE /\ floor = 0
    /\ checked = {} /\ state = <<>> /\ evidence = <<>>
    /\ pc = [c \in Checkers |-> "idle"]
    /\ scope = [c \in Checkers |-> Everything]
    /\ hands = [c \in Checkers |-> Empty]
    /\ presses = 0 /\ works = 0 /\ rebuilds = 0 /\ mishaps = 0

-----------------------------------------------------------------------------
(***************************************************************************)
(* Windows and the rule.                                                   *)
(***************************************************************************)

Timed     == {l \in Logs : time[l] # None}
Window(l) == time[l] \div 2
Shifted(l) == (time[l] + 1) \div 2

IsNewestWindow(w) == \E l \in Timed : Window(l) = w /\ \A m \in Timed : Window(m) <= w

InWindow(l, seen)  == {m \in seen : Window(m) = Window(l)}
InShifted(l, seen) == {m \in seen : Shifted(m) = Shifted(l)}

\* Of the two grids a log keeps the fuller window; a tie is the clock's.
IsShifted(l, seen) == Cardinality(InShifted(l, seen)) > Cardinality(InWindow(l, seen))

\* Beacons are counted over the window before and the one after as well.
Around(l, seen) == {m \in seen : Window(m) \in (Window(l) - 1) .. (Window(l) + 1)}

Matches(l, seen) ==
    Cardinality(IF pattern = "beacon"      THEN Around(l, seen)
                ELSE IF IsShifted(l, seen) THEN InShifted(l, seen)
                ELSE InWindow(l, seen)) >= Fewest

\* Where the window that a log is grouped by begins.
GroupOf(l, seen) == IF IsShifted(l, seen) THEN 2 * Shifted(l) - 1 ELSE 2 * Window(l)

-----------------------------------------------------------------------------
(***************************************************************************)
(* One run: a batch and what is read with it.                              *)
(***************************************************************************)

Unchecked == Logs \ checked
Due(l, s) == IF l \in Timed THEN Window(l) < s ELSE s = Everything

Earlier(m, l) == time[m] < time[l] \/ (time[m] = time[l] /\ m < l)
Oldest(S)     == {l \in S : Cardinality({m \in S : Earlier(m, l)}) < Limit}

\* Mutations: a batch is judged without its neighbours; evidence is judged again;
\* neighbours are judged as well; what a quiet feed leaves behind is never due.
SeenAlone(batch)         == batch \intersect Timed
NothingAlerted           == {}
FoundInSeen(batch, seen) == {l \in seen : Matches(l, seen)}
LooksAtWindows(s)        == IsNewestWindow(s + 1)

\* Logs without a time first, by number; then whole windows, oldest first.
Batch(due) ==
    IF due \subseteq Timed
    THEN {l \in due : \E k \in Oldest(due) : Window(l) <= Window(k)}
    ELSE Oldest(due \ Timed)

Batches(s) ==
    IF s = Newest THEN {{l \in Logs : l > Len(time) - Limit}}
                  ELSE {Batch(due) : due \in {{l \in Unchecked : Due(l, s)}}}

\* The batch and its neighbours: one window to either side.
Seen(batch) ==
    {m \in Timed : \E k, l \in batch \intersect Timed :
        Window(k) - 1 <= Window(m) /\ Window(m) <= Window(l) + 1}

\* The logs that are evidence already.
AlreadyAlerted == UNION {evidence[i] : i \in DOMAIN evidence}

\* The alerts that take what their source does next.
Taking == {i \in DOMAIN state : state[i] \in {"open", "worked"}}

Found(batch, seen)  == {l \in (batch \intersect seen) \ AlreadyAlerted : Matches(l, seen)}
Groups(found, seen) == {{m \in found : GroupOf(m, seen) = GroupOf(l, seen)} : l \in found}

\* Groups find the alert that is open, or the one the first of them created.
Alert(into, groups) ==
    LET logs == UNION groups
    IN  IF logs = {} THEN UNCHANGED alertVars
        ELSE IF into = 0
        THEN state' = Append(state, "open") /\ evidence' = Append(evidence, logs)
        ELSE evidence' = [evidence EXCEPT ![into] = @ \union logs] /\ UNCHANGED state

-----------------------------------------------------------------------------
(***************************************************************************)
(* What the feed and analysts do.  A rebuild is made while ATDR is stopped. *)
(***************************************************************************)

MayHappen == presses + works + rebuilds + mishaps < MaxEvents

Running == pc["rebuild"] = "idle"

\* Another log; without faults, in the order of time but for less than a window,
\* and, once the feed was quiet, of a window that those before have no part in.
\* The instance begins with the window of the first log.
Store(t) ==
    /\ Running /\ Len(time) < MaxLogs
    /\ t # None =>
          /\ Timed = {} => t \div 2 = 0
          /\ "late_log" \in Faults \/ \A l \in Timed : Window(l) <= t \div 2
          /\ "resumes" \in Faults \/ floor <= t \div 2
    /\ "resumes" \in Faults \/ \A c \in Checkers : pc[c] # "idle" => scope[c] < Everything
    /\ time' = Append(time, t)
    /\ quiet' = FALSE
    /\ UNCHANGED <<pattern, floor, checked, alertVars, pc, scope, hands, boundVars>>

Quiet ==
    /\ quiet' = TRUE
    /\ \/ Timed = {} /\ UNCHANGED floor
       \/ \E w \in 0 .. MaxTime : IsNewestWindow(w) /\ floor' = w + 2

GoesQuiet ==
    /\ time # <<>> /\ Quiet
    /\ UNCHANGED <<pattern, time, checked, alertVars, pc, scope, hands, boundVars>>

\* An alert is taken up, or closed as whatever it was.
WorkOn(i, now) ==
    /\ Running
    /\ MayHappen /\ works < MaxWorks /\ works' = works + 1
    /\ state[i] # "archived" /\ state' = [state EXCEPT ![i] = now]
    /\ UNCHANGED <<feedVars, checked, evidence, pc, scope, hands, presses, rebuilds, mishaps>>

-----------------------------------------------------------------------------
(***************************************************************************)
(* What starts a check.                                                    *)
(***************************************************************************)

\* due_logs, once for a whole check: everything when nothing arrives any more,
\* otherwise the windows whose evidence is complete.  The newest one still fills,
\* and the one before it counts for the one before that.
Looks(s) ==
    \/ quiet /\ s = Everything
    \/ ~quiet /\ IsNewestWindow(s + 1)

Look ==
    /\ Running /\ pc["automatic"] = "idle"
    /\ \E s \in -1 .. Everything :
          /\ Looks(s) /\ \E l \in Unchecked : Due(l, s)
          /\ scope' = [scope EXCEPT !["automatic"] = s]
    /\ pc' = [pc EXCEPT !["automatic"] = "batch"]
    /\ UNCHANGED <<feedVars, checked, alertVars, hands, boundVars>>

\* The page: a batch of the unchecked logs, or the newest logs.
Press(s) ==
    /\ Running /\ pc["button"] = "idle"
    /\ quiet \/ "early_button" \in Faults
    /\ MayHappen /\ presses < MaxPresses /\ presses' = presses + 1
    /\ scope' = [scope EXCEPT !["button"] = s]
    /\ pc' = [pc EXCEPT !["button"] = "batch"]
    /\ UNCHANGED <<feedVars, checked, alertVars, hands, works, rebuilds, mishaps>>

\* What a rebuild keeps as it is: the alerts somebody has worked on.
Kept(i) == state[i] # "open"

\* Every other alert goes to the archive, every log is to be checked again.
Rebuild ==
    /\ \A c \in Checkers : pc[c] = "idle"
    /\ MayHappen /\ rebuilds < MaxRebuilds /\ rebuilds' = rebuilds + 1
    /\ state'    = [i \in DOMAIN state |-> IF Kept(i) THEN state[i] ELSE "archived"]
    /\ evidence' = [i \in DOMAIN evidence |-> IF Kept(i) THEN evidence[i] ELSE {}]
    /\ checked' = {} /\ Quiet
    /\ scope' = [scope EXCEPT !["rebuild"] = Everything]
    /\ pc' = [pc EXCEPT !["rebuild"] = "batch"]
    /\ UNCHANGED <<pattern, time, hands, presses, works, mishaps>>

-----------------------------------------------------------------------------
(***************************************************************************)
(* run_detection.                                                          *)
(***************************************************************************)

Alone(c) == \A d \in Checkers \ {c} : pc[d] # "judges"

\* PostgreSQL's lock is taken, then everything is read.
Begin(c) ==
    /\ pc[c] = "batch"
    /\ Alone(c) \/ "two_at_once" \in Faults
    /\ \E batch \in Batches(scope[c]), i \in IF Taking = {} THEN {0} ELSE Taking :
       \E seen \in {Seen(batch)} : \E found \in {Found(batch, seen)} :
          hands' = [hands EXCEPT ![c] = [batch |-> batch, groups |-> Groups(found, seen),
                                         into  |-> i]]
    /\ pc' = [pc EXCEPT ![c] = "judges"]
    /\ UNCHANGED <<feedVars, checked, alertVars, scope, boundVars>>

Done(c) ==
    /\ pc' = [pc EXCEPT ![c] = "idle"]
    /\ scope' = [scope EXCEPT ![c] = Everything]

\* The alerts, their evidence and the marks are committed together.  The
\* automatic check and the rebuild go on to the next batch; after a minute the
\* check gives way to the worker's jobs.
GoesOn(c) ==
    /\ c # "button" /\ hands[c].batch # {}
    /\ \E l \in Logs \ (checked \union hands[c].batch) : Due(l, scope[c])

Commit(c) ==
    /\ pc[c] = "judges"
    /\ Alert(hands[c].into, hands[c].groups)
    /\ checked' = checked \union hands[c].batch
    /\ hands' = [hands EXCEPT ![c] = Empty]
    /\ \/ GoesOn(c) /\ pc' = [pc EXCEPT ![c] = "batch"] /\ UNCHANGED scope
       \/ (c = "automatic" \/ ~GoesOn(c)) /\ Done(c)
    /\ UNCHANGED <<feedVars, boundVars>>

Mishap(c) ==
    /\ MayHappen /\ mishaps < MaxMishaps /\ mishaps' = mishaps + 1
    /\ hands' = [hands EXCEPT ![c] = Empty]
    /\ Done(c)
    /\ UNCHANGED <<feedVars, presses, works, rebuilds>>

\* The process ends, or the alerts cannot be written.
Ends(c) ==
    /\ pc[c] # "idle"
    /\ Mishap(c)
    /\ UNCHANGED <<checked, alertVars>>

\* An exception: the run is recorded as failed, and that is committed together
\* with the groups that had their alert by then, but no log is marked.
Fails(c) ==
    /\ pc[c] = "judges"
    /\ \E l \in UNION hands[c].groups :
          LET first(g) == \E m \in g : m <= l
          IN  Alert(hands[c].into, {g \in hands[c].groups : first(g)})
    /\ Mishap(c)
    /\ UNCHANGED checked

-----------------------------------------------------------------------------
Check == Look \/ \E c \in Checkers : Begin(c) \/ Commit(c)

Next ==
    \/ \E t \in None .. MaxTime : Store(t)
    \/ GoesQuiet
    \/ \E i \in DOMAIN state, now \in {"worked", "closed"} : WorkOn(i, now)
    \/ Check \/ Rebuild
    \/ \E s \in {Everything, Newest} : Press(s)
    \/ \E c \in Checkers : Ends(c) \/ Fails(c)

Spec == Init /\ [][Next]_vars

\* The worker looks every few seconds; a check that runs goes on; a feed that
\* has nothing to send is quiet after two minutes.
FairSpec ==
    /\ Spec
    /\ WF_vars(GoesQuiet) /\ WF_vars(Check)

-----------------------------------------------------------------------------
\* A log is evidence of one alert, however many checks come across it, when one
\* of them failed half way and when its alert was closed in between.
EvidenceOnce ==
    \A i, j \in DOMAIN evidence : i # j => evidence[i] \intersect evidence[j] = {}

\* Why it holds, the inductive invariant of ChecksProofs: one check at a time
\* judges, and what it has in hand is evidence of nothing yet.
OneJudges == \A c, d \in Checkers : pc[c] = "judges" /\ pc[d] = "judges" => c = d
NewInHand == \A c \in Checkers, i \in DOMAIN evidence :
                \A g \in hands[c].groups : g \intersect evidence[i] = {}

JudgedIsNew == TypeOK /\ OneJudges /\ NewInHand /\ EvidenceOnce

\* A log that was checked is evidence exactly if it would be, had everything that
\* is stored by now been judged at once: neither the moment of a check, nor its
\* batches, nor what failed before decides what is found.
LikeAllAtOnce ==
    \A l \in checked \intersect Timed : l \in AlreadyAlerted <=> Matches(l, Timed)

\* No stored log stays unchecked, not the one without a time either: once the
\* feed has nothing more to send, everything it sent is checked.
EveryLogChecked == []<>(Unchecked = {})
=============================================================================
