------------------------------ MODULE Notices -------------------------------
(***************************************************************************)
(* What a look of the worker writes down (notification_look up to its      *)
(* second commit): a notification for the alerts not reported yet, one for *)
(* each problem of ATDR's own that has lasted, one for each told problem   *)
(* that is over, and the daily summary.  All of it is one transaction,     *)
(* read and then committed; each worker process looks for itself.          *)
(*                                                                         *)
(* Time passes in ticks of SETTLE, and no tick passes inside such a        *)
(* transaction.  Ages stop growing where no comparison tells them from     *)
(* greater ones.  The place of an alert that is closed may be taken by a   *)
(* later alert, so alerts never run out.                                   *)
(***************************************************************************)
EXTENDS Integers, FiniteSets

CONSTANTS
    Workers,        \* worker processes
    Deployments,    \* which of them may run: one on SQLite, any on PostgreSQL
    Alerts,         \* bound: places for alerts,
    Places,         \* and those in use in each deployment
    Problems,       \* keys of problems the worker watches
    LongestWait,    \* LONGEST_WAIT, in ticks; SETTLE is one tick
    Between,        \* ATDR_NOTIFY_ALERT_MINUTES_BETWEEN
    Grace,          \* Problem.grace
    NotLooking,     \* NOT_LOOKING_AFTER
    LookEvery,      \* a worker that is awake looks at problems at least this often
    MaxNaps         \* bound: times the machine sleeps, in each deployment

ASSUME NoticeAssumption ==
    /\ IsFiniteSet(Workers)
    /\ Deployments \subseteq SUBSET Workers
    /\ Places \in [Deployments -> SUBSET Alerts]
    /\ LongestWait \in Nat \ {0} /\ Between \in Nat /\ Grace \in Nat
    /\ NotLooking \in Nat /\ LookEvery \in Nat \ {0} /\ LookEvery <= NotLooking
    /\ MaxNaps \in [Deployments -> Nat]

VARIABLES
    up,             \* the workers of this deployment
    \* alerts of a watched severity; notification_alerts
    open,           \* "no", "open" or "closed"
    alertAge,       \* ticks since created_at
    reported,       \* whether the alert has a row in notification_alerts
    listed,         \* notifications that list the alert, and 1 if it was covered
    lastAge,        \* ticks since the last notification of alerts
    started,        \* notification_state.started_at is set
    \* notification_conditions, and what is really wrong
    wrong,
    row,            \* "none", "seen" or "told" (announced_at is set)
    since, seenAge, \* ticks since the columns since and last_seen_at
    awake,          \* ticks the machine was awake since the row was inserted
    untold,         \* times the problem was told minus times it was told over, up to 2
    \* the daily summary: written since its time today, and how often
    summarised, summaries,
    \* a worker: where its look is, and what it read
    pc, got, lookedAge, naps

alertVars   == <<open, alertAge, reported, listed, lastAge, started>>
problemVars == <<wrong, row, since, seenAge, awake, untold>>
dayVars     == <<summarised, summaries>>
vars == <<up, alertVars, problemVars, dayVars, pc, got, lookedAge, naps>>

Got == [alerts : SUBSET Alerts, problems : BOOLEAN, wrong : SUBSET Problems,
        row : [Problems -> {"none", "seen", "told"}],
        lasted : [Problems -> 0 .. Grace], summary : BOOLEAN]
NoGot == [alerts |-> {}, problems |-> FALSE, wrong |-> {},
          row |-> [k \in Problems |-> "none"],
          lasted |-> [k \in Problems |-> 0], summary |-> FALSE]

TypeOK ==
    /\ up \in Deployments
    /\ open \in [Alerts -> {"no", "open", "closed"}]
    /\ alertAge \in [Alerts -> 0 .. LongestWait]
    /\ reported \in [Alerts -> BOOLEAN]
    /\ listed \in [Alerts -> Nat]
    /\ lastAge \in 0 .. Between
    /\ started \in BOOLEAN
    /\ wrong \in [Problems -> BOOLEAN]
    /\ row \in [Problems -> {"none", "seen", "told"}]
    /\ since \in [Problems -> 0 .. Grace]
    /\ seenAge \in [Problems -> 0 .. NotLooking + 1]
    /\ awake \in [Problems -> 0 .. Grace]
    /\ untold \in [Problems -> -2 .. 2]
    /\ summarised \in BOOLEAN
    /\ summaries \in 0 .. Cardinality(Workers)
    /\ pc \in [Workers -> {"idle", "cover", "look", "write"}]
    /\ got \in [Workers -> Got]
    /\ lookedAge \in [Workers -> 0 .. LookEvery]
    /\ naps \in 0 .. MaxNaps[up]

Init ==
    /\ up \in Deployments
    /\ open \in [Alerts -> {"no", "open"}]
    /\ \A a \in Alerts \ Places[up] : open[a] = "no"
    /\ alertAge = [a \in Alerts |-> 0]
    /\ reported = [a \in Alerts |-> FALSE]
    /\ listed = [a \in Alerts |-> 0]
    /\ lastAge = Between
    /\ started = FALSE
    /\ wrong = [k \in Problems |-> FALSE]
    /\ row = [k \in Problems |-> "none"]
    /\ since = [k \in Problems |-> 0]
    /\ seenAge = [k \in Problems |-> 0]
    /\ awake = [k \in Problems |-> 0]
    /\ untold = [k \in Problems |-> 0]
    /\ summarised = TRUE
    /\ summaries = 0
    /\ pc = [w \in Workers |-> "idle"]
    /\ got = [w \in Workers |-> NoGot]
    /\ lookedAge = [w \in Workers |-> 0]
    /\ naps = 0

-----------------------------------------------------------------------------
(***************************************************************************)
(* Alerts.                                                                 *)
(***************************************************************************)

Unreported == {a \in Alerts : open[a] = "open" /\ ~reported[a]}

\* Mutations: a burst may go on for ever; a problem counts from before the
\* machine slept; a problem that was never told is told over; a look does not
\* mind what another look wrote.
ArrivingStill(S) == \E a \in S : alertAge[a] < 1
CountsFrom(k) == since[k]
OverUntold(w) ==
    IF got[w].problems THEN {k \in Problems \ got[w].wrong : got[w].row[k] # "none"} ELSE {}
NoClash(w) == FALSE

\* More may be coming.
Arriving(S) ==
    /\ \E a \in S : alertAge[a] < 1
    /\ \A a \in S : alertAge[a] < LongestWait

\* raise_alert_notification: the alerts one notification lists.
ToList ==
    IF Unreported = {} \/ Arriving(Unreported) \/ lastAge < Between THEN {} ELSE Unreported

-----------------------------------------------------------------------------
(***************************************************************************)
(* Problems of ATDR's own: track_problems.                                 *)
(***************************************************************************)

\* How long a problem that is seen now has lasted, by the row as it is read.
Lasted(k) ==
    IF row[k] = "none" \/ (row[k] = "seen" /\ seenAge[k] > NotLooking) THEN 0 ELSE since[k]

Seen(w) == IF got[w].problems THEN got[w].wrong ELSE {}

Over(w) == IF got[w].problems
           THEN {k \in Problems \ got[w].wrong : got[w].row[k] # "none"} ELSE {}

Tells(w) == {k \in Seen(w) : got[w].row[k] # "told" /\ got[w].lasted[k] >= Grace}

TellsOver(w) == {k \in Over(w) : got[w].row[k] = "told"}

\* A row of notification_alerts or notification_conditions that is there
\* already cannot be inserted, and one that is gone cannot be updated: the
\* look raises and none of it is written.  A row that is gone can be deleted.
Clash(w) ==
    \/ \E a \in got[w].alerts : reported[a]
    \/ \E k \in Seen(w) : (got[w].row[k] = "none") # (row[k] = "none")

-----------------------------------------------------------------------------
(***************************************************************************)
(* The look.                                                               *)
(***************************************************************************)

Finish(w) ==
    /\ pc' = [pc EXCEPT ![w] = "idle"]
    /\ got' = [got EXCEPT ![w] = NoGot]

\* _begin: in a transaction of its own; the alerts that are there at the first
\* look of all are not news.
Begin(w) ==
    /\ w \in up
    /\ pc[w] = "idle"
    /\ pc' = [pc EXCEPT ![w] = IF started THEN "look" ELSE "cover"]
    /\ got' = IF started THEN got ELSE [got EXCEPT ![w].alerts = Unreported]
    /\ UNCHANGED <<alertVars, problemVars, dayVars, lookedAge, naps, up>>

Cover(w) ==
    /\ pc[w] = "cover"
    /\ IF started
       THEN Finish(w) /\ UNCHANGED alertVars
       ELSE /\ reported' = [a \in Alerts |-> reported[a] \/ a \in got[w].alerts]
            /\ listed' = [a \in Alerts |-> listed[a] + IF a \in got[w].alerts THEN 1 ELSE 0]
            /\ started' = TRUE
            /\ pc' = [pc EXCEPT ![w] = "look"]
            /\ got' = [got EXCEPT ![w] = NoGot]
            /\ UNCHANGED <<open, alertAge, lastAge>>
    /\ UNCHANGED <<problemVars, dayVars, lookedAge, naps, up>>

\* Problems are looked at every PROBLEMS_EVERY_SECONDS only.
Read(w) ==
    /\ pc[w] = "look"
    /\ \E problems \in BOOLEAN :
       /\ lookedAge[w] = LookEvery => problems
       /\ got' = [got EXCEPT ![w] =
                   [alerts |-> ToList, problems |-> problems, summary |-> ~summarised,
                    wrong |-> {k \in Problems : problems /\ wrong[k]},
                    row |-> IF problems THEN row ELSE NoGot.row,
                    lasted |-> IF problems THEN [k \in Problems |-> Lasted(k)]
                               ELSE NoGot.lasted]]
    /\ pc' = [pc EXCEPT ![w] = "write"]
    /\ UNCHANGED <<alertVars, problemVars, dayVars, lookedAge, naps, up>>

WriteAlerts(w) ==
    /\ reported' = [a \in Alerts |-> reported[a] \/ a \in got[w].alerts]
    /\ alertAge' = [a \in Alerts |-> IF a \in got[w].alerts THEN 0 ELSE alertAge[a]]
    /\ listed' = [a \in Alerts |-> listed[a] + IF a \in got[w].alerts THEN 1 ELSE 0]
    /\ lastAge' = IF got[w].alerts # {} THEN 0 ELSE lastAge
    /\ UNCHANGED <<open, started>>

WriteProblems(w) ==
    /\ row' = [k \in Problems |->
                 IF k \in Over(w) THEN "none"
                 ELSE IF k \in Tells(w) THEN "told"
                 ELSE IF k \in Seen(w) /\ row[k] = "none" THEN "seen"
                 ELSE row[k]]
    /\ since' = [k \in Problems |->
                   IF k \in Over(w) THEN 0
                   ELSE IF k \in Seen(w) /\ got[w].lasted[k] = 0 THEN 0
                   ELSE since[k]]
    /\ seenAge' = [k \in Problems |-> IF k \in Seen(w) \union Over(w) THEN 0 ELSE seenAge[k]]
    /\ awake' = [k \in Problems |-> IF k \in Over(w) THEN 0 ELSE awake[k]]
    /\ untold' = [k \in Problems |->
                    IF k \in Tells(w) /\ untold[k] < 2 THEN untold[k] + 1
                    ELSE IF k \in TellsOver(w) /\ untold[k] > -2 THEN untold[k] - 1
                    ELSE untold[k]]
    /\ UNCHANGED wrong

WriteSummary(w) ==
    /\ summarised' = (summarised \/ got[w].summary)
    /\ summaries' = summaries + IF got[w].summary THEN 1 ELSE 0

Write(w) ==
    /\ pc[w] = "write"
    /\ IF Clash(w)
       THEN UNCHANGED <<alertVars, problemVars, dayVars, lookedAge>>
       ELSE /\ WriteAlerts(w)
            /\ WriteProblems(w)
            /\ WriteSummary(w)
            /\ lookedAge' = IF got[w].problems THEN [lookedAge EXCEPT ![w] = 0]
                            ELSE lookedAge
    /\ Finish(w)
    /\ UNCHANGED <<naps, up>>

-----------------------------------------------------------------------------
(***************************************************************************)
(* The world.                                                              *)
(***************************************************************************)

\* A new alert, or an older one that has risen to the severity.
Raise(a) ==
    /\ open[a] = "no" /\ a \in Places[up]
    /\ open' = [open EXCEPT ![a] = "open"]
    /\ \E age \in {0, LongestWait} : alertAge' = [alertAge EXCEPT ![a] = age]
    /\ UNCHANGED <<reported, listed, lastAge, started, problemVars, dayVars,
                   pc, got, lookedAge, naps, up>>

Close(a) ==
    /\ open[a] = "open"
    /\ open' = [open EXCEPT ![a] = "closed"]
    /\ alertAge' = [alertAge EXCEPT ![a] = 0]
    /\ UNCHANGED <<reported, listed, lastAge, started, problemVars, dayVars,
                   pc, got, lookedAge, naps, up>>

\* Another alert takes the place of a closed one.
Replace(a) ==
    /\ open[a] = "closed"
    /\ \A w \in Workers : a \notin got[w].alerts
    /\ open' = [open EXCEPT ![a] = "no"]
    /\ alertAge' = [alertAge EXCEPT ![a] = 0]
    /\ reported' = [reported EXCEPT ![a] = FALSE]
    /\ listed' = [listed EXCEPT ![a] = 0]
    /\ UNCHANGED <<lastAge, started, problemVars, dayVars, pc, got, lookedAge, naps, up>>

Turn(k) ==
    /\ wrong' = [wrong EXCEPT ![k] = ~wrong[k]]
    /\ UNCHANGED <<alertVars, row, since, seenAge, awake, untold, dayVars,
                   pc, got, lookedAge, naps, up>>

\* The time of the summary comes again.
NewDay ==
    /\ started /\ summarised
    /\ \A w \in Workers : pc[w] # "write"
    /\ summarised' = FALSE
    /\ summaries' = 0
    /\ UNCHANGED <<alertVars, problemVars, pc, got, lookedAge, naps, up>>

Older(n, by, last) == IF n + by < last THEN n + by ELSE last

Pass(ticks) ==
    /\ \A w \in Workers : pc[w] # "write"
    /\ alertAge' = [a \in Alerts |-> IF open[a] = "open" /\ ~reported[a]
                                     THEN Older(alertAge[a], ticks, LongestWait) ELSE 0]
    /\ lastAge' = Older(lastAge, ticks, Between)
    /\ since' = [k \in Problems |-> IF row[k] = "seen" THEN Older(since[k], ticks, Grace)
                                    ELSE since[k]]
    /\ seenAge' = [k \in Problems |-> IF row[k] = "seen"
                                      THEN Older(seenAge[k], ticks, NotLooking + 1) ELSE 0]
    /\ UNCHANGED <<open, reported, listed, started, wrong, row, untold, dayVars, pc, got>>

Tick ==
    /\ \A w \in up : lookedAge[w] < LookEvery
    /\ Pass(1)
    /\ awake' = [k \in Problems |-> IF row[k] = "seen" THEN Older(awake[k], 1, Grace)
                                    ELSE awake[k]]
    /\ lookedAge' = [w \in Workers |-> IF w \in up THEN lookedAge[w] + 1 ELSE 0]
    /\ UNCHANGED <<naps, up>>

\* The machine sleeps for longer than NOT_LOOKING_AFTER.
Nap ==
    /\ naps < MaxNaps[up]
    /\ naps' = naps + 1
    /\ Pass(NotLooking + 1)
    /\ UNCHANGED <<awake, lookedAge, up>>

Step(w) == Begin(w) \/ Cover(w) \/ Read(w) \/ Write(w)

Next ==
    \/ \E w \in Workers : Step(w)
    \/ \E a \in Alerts : Raise(a) \/ Close(a) \/ Replace(a)
    \/ \E k \in Problems : Turn(k)
    \/ NewDay \/ Tick \/ Nap

Spec == Init /\ [][Next]_vars

\* A worker looks every 30 seconds; time passes, however often it looks.
FairSpec == Spec /\ (\A w \in Workers : WF_vars(Step(w))) /\ SF_vars(Tick)

-----------------------------------------------------------------------------
\* An alert is news once: it is listed by one notification or was there when
\* reporting began, never both and never twice, however many workers look.
AlertIsNewsOnce == \A a \in Alerts : listed[a] <= 1
NewsSound == TypeOK /\ AlertIsNewsOnce

\* What is read and updated without the help of a primary key needs that
\* looks do not come together.
Alone == Cardinality(up) = 1

\* "Nobody waits longer than LONGEST_WAIT": with one worker every alert is
\* reported unless it is closed first, even when others never stop coming.
EveryAlertTold ==
    Alone => \A a \in Alerts : open[a] = "open" ~> reported[a] \/ open[a] # "open"

\* "Tells each problem once it has lasted its time, and each told problem once
\* more when it is over": so does one worker.
ToldThenOver ==
    Alone => \A k \in Problems : untold[k] = IF row[k] = "told" THEN 1 ELSE 0

\* A single worker tells a problem only after ATDR, awake, has watched it last
\* its time: what it saw before the machine slept does not count.
NapsDoNotCount == Alone => \A k \in Problems : row[k] = "told" => awake[k] >= Grace

\* "Writes one summary a day": so does one worker.
OneSummaryADay == Alone => summaries <= 1

\* A single worker tells nothing twice and leaves no problem without its end.
ToldOnce == ToldThenOver /\ OneSummaryADay
=============================================================================
