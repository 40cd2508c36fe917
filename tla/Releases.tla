------------------------------ MODULE Releases ------------------------------
(***************************************************************************)
(* The live copy: a folder ATDR runs from, which release.cmd moves from    *)
(* one checked version to another (switch) and back when the new one does  *)
(* not come up (back_out, recover), the watcher that keeps its parts       *)
(* running, and the start scripts of the watcher and of a person.          *)
(*                                                                         *)
(* A release stops ATDR's own parts, moves files, environment and database *)
(* one after the other, and has the watcher start what is there then.  It  *)
(* may fail or be cut off anywhere; the marker it leaves in the folder is  *)
(* what keeps every other start away from a folder that is not whole.      *)
(***************************************************************************)
EXTENDS Integers, FiniteSets

CONSTANTS
    Versions,       \* commits of main, in their order
    EnvOf,          \* the environment of a version's lock file,
    SchemaOf,       \* and the schema it migrates to
    First,          \* the version the live copy was made with
    Own, Others,    \* ATDR's own parts, and those a release leaves running
    Rows,           \* what ATDR stores
    Faults,         \* what may happen of FaultKinds
    MaxMoves,       \* bounds: releases,
    MaxFails,       \* steps that fail,
    MaxCuts,        \* processes or machines that go down,
    MaxDeaths       \* and parts that die by themselves

\* What the code is not ready for: a checkout that is cut in the middle, or
\* leaves files behind when it fails; the end of the release between its record
\* and its marker; a start that has looked for the marker and takes the lock
\* when the stop has looked for that; a start that takes longer than a stop
\* waits for it; a start that a release asked for and that is made while the
\* release is put back; and two starts that look for the lock before either
\* has written it.
FaultKinds == {"half_checkout", "half_record", "late_lock", "slow_start", "stale_request",
               "two_starts"}

\* No version, environment or schema; a part that does not run.
None == 0
\* Files of two versions.
Mixed == -1
Parts == Own \union Others

ASSUME ReleaseAssumption ==
    /\ Versions \subseteq Nat \ {None} /\ First \in Versions
    /\ EnvOf \in [Versions -> Nat \ {None}]
    /\ SchemaOf \in [Versions -> Nat \ {None}]
    /\ Own \intersect Others = {} /\ Own # {}
    /\ Faults \subseteq FaultKinds
    /\ MaxMoves \in Nat /\ MaxFails \in Nat /\ MaxCuts \in Nat /\ MaxDeaths \in Nat

VARIABLES
    \* the folder: what HEAD names, what the files are, where .venv points
    head, tree, env,
    \* the database
    schema, rows,
    \* .atdr_runtime: the release in progress, the version that runs and the
    \* one before, what ATDR is meant to do, what the watcher is asked
    marker, record, previous, desired, request, result,
    \* what each part was started from
    run,
    \* the process of release.cmd: where it is, and whether it goes back
    pc, way,
    steady,         \* no part died since it watches
    waits,          \* the watcher answers the request with this start
    st, job,        \* a start script: where it is, and the parts it is to start
    moves, fails, cuts, deaths,
    early           \* rows stored while no release was in progress, or before

fileVars  == <<head, tree, env>>
dataVars  == <<schema, rows>>
noteVars  == <<marker, record, previous>>
askVars   == <<request, result, waits>>
startVars == <<st, job>>
boundVars == <<moves, fails, cuts, deaths>>
vars == <<fileVars, dataVars, noteVars, desired, askVars, run, pc, way, steady,
          startVars, boundVars, early>>

Starters == {"watcher", "person"}
Backup   == [schema : Nat, rows : SUBSET Rows]
NoMarker == [from |-> None, to |-> None, env |-> None, backup |-> {}]

Pc == {"idle", "stop", "end", "files", "checkout", "env", "link", "data", "upgrade",
       "upgrading", "copy", "ask", "wait", "watch", "record", "unmark"}

TypeOK ==
    /\ head \in Versions /\ tree \in Versions \union {Mixed}
    /\ env \in {EnvOf[v] : v \in Versions} \union {None}
    /\ schema \in {SchemaOf[v] : v \in Versions} \union {None}
    /\ rows \subseteq Rows /\ early \subseteq Rows
    /\ marker \in [from : Versions \union {None}, to : Versions \union {None},
                   env : Nat, backup : SUBSET Backup]
    /\ Cardinality(marker.backup) <= 1
    /\ record \in Versions /\ previous \in Versions \union {None}
    /\ desired \in {"running", "stopped"}
    /\ request \in BOOLEAN /\ waits \in BOOLEAN
    /\ result \in {"none", "started", "failed", "left"}
    /\ run \in [Parts -> Versions \union {None, Mixed}]
    /\ pc \in Pc /\ way \in {"go", "back"} /\ steady \in BOOLEAN
    /\ st \in [Starters -> {"none", "looked", "locked", "overwritten"}]
    /\ job \in [Starters -> SUBSET Parts]
    /\ moves \in 0 .. MaxMoves /\ fails \in 0 .. MaxFails
    /\ cuts \in 0 .. MaxCuts /\ deaths \in 0 .. MaxDeaths

Init ==
    /\ head = First /\ tree = First /\ env = EnvOf[First]
    /\ schema = SchemaOf[First] /\ rows = {} /\ early = {}
    /\ marker = NoMarker /\ record = First /\ previous = None
    /\ desired = "running" /\ request = FALSE /\ result = "none" /\ waits = FALSE
    /\ run = [p \in Parts |-> First]
    /\ pc = "idle" /\ way = "go" /\ steady = TRUE
    /\ st = [s \in Starters |-> "none"] /\ job = [s \in Starters |-> {}]
    /\ moves = 0 /\ fails = 0 /\ cuts = 0 /\ deaths = 0

Up == {p \in Parts : run[p] # None}
Whole(v) == head = v /\ tree = v /\ env = EnvOf[v] /\ schema = SchemaOf[v]

-----------------------------------------------------------------------------
(***************************************************************************)
(* release.cmd.                                                            *)
(***************************************************************************)

\* release: a later commit of main.  go_back: the version before, unless the
\* one that runs changed the database.
MayMoveTo(v) ==
    \/ v > record
    \/ v = previous /\ SchemaOf[v] = SchemaOf[record]

\* Mutations: the backup is taken before ATDR stops; the way back goes to the
\* version before the one on record, or leaves the environment; the release
\* waits for as long as the watcher is at its request; a start for some parts
\* does not look for the marker; the watcher starts everything or nothing.
MarkerWithBackup(v) ==
    [from |-> record, to |-> v, env |-> env, backup |-> {[schema |-> schema, rows |-> rows]}]
AimOfRecord     == IF way = "go" THEN marker.to ELSE previous
WantedNow       == IF way = "go" THEN EnvOf[marker.to] ELSE env
NoAnswerYet     == result = "none" /\ request
RefusesAll(parts) == marker # NoMarker /\ parts = Parts
AllOfThem       == Parts

Marker(v) == [from |-> record, to |-> v, env |-> env, backup |-> {}]

\* switch, up to the marker: everything slow was done before it.
Mark(v) ==
    /\ pc = "idle" /\ marker = NoMarker
    /\ moves < MaxMoves /\ moves' = moves + 1
    /\ MayMoveTo(v)
    /\ head = record /\ tree = head
    /\ marker' = Marker(v)
    /\ pc' = "stop" /\ way' = "go"
    /\ UNCHANGED <<fileVars, dataVars, record, previous, desired, askVars, run, steady,
                   startVars, fails, cuts, deaths, early>>

Aim    == IF way = "go" THEN marker.to ELSE marker.from
Wanted == IF way = "go" THEN EnvOf[marker.to] ELSE marker.env

\* An exception: the release turns back; the way back leaves the marker.
GivesUp ==
    IF way = "go" THEN pc' = "stop" /\ way' = "back" ELSE pc' = "idle" /\ UNCHANGED way

\* stop_parts: what ATDR is meant to do is on record first, then a start that
\* is under way is waited for, then the parts are ended.
Stop ==
    /\ pc = "stop"
    /\ desired' = "stopped"
    /\ pc' = "end"
    /\ UNCHANGED <<fileVars, dataVars, noteVars, askVars, run, way, steady, startVars,
                   boundVars, early>>

\* back_out's untouched.
Untouched == head = marker.from /\ marker.backup = {} /\ env = marker.env

\* A part that will not end is the version before, still running, when nothing
\* was changed yet.
EndParts ==
    /\ pc = "end"
    /\ "late_lock" \in Faults \/ \A s \in Starters : st[s] # "looked"
    /\ "slow_start" \in Faults \/ \A s \in Starters : st[s] # "locked"
    /\ \E stuck \in SUBSET (Own \intersect Up) :
       /\ stuck # {} => fails < MaxFails
       /\ fails' = IF stuck = {} THEN fails ELSE fails + 1
       /\ run' = [p \in Parts |-> IF p \in Own \ stuck THEN None ELSE run[p]]
       /\ IF stuck = {} \/ (way = "back" /\ Untouched)
          THEN pc' = "files" /\ UNCHANGED way
          ELSE GivesUp
    /\ UNCHANGED <<fileVars, dataVars, noteVars, desired, askVars, steady, startVars,
                   moves, cuts, deaths, early>>

\* git checkout moves HEAD when the files are there.
Files ==
    /\ pc = "files"
    /\ IF head = Aim THEN pc' = "env" /\ UNCHANGED tree
                     ELSE pc' = "checkout" /\ tree' = Mixed
    /\ UNCHANGED <<head, env, dataVars, noteVars, desired, askVars, run, way, steady,
                   startVars, boundVars, early>>

CheckedOut ==
    /\ pc = "checkout"
    /\ head' = Aim /\ tree' = Aim
    /\ pc' = "env"
    /\ UNCHANGED <<env, dataVars, noteVars, desired, askVars, run, way, steady,
                   startVars, boundVars, early>>

\* use_environment: one pointer is taken away, then the other one is made.
Environment ==
    /\ \/ pc = "env" /\ env = Wanted /\ pc' = "data" /\ UNCHANGED env
       \/ pc = "env" /\ env # Wanted /\ pc' = "link" /\ env' = None
       \/ pc = "link" /\ pc' = "data" /\ env' = Wanted
    /\ UNCHANGED <<head, tree, dataVars, noteVars, desired, askVars, run, way, steady,
                   startVars, boundVars, early>>

\* migrate: a backup, which the marker names before the database is changed.
Migrate ==
    /\ \/ /\ pc = "data" /\ way = "go" /\ schema = SchemaOf[marker.to]
          /\ pc' = "ask"
          /\ UNCHANGED <<marker, schema>>
       \/ /\ pc = "data" /\ way = "go" /\ schema # SchemaOf[marker.to]
          /\ marker' = [marker EXCEPT !.backup = {[schema |-> schema, rows |-> rows]}]
          /\ pc' = "upgrade"
          /\ UNCHANGED schema
       \/ /\ pc = "upgrade" /\ schema' = None /\ pc' = "upgrading" /\ UNCHANGED marker
       \/ /\ pc = "upgrading" /\ schema' = SchemaOf[marker.to] /\ pc' = "ask"
          /\ UNCHANGED marker
    /\ UNCHANGED <<fileVars, rows, record, previous, desired, askVars, run, way, steady,
                   startVars, boundVars, early>>

\* restore_database: what is there is moved aside, then the backup is copied.
Restore ==
    /\ \/ /\ pc = "data" /\ way = "back" /\ marker.backup = {}
          /\ pc' = "ask"
          /\ UNCHANGED dataVars
       \/ /\ pc = "data" /\ way = "back" /\ marker.backup # {}
          /\ schema' = None /\ rows' = {}
          /\ pc' = "copy"
       \/ /\ pc = "copy"
          /\ \E b \in marker.backup : schema' = b.schema /\ rows' = b.rows
          /\ pc' = "ask"
    /\ UNCHANGED <<fileVars, noteVars, desired, askVars, run, way, steady, startVars,
                   boundVars, early>>

\* start_parts: a fresh watcher, and only then the request.  What the watcher
\* before it was about to answer is never answered.
Ask ==
    /\ pc = "ask"
    /\ request' = TRUE /\ result' = "none" /\ waits' = FALSE
    /\ pc' = "wait"
    /\ UNCHANGED <<fileVars, dataVars, noteVars, desired, run, way, steady, startVars,
                   boundVars, early>>

\* START_WAIT_SECONDS have passed.
NoAnswer == result = "none"

\* Another start was under way: it is waited for as long again.
LeftToAnother == (Up = Parts /\ pc' = "watch" /\ UNCHANGED way) \/ GivesUp

Answered ==
    /\ pc = "wait"
    /\ result' = "none"
    /\ \/ result = "started" /\ pc' = "watch" /\ UNCHANGED <<way, request>>
       \/ result = "failed" /\ GivesUp /\ UNCHANGED request
       \/ result = "left" /\ LeftToAnother /\ UNCHANGED request
       \/ NoAnswer /\ GivesUp /\ request' = FALSE
    /\ steady' = TRUE
    /\ UNCHANGED <<fileVars, dataVars, noteVars, desired, run, waits, startVars,
                   boundVars, early>>

\* A version counts as running once every part has stayed up for a minute.
Watch ==
    /\ pc = "watch"
    /\ IF Up = Parts /\ steady
       THEN pc' = (IF way = "go" THEN "record" ELSE "unmark") /\ UNCHANGED way
       ELSE GivesUp
    /\ UNCHANGED <<fileVars, dataVars, noteVars, desired, askVars, run, steady, startVars,
                   boundVars, early>>

Record ==
    /\ pc = "record"
    /\ record' = marker.to /\ previous' = marker.from
    /\ pc' = "unmark"
    /\ UNCHANGED <<fileVars, dataVars, marker, desired, askVars, run, way, steady,
                   startVars, boundVars, early>>

Unmark ==
    /\ pc = "unmark"
    /\ marker' = NoMarker
    /\ pc' = "idle" /\ way' = "go"
    /\ early' = rows
    /\ UNCHANGED <<fileVars, dataVars, record, previous, desired, askVars, run, steady,
                   startVars, boundVars>>

\* recover: the marker of a release whose process is gone.
Recover ==
    /\ pc = "idle" /\ marker # NoMarker
    /\ "stale_request" \in Faults \/ (~request /\ ~waits)
    /\ pc' = "stop" /\ way' = "back"
    /\ UNCHANGED <<fileVars, dataVars, noteVars, desired, askVars, run, steady, startVars,
                   boundVars, early>>

\* Any step may raise; a checkout that does is assumed to leave no file behind.
StepFails ==
    /\ pc \in {"files", "checkout", "env", "link", "data", "upgrade", "upgrading", "copy", "ask"}
    /\ pc = "checkout" => "half_checkout" \in Faults
    /\ fails < MaxFails /\ fails' = fails + 1
    /\ GivesUp
    /\ UNCHANGED <<fileVars, dataVars, noteVars, desired, askVars, run, steady, startVars,
                   moves, cuts, deaths, early>>

MayBeCut ==
    /\ cuts < MaxCuts
    /\ pc = "checkout" => "half_checkout" \in Faults
    /\ pc = "unmark" /\ way = "go" => "half_record" \in Faults

\* The process of the release ends, its files stay.
Cut ==
    /\ MayBeCut /\ pc # "idle"
    /\ cuts' = cuts + 1
    /\ pc' = "idle"
    /\ UNCHANGED <<fileVars, dataVars, noteVars, desired, askVars, run, way, steady,
                   startVars, moves, fails, deaths, early>>

\* The machine goes down, with everything that runs on it.
PowerOff ==
    /\ MayBeCut
    /\ cuts' = cuts + 1
    /\ pc' = "idle" /\ waits' = FALSE /\ steady' = FALSE
    /\ run' = [p \in Parts |-> None]
    /\ st' = [s \in Starters |-> "none"] /\ job' = [s \in Starters |-> {}]
    /\ UNCHANGED <<fileVars, dataVars, noteVars, desired, request, result, way, moves,
                   fails, deaths, early>>

-----------------------------------------------------------------------------
(***************************************************************************)
(* The start script.  Only the start that a request of the release asks    *)
(* for is made while there is a marker.                                    *)
(***************************************************************************)

Looks(s, parts) ==
    /\ st' = [st EXCEPT ![s] = "looked"]
    /\ job' = [job EXCEPT ![s] = parts]

\* The marker as the start script reads it.
Refused(parts) == marker # NoMarker

\* The end of a start; the watcher writes down the one it was asked for.
Ends(s, how) ==
    /\ st' = [st EXCEPT ![s] = "none"] /\ job' = [job EXCEPT ![s] = {}]
    /\ IF s = "watcher" /\ waits THEN result' = how /\ waits' = FALSE
                                 ELSE UNCHANGED <<result, waits>>

\* The start writes itself into start.lock, over the one that is there.
Enters(s) ==
    st' = [o \in Starters |-> IF o = s THEN "locked"
                              ELSE IF st[o] = "locked" THEN "overwritten" ELSE st[o]]

\* One start at a time.  One for some parts minds a stop that came since; one
\* for everything starts nothing next to what runs.
Lock(s) ==
    /\ st[s] = "looked"
    /\ \/ /\ \E o \in Starters : st[o] = "locked"
          /\ Ends(s, "left") /\ UNCHANGED desired
       \/ /\ "two_starts" \in Faults \/ \A o \in Starters : st[o] # "locked"
          /\ \/ /\ job[s] # Parts /\ (desired # "running" \/ job[s] \subseteq Up)
                /\ Ends(s, "started") /\ UNCHANGED desired
             \/ /\ job[s] # Parts /\ desired = "running" /\ ~(job[s] \subseteq Up)
                /\ Enters(s)
                /\ UNCHANGED <<job, result, waits, desired>>
             \/ /\ job[s] = Parts /\ Up = Parts
                /\ Ends(s, "started") /\ desired' = "running"
             \/ /\ job[s] = Parts /\ Up # Parts /\ Up # {}
                /\ Ends(s, "failed") /\ UNCHANGED desired
             \/ /\ job[s] = Parts /\ Up = {}
                /\ Enters(s)
                /\ UNCHANGED <<job, result, waits, desired>>
    /\ UNCHANGED <<fileVars, dataVars, noteVars, request, run, pc, way, steady, boundVars,
                   early>>

\* What was started is stopped again when a part does not come up.
Launch(s) ==
    /\ st[s] \in {"locked", "overwritten"}
    /\ \/ /\ run' = [p \in Parts |-> IF p \in job[s] \ Up THEN tree ELSE run[p]]
          /\ desired' = IF job[s] = Parts THEN "running" ELSE desired
          /\ Ends(s, "started")
          /\ UNCHANGED fails
       \/ /\ fails < MaxFails /\ fails' = fails + 1
          /\ Ends(s, "failed")
          /\ UNCHANGED <<run, desired>>
    /\ UNCHANGED <<fileVars, dataVars, noteVars, request, pc, way, steady, moves, cuts,
                   deaths, early>>

PersonStarts ==
    /\ st["person"] = "none"
    /\ ~Refused(Parts)
    /\ Looks("person", Parts)
    /\ UNCHANGED <<fileVars, dataVars, noteVars, desired, askVars, run, pc, way, steady,
                   boundVars, early>>

-----------------------------------------------------------------------------
(***************************************************************************)
(* The watcher: one process, which waits for the start it makes.           *)
(***************************************************************************)

Missing == Parts \ Up

\* Invoke-AtdrStartRequest.
TakeRequest ==
    /\ request /\ st["watcher"] = "none"
    /\ request' = FALSE
    /\ desired' = "running"
    /\ IF Up = Parts
       THEN result' = "started" /\ UNCHANGED <<waits, startVars>>
       ELSE waits' = TRUE /\ Looks("watcher", Missing) /\ UNCHANGED result
    /\ UNCHANGED <<fileVars, dataVars, noteVars, run, pc, way, steady, boundVars, early>>

\* Invoke-AtdrWatchCheck: what stopped by itself is started; so is ATDR once
\* the time has passed that it was to stay stopped.
WatchCheck ==
    /\ st["watcher"] = "none" /\ Up # Parts
    /\ desired' = "running"
    /\ IF Refused(Missing) THEN UNCHANGED startVars ELSE Looks("watcher", Missing)
    /\ UNCHANGED <<fileVars, dataVars, noteVars, askVars, run, pc, way, steady, boundVars,
                   early>>

\* A part stops by itself, or does not answer and is ended by the watcher.
PartDies(p) ==
    /\ p \in Up
    /\ deaths < MaxDeaths /\ deaths' = deaths + 1
    /\ run' = [run EXCEPT ![p] = None]
    /\ steady' = FALSE
    /\ UNCHANGED <<fileVars, dataVars, noteVars, desired, askVars, pc, way, startVars,
                   moves, fails, cuts, early>>

\* The start it made goes on; its answer is lost.
WatcherDies ==
    /\ waits /\ waits' = FALSE
    /\ deaths < MaxDeaths /\ deaths' = deaths + 1
    /\ UNCHANGED <<fileVars, dataVars, noteVars, desired, request, result, run, pc, way,
                   steady, startVars, moves, fails, cuts, early>>

\* ATDR stores what arrives.
Store(r) ==
    /\ Own \intersect Up # {} /\ r \notin rows
    /\ rows' = rows \union {r}
    /\ early' = IF marker = NoMarker \/ (way = "go" /\ pc \in {"stop", "end"})
                THEN early \union {r} ELSE early
    /\ UNCHANGED <<fileVars, schema, noteVars, desired, askVars, run, pc, way, steady,
                   startVars, boundVars>>

-----------------------------------------------------------------------------
Release ==
    \/ Stop \/ EndParts \/ Files \/ CheckedOut \/ Environment \/ Migrate \/ Restore
    \/ Ask \/ Answered \/ Watch \/ Record \/ Unmark

Next ==
    \/ \E v \in Versions : Mark(v)
    \/ Release \/ Recover \/ StepFails \/ Cut \/ PowerOff
    \/ \E s \in Starters : Lock(s) \/ Launch(s)
    \/ PersonStarts \/ TakeRequest \/ WatchCheck \/ WatcherDies
    \/ \E p \in Parts : PartDies(p)
    \/ \E r \in Rows : Store(r)

Spec == Init /\ [][Next]_vars

\* A process that runs goes on; the watcher checks every half minute.
FairSpec ==
    /\ Spec
    /\ WF_vars(Release) /\ WF_vars(TakeRequest) /\ WF_vars(WatchCheck)
    /\ \A s \in Starters : WF_vars(Lock(s)) /\ WF_vars(Launch(s))

-----------------------------------------------------------------------------
\* Without a marker the folder is one version, the one on record: its files,
\* its environment and its database fit, and its parts run it.  However often
\* a release failed or was cut off on the way.
RestIsWhole ==
    marker = NoMarker =>
        /\ Whole(record)
        /\ \A p \in Own : run[p] \in {None, record}
FolderSound == TypeOK /\ RestIsWhole

\* What was stored before ATDR stopped for a release is in the database, or in
\* the backup that the marker names.
EarlyIsKept ==
    \A r \in early : r \in rows \/ \E b \in marker.backup : r \in b.rows

\* Nobody starts a part of ATDR from a folder between two versions: not the
\* watcher, not a person, not a machine that comes up again.
StartsWhole ==
    [][\A p \in Own : run[p] = None /\ run'[p] # None => Whole(run'[p])]_vars

\* A release ends, whatever becomes of the watcher that it asked.
ReleaseEnds == pc # "idle" ~> pc = "idle"

\* Once there is no release left to put back, everything runs again.
ComesBack == <>[](marker = NoMarker) => []<>(Up = Parts)
=============================================================================
