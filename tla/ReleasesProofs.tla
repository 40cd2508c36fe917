--------------------------- MODULE ReleasesProofs ---------------------------
(***************************************************************************)
(* Whatever fails, dies or is cut off, what ATDR stored before it stopped  *)
(* for a release is in the database or in the backup that the marker       *)
(* names: for any versions, parts and rows, any number of releases and of  *)
(* failures, and whatever of FaultKinds happens.                           *)
(*                                                                         *)
(* Without FaultKinds, a folder without a marker is the version on record, *)
(* all of it; and no part is ever started from a folder between two, even  *)
(* when releases are cut off between their record and their marker.        *)
(***************************************************************************)
EXTENDS Releases, FiniteSetTheorems, TLAPS

Environments == {EnvOf[v] : v \in Versions}
Schemas      == {SchemaOf[v] : v \in Versions}

\* A release has its marker, which names versions there are; the backup was
\* taken of a schema there is.
MarkerType ==
    /\ pc # "idle" => marker # NoMarker
    /\ marker # NoMarker =>
          /\ marker.from \in Versions /\ marker.to \in Versions
          /\ marker.env \in Environments \union {None}
          /\ \A b \in marker.backup : b.schema \in Schemas \union {None}

TypeInv == TypeOK /\ MarkerType

-----------------------------------------------------------------------------
(***************************************************************************)
(* Types.                                                                  *)
(***************************************************************************)

\* No environment, schema or version is None.
LEMMA NoneIsNone ==
    ASSUME NEW v \in Versions
    PROVE  /\ v \in Nat /\ v # None
           /\ EnvOf[v] \in Nat /\ EnvOf[v] # None /\ EnvOf[v] \in Environments
           /\ SchemaOf[v] \in Nat /\ SchemaOf[v] # None /\ SchemaOf[v] \in Schemas
  BY ReleaseAssumption DEF Environments, Schemas

\* Nor are they other than numbers.
LEMMA KindsAreNat ==
    Environments \union {None} \subseteq Nat /\ Schemas \union {None} \subseteq Nat
  BY NoneIsNone DEF Environments, Schemas, None

\* A marker that names a version is one.
LEMMA NamesVersion ==
    ASSUME NEW m, m.from \in Versions PROVE m # NoMarker
  BY NoneIsNone DEF NoMarker

\* A live copy begins with its first version, without a release.
LEMMA InitType == Init => TypeInv
<1> SUFFICES ASSUME Init PROVE TypeInv
  OBVIOUS
<1>0. First \in Versions
  BY ReleaseAssumption
<1>1. marker \in [from : Versions \union {None}, to : Versions \union {None},
                  env : Nat, backup : SUBSET Backup]
  BY DEF Init, NoMarker, None
<1>2. Cardinality(marker.backup) <= 1
  BY FS_EmptySet DEF Init, NoMarker
<1>3. run \in [Parts -> Versions \union {None, Mixed}]
  BY <1>0 DEF Init
<1>4. pc \in Pc
  BY DEF Init, Pc
<1>5. /\ moves \in 0 .. MaxMoves /\ fails \in 0 .. MaxFails
      /\ cuts \in 0 .. MaxCuts /\ deaths \in 0 .. MaxDeaths
  BY ReleaseAssumption DEF Init
<1>6. /\ st \in [Starters -> {"none", "looked", "locked", "overwritten"}]
      /\ job \in [Starters -> SUBSET Parts]
  BY DEF Init
<1>7. TypeOK
  BY <1>0, <1>1, <1>2, <1>3, <1>4, <1>5, <1>6 DEF Init, TypeOK
<1> QED
  BY <1>7 DEF Init, TypeInv, MarkerType

\* The files, the environment and the database keep their types.
LEMMA FileTypes ==
    ASSUME TypeInv, [Next]_vars
    PROVE  /\ head' \in Versions /\ tree' \in Versions \union {Mixed}
           /\ env' \in Environments \union {None}
           /\ schema' \in Schemas \union {None}
           /\ rows' \subseteq Rows /\ early' \subseteq Rows
<1>0. /\ head \in Versions /\ tree \in Versions \union {Mixed}
      /\ env \in Environments \union {None}
      /\ schema \in Schemas \union {None}
      /\ rows \subseteq Rows /\ early \subseteq Rows
      /\ \A b \in marker.backup : b.rows \subseteq Rows
  BY DEF TypeInv, TypeOK, Backup, Environments, Schemas
<1>m. pc # "idle" => /\ marker.from \in Versions /\ marker.to \in Versions
                     /\ marker.env \in Environments \union {None}
                     /\ \A b \in marker.backup : b.schema \in Schemas \union {None}
  BY DEF TypeInv, MarkerType
<1>1. CASE CheckedOut
  BY <1>0, <1>1, <1>m DEF CheckedOut, Aim, dataVars
<1>2. CASE Files
  BY <1>0, <1>2 DEF Files, dataVars
<1>3. CASE Environment
  <2>1. pc # "idle" => Wanted \in Environments \union {None}
    BY <1>m, NoneIsNone DEF Wanted
  <2> QED
    BY <1>0, <1>3, <2>1 DEF Environment, dataVars
<1>4. CASE Migrate
  <2>1. pc # "idle" => SchemaOf[marker.to] \in Schemas
    BY <1>m, NoneIsNone
  <2> QED
    BY <1>0, <1>4, <2>1 DEF Migrate, fileVars
<1>5. CASE Restore
  BY <1>0, <1>5, <1>m DEF Restore, fileVars, dataVars
<1>6. CASE Unmark
  BY <1>0, <1>6 DEF Unmark, fileVars, dataVars
<1>7. ASSUME NEW r \in Rows, Store(r)
      PROVE  rows' \subseteq Rows /\ early' \subseteq Rows /\ UNCHANGED <<fileVars, schema>>
  BY <1>0, <1>7 DEF Store
<1>8. CASE UNCHANGED <<fileVars, dataVars, early>>
  BY <1>0, <1>8 DEF fileVars, dataVars
<1>9. CASE (\E v \in Versions : Mark(v)) \/ Stop \/ EndParts \/ Ask \/ Answered \/ Watch
           \/ Record \/ Recover \/ StepFails \/ Cut \/ PowerOff
  BY <1>8, <1>9 DEF Mark, Stop, EndParts, Ask, Answered, Watch, Record, Recover, StepFails,
                    Cut, PowerOff
<1>10. CASE (\E s \in Starters : Lock(s) \/ Launch(s)) \/ PersonStarts \/ TakeRequest
            \/ WatchCheck \/ WatcherDies \/ \E p \in Parts : PartDies(p)
  BY <1>8, <1>10 DEF Lock, Launch, PersonStarts, TakeRequest, WatchCheck, WatcherDies, PartDies
<1> QED
  BY <1>0, <1>1, <1>2, <1>3, <1>4, <1>5, <1>6, <1>7, <1>8, <1>9, <1>10
  DEF Next, Release, vars, fileVars

\* What a marker may be.
MarkerKind == [from : Versions \union {None}, to : Versions \union {None},
               env : Nat, backup : SUBSET Backup]

\* The marker names versions as long as there is one, and its backup is one of
\* a schema there is; there is one as long as a release is at work.
LEMMA MarkerTypes ==
    ASSUME TypeInv, [Next]_vars
    PROVE  /\ marker' \in MarkerKind /\ Cardinality(marker'.backup) <= 1
           /\ record' \in Versions /\ previous' \in Versions \union {None}
           /\ MarkerType'
<1>0. /\ marker \in MarkerKind /\ Cardinality(marker.backup) <= 1
      /\ record \in Versions /\ previous \in Versions \union {None}
      /\ env \in Environments \union {None} /\ schema \in Schemas \union {None}
      /\ rows \subseteq Rows
  BY DEF TypeInv, TypeOK, Environments, Schemas, MarkerKind
<1>m. /\ pc # "idle" => marker # NoMarker
      /\ marker # NoMarker =>
            /\ marker.from \in Versions /\ marker.to \in Versions
            /\ marker.env \in Environments \union {None}
            /\ \A b \in marker.backup : b.schema \in Schemas \union {None}
  BY DEF TypeInv, MarkerType
<1> DEFINE Goal == /\ marker' \in MarkerKind /\ Cardinality(marker'.backup) <= 1
                   /\ record' \in Versions /\ previous' \in Versions \union {None}
                   /\ MarkerType'
<1> SUFFICES Goal
  OBVIOUS
<1>1. ASSUME NEW v \in Versions, Mark(v) PROVE Goal
  <2>1. marker' = [from |-> record, to |-> v, env |-> env, backup |-> {}]
    BY <1>1 DEF Mark, Marker
  <2>2. record' = record /\ previous' = previous
    BY <1>1 DEF Mark
  <2>3. marker' \in MarkerKind
    BY <1>0, <2>1, KindsAreNat DEF MarkerKind
  <2>4. Cardinality(marker'.backup) <= 1
    BY <2>1, FS_EmptySet
  <2>5. marker' # NoMarker
    BY <1>0, <2>1, NamesVersion
  <2>6. MarkerType'
    BY <1>0, <2>1, <2>5 DEF MarkerType
  <2> QED
    BY <1>0, <2>2, <2>3, <2>4, <2>6
<1>2. CASE /\ pc = "data"
           /\ marker' = [marker EXCEPT !.backup = {[schema |-> schema, rows |-> rows]}]
           /\ UNCHANGED <<record, previous>>
  <2>1. [schema |-> schema, rows |-> rows] \in Backup
    BY <1>0, KindsAreNat DEF Backup
  <2>2. /\ marker'.from = marker.from /\ marker'.to = marker.to /\ marker'.env = marker.env
        /\ marker'.backup = {[schema |-> schema, rows |-> rows]}
    BY <1>0, <1>2 DEF MarkerKind
  <2>3. marker' \in MarkerKind
    BY <1>0, <1>2, <2>1 DEF MarkerKind
  <2>4. Cardinality(marker'.backup) <= 1
    <3> DEFINE b == [schema |-> schema, rows |-> rows]
    <3>1. Cardinality({b}) = 1
      <4> HIDE DEF b
      <4> QED
        BY FS_Singleton
    <3> QED
      BY <2>2, <3>1
  <2>5. marker' # NoMarker
    BY <1>2, <1>m, <2>2, NamesVersion
  <2>6. \A b \in marker'.backup : b.schema \in Schemas \union {None}
    BY <1>0, <2>2
  <2>7. MarkerType'
    BY <1>2, <1>m, <2>2, <2>5, <2>6 DEF MarkerType
  <2> QED
    BY <1>0, <1>2, <2>3, <2>4, <2>7
<1>3. CASE Record
  BY <1>0, <1>m, <1>3 DEF Record, MarkerType
<1>4. CASE Unmark
  <2>1. marker' = NoMarker /\ pc' = "idle" /\ UNCHANGED <<record, previous>>
    BY <1>4 DEF Unmark
  <2>2. NoMarker \in MarkerKind
    BY DEF NoMarker, MarkerKind, None
  <2>3. Cardinality(NoMarker.backup) <= 1
    BY FS_EmptySet DEF NoMarker
  <2> QED
    BY <1>0, <2>1, <2>2, <2>3 DEF MarkerType
<1>5. CASE UNCHANGED noteVars /\ (pc' # "idle" => pc # "idle" \/ marker # NoMarker)
  BY <1>0, <1>5, <1>m DEF noteVars, MarkerType
<1>6. CASE Migrate
  <2>1. \/ /\ pc = "data"
           /\ marker' = [marker EXCEPT !.backup = {[schema |-> schema, rows |-> rows]}]
        \/ pc # "idle" /\ marker' = marker
    BY <1>6 DEF Migrate
  <2>2. UNCHANGED <<record, previous>>
    BY <1>6 DEF Migrate
  <2> QED
    BY <1>2, <1>5, <2>1, <2>2 DEF noteVars
<1>7. CASE Stop \/ EndParts \/ Files \/ CheckedOut \/ Environment \/ Restore
  BY <1>5, <1>7 DEF Stop, EndParts, Files, CheckedOut, Environment, Restore
<1>8. CASE Ask \/ Answered \/ Watch \/ Recover \/ StepFails \/ Cut \/ PowerOff
  BY <1>5, <1>8 DEF Ask, Answered, Watch, Recover, StepFails, Cut, PowerOff
<1>9. CASE (\E s \in Starters : Lock(s) \/ Launch(s)) \/ PersonStarts \/ TakeRequest
  BY <1>5, <1>9 DEF Lock, Launch, PersonStarts, TakeRequest
<1>10. CASE WatchCheck \/ WatcherDies \/ (\E p \in Parts : PartDies(p))
            \/ \E r \in Rows : Store(r)
  BY <1>5, <1>10 DEF WatchCheck, WatcherDies, PartDies, Store
<1>11. CASE UNCHANGED vars
  BY <1>5, <1>11 DEF vars
<1> QED
  BY <1>1, <1>3, <1>4, <1>6, <1>7, <1>8, <1>9, <1>10, <1>11 DEF Next, Release

\* The processes of the release, of the starts and of the watcher, and what
\* they tell each other, keep their types.
LEMMA ProcessTypes ==
    ASSUME TypeInv, [Next]_vars
    PROVE  /\ desired' \in {"running", "stopped"}
           /\ request' \in BOOLEAN /\ waits' \in BOOLEAN
           /\ result' \in {"none", "started", "failed", "left"}
           /\ run' \in [Parts -> Versions \union {None, Mixed}]
           /\ pc' \in Pc /\ way' \in {"go", "back"} /\ steady' \in BOOLEAN
           /\ st' \in [Starters -> {"none", "looked", "locked", "overwritten"}]
           /\ job' \in [Starters -> SUBSET Parts]
<1>0. /\ desired \in {"running", "stopped"}
      /\ request \in BOOLEAN /\ waits \in BOOLEAN
      /\ result \in {"none", "started", "failed", "left"}
      /\ run \in [Parts -> Versions \union {None, Mixed}]
      /\ tree \in Versions \union {Mixed}
      /\ pc \in Pc /\ way \in {"go", "back"} /\ steady \in BOOLEAN
      /\ st \in [Starters -> {"none", "looked", "locked", "overwritten"}]
      /\ job \in [Starters -> SUBSET Parts]
  BY DEF TypeInv, TypeOK
<1>1. /\ desired' \in {"running", "stopped"}
      /\ request' \in BOOLEAN /\ waits' \in BOOLEAN /\ steady' \in BOOLEAN
      /\ result' \in {"none", "started", "failed", "left"}
  <2>1. CASE \E s \in Starters : Lock(s) \/ Launch(s)
    <3>1. /\ \E s \in Starters : \E how \in {"started", "failed", "left"} :
                Ends(s, how) \/ UNCHANGED <<result, waits>>
          /\ desired' \in {desired, "running"} /\ UNCHANGED <<request, steady>>
      <4>1. CASE \E s \in Starters : Lock(s)
        BY <4>1 DEF Lock
      <4>2. CASE \E s \in Starters : Launch(s)
        BY <4>2 DEF Launch
      <4> QED
        BY <2>1, <4>1, <4>2
    <3>2. /\ result' \in {"none", "started", "failed", "left"}
          /\ waits' \in BOOLEAN
      BY <1>0, <3>1 DEF Ends
    <3> QED
      BY <1>0, <3>1, <3>2
  <2>2. CASE PersonStarts \/ TakeRequest \/ WatchCheck \/ WatcherDies
             \/ \E p \in Parts : PartDies(p)
    BY <1>0, <2>2 DEF PersonStarts, TakeRequest, WatchCheck, WatcherDies, PartDies, askVars
  <2>3. CASE (\E r \in Rows : Store(r)) \/ UNCHANGED vars
    BY <1>0, <2>3 DEF Store, vars, askVars
  <2>4. CASE Stop \/ Ask \/ Answered
    BY <1>0, <2>4 DEF Stop, Ask, Answered, askVars
  <2>5. CASE PowerOff
    BY <1>0, <2>5 DEF PowerOff
  <2>6. CASE (\E v \in Versions : Mark(v)) \/ EndParts \/ Files \/ CheckedOut \/ Environment
             \/ Migrate \/ Restore
    BY <1>0, <2>6 DEF Mark, EndParts, Files, CheckedOut, Environment, Migrate, Restore, askVars
  <2>7. CASE Watch \/ Record \/ Unmark \/ Recover \/ StepFails \/ Cut
    BY <1>0, <2>7 DEF Watch, Record, Unmark, Recover, StepFails, Cut, askVars
  <2> QED
    BY <2>1, <2>2, <2>3, <2>4, <2>5, <2>6, <2>7 DEF Next, Release
<1>2. run' \in [Parts -> Versions \union {None, Mixed}]
  <2>1. CASE EndParts
    BY <1>0, <2>1 DEF EndParts
  <2>2. CASE PowerOff
    BY <2>2 DEF PowerOff
  <2>3. ASSUME NEW s \in Starters, Launch(s)
        PROVE  run' \in [Parts -> Versions \union {None, Mixed}]
    BY <1>0, <2>3 DEF Launch
  <2>4. ASSUME NEW p \in Parts, PartDies(p)
        PROVE  run' \in [Parts -> Versions \union {None, Mixed}]
    BY <1>0, <2>4 DEF PartDies
  <2>5. CASE (\E v \in Versions : Mark(v)) \/ Stop \/ Files \/ CheckedOut \/ Environment
             \/ Migrate \/ Restore \/ Ask \/ Answered \/ Watch \/ Record \/ Unmark
    BY <1>0, <2>5 DEF Mark, Stop, Files, CheckedOut, Environment, Migrate, Restore, Ask,
                      Answered, Watch, Record, Unmark
  <2>6. CASE Recover \/ StepFails \/ Cut \/ (\E s \in Starters : Lock(s)) \/ PersonStarts
             \/ TakeRequest \/ WatchCheck \/ WatcherDies \/ (\E r \in Rows : Store(r))
             \/ UNCHANGED vars
    BY <1>0, <2>6 DEF Recover, StepFails, Cut, Lock, PersonStarts, TakeRequest, WatchCheck,
                      WatcherDies, Store, vars
  <2> QED
    BY <2>1, <2>2, <2>3, <2>4, <2>5, <2>6 DEF Next, Release
<1>3. pc' \in Pc /\ way' \in {"go", "back"}
  <2>1. CASE (\E v \in Versions : Mark(v)) \/ Stop \/ EndParts \/ Files \/ CheckedOut
             \/ Environment \/ Migrate \/ Restore
    BY <1>0, <2>1 DEF Mark, Stop, EndParts, Files, CheckedOut, Environment, Migrate, Restore,
                      GivesUp, Pc
  <2>2. CASE Ask \/ Answered \/ Watch \/ Record \/ Unmark \/ Recover \/ StepFails \/ Cut
             \/ PowerOff
    BY <1>0, <2>2 DEF Ask, Answered, Watch, Record, Unmark, Recover, StepFails, Cut, PowerOff,
                      LeftToAnother, GivesUp, Pc
  <2>3. CASE UNCHANGED <<pc, way>>
    BY <1>0, <2>3
  <2>4. CASE (\E s \in Starters : Lock(s) \/ Launch(s)) \/ PersonStarts \/ TakeRequest
             \/ WatchCheck \/ WatcherDies \/ (\E p \in Parts : PartDies(p))
             \/ (\E r \in Rows : Store(r)) \/ UNCHANGED vars
    BY <2>3, <2>4 DEF Lock, Launch, PersonStarts, TakeRequest, WatchCheck, WatcherDies,
                      PartDies, Store, vars
  <2> QED
    BY <2>1, <2>2, <2>4 DEF Next, Release
<1>4. /\ st' \in [Starters -> {"none", "looked", "locked", "overwritten"}]
      /\ job' \in [Starters -> SUBSET Parts]
  <2>1. CASE \E s \in Starters : Lock(s) \/ Launch(s)
    BY <1>0, <2>1 DEF Lock, Enters, Launch, Ends
  <2>2. CASE PersonStarts \/ TakeRequest \/ WatchCheck
    BY <1>0, <2>2 DEF PersonStarts, TakeRequest, WatchCheck, Looks, Missing, startVars
  <2>3. CASE PowerOff
    BY <2>3 DEF PowerOff
  <2>4. CASE (\E v \in Versions : Mark(v)) \/ Stop \/ EndParts \/ Files \/ CheckedOut
             \/ Environment \/ Migrate \/ Restore \/ Ask \/ Answered \/ Watch
    BY <1>0, <2>4 DEF Mark, Stop, EndParts, Files, CheckedOut, Environment, Migrate, Restore,
                      Ask, Answered, Watch, startVars
  <2>5. CASE Record \/ Unmark \/ Recover \/ StepFails \/ Cut \/ WatcherDies
             \/ (\E p \in Parts : PartDies(p)) \/ (\E r \in Rows : Store(r))
             \/ UNCHANGED vars
    BY <1>0, <2>5 DEF Record, Unmark, Recover, StepFails, Cut, WatcherDies, PartDies, Store,
                      vars, startVars
  <2> QED
    BY <2>1, <2>2, <2>3, <2>4, <2>5 DEF Next, Release
<1> QED
  BY <1>1, <1>2, <1>3, <1>4

\* No bound is passed.
LEMMA BoundTypes ==
    ASSUME TypeInv, [Next]_vars
    PROVE  /\ moves' \in 0 .. MaxMoves /\ fails' \in 0 .. MaxFails
           /\ cuts' \in 0 .. MaxCuts /\ deaths' \in 0 .. MaxDeaths
<1>0. /\ moves \in 0 .. MaxMoves /\ fails \in 0 .. MaxFails
      /\ cuts \in 0 .. MaxCuts /\ deaths \in 0 .. MaxDeaths
  BY DEF TypeInv, TypeOK
<1>1. CASE UNCHANGED boundVars
  BY <1>0, <1>1 DEF boundVars
<1>2. CASE (\E v \in Versions : Mark(v)) \/ EndParts \/ StepFails \/ Cut \/ PowerOff
  BY <1>0, <1>2, ReleaseAssumption DEF Mark, EndParts, StepFails, Cut, PowerOff, MayBeCut
<1>3. CASE (\E s \in Starters : Launch(s)) \/ WatcherDies \/ \E p \in Parts : PartDies(p)
  BY <1>0, <1>3, ReleaseAssumption DEF Launch, WatcherDies, PartDies
<1>4. CASE Stop \/ Files \/ CheckedOut \/ Environment \/ Migrate \/ Restore \/ Ask \/ Answered
  BY <1>1, <1>4 DEF Stop, Files, CheckedOut, Environment, Migrate, Restore, Ask, Answered
<1>5. CASE Watch \/ Record \/ Unmark \/ Recover \/ (\E s \in Starters : Lock(s)) \/ PersonStarts
           \/ TakeRequest \/ WatchCheck \/ (\E r \in Rows : Store(r)) \/ UNCHANGED vars
  BY <1>1, <1>5 DEF Watch, Record, Unmark, Recover, Lock, PersonStarts, TakeRequest, WatchCheck,
                    Store, vars
<1> QED
  BY <1>2, <1>3, <1>4, <1>5 DEF Next, Release

\* The state keeps its type, whatever fails, dies or is cut off.
THEOREM TypeCorrect == Spec => []TypeInv
<1>1. TypeInv /\ [Next]_vars => TypeInv'
  BY FileTypes, MarkerTypes, ProcessTypes, BoundTypes
  DEF TypeInv, TypeOK, MarkerKind, Environments, Schemas
<1> QED
  BY <1>1, InitType, PTL DEF Spec

-----------------------------------------------------------------------------
(***************************************************************************)
(* What was stored before the release is kept.                             *)
(***************************************************************************)

\* It is in the database as long as the marker names no backup, and then in the
\* backup, whatever becomes of the database.  Until the way forth takes one,
\* there is none.
EarlyInv ==
    /\ marker.backup = {} => early \subseteq rows
    /\ \A b \in marker.backup : early \subseteq b.rows
    /\ way = "go" /\ pc \in {"stop", "end", "files", "checkout", "env", "link", "data"} =>
          marker.backup = {}

LEMMA EarlyStep ==
    ASSUME TypeInv, EarlyInv, [Next]_vars PROVE EarlyInv'
<1>0. /\ marker \in MarkerKind /\ way \in {"go", "back"}
      /\ pc # "idle" => marker # NoMarker
  BY DEF TypeInv, TypeOK, MarkerType, MarkerKind
<1>n. NoMarker.backup = {}
  BY DEF NoMarker
<1>1. CASE /\ UNCHANGED <<marker, rows, early>>
           /\ /\ way' = "go"
              /\ pc' \in {"stop", "end", "files", "checkout", "env", "link", "data"}
              => marker.backup = {}
  BY <1>1 DEF EarlyInv
<1>2. ASSUME NEW v \in Versions, Mark(v) PROVE EarlyInv'
  <2>1. marker'.backup = {} /\ marker.backup = {} /\ UNCHANGED <<rows, early>>
    BY <1>2, <1>n DEF Mark, Marker, dataVars
  <2> QED
    BY <2>1 DEF EarlyInv
<1>3. CASE Stop \/ EndParts \/ Files \/ CheckedOut \/ Environment
  BY <1>1, <1>3 DEF Stop, EndParts, Files, CheckedOut, Environment, GivesUp, EarlyInv, dataVars,
                    noteVars
<1>4. CASE Migrate
  <2>1. CASE /\ pc = "data" /\ way = "go" /\ pc' = "upgrade"
             /\ marker' = [marker EXCEPT !.backup = {[schema |-> schema, rows |-> rows]}]
    <3>1. marker'.backup = {[schema |-> schema, rows |-> rows]}
      BY <1>0, <2>1 DEF MarkerKind
    <3>2. early \subseteq rows
      BY <2>1 DEF EarlyInv
    <3>3. UNCHANGED <<rows, early>>
      BY <1>4 DEF Migrate
    <3> QED
      BY <2>1, <3>1, <3>2, <3>3 DEF EarlyInv
  <2>2. CASE UNCHANGED marker /\ pc' \in {"ask", "upgrading"}
    BY <1>1, <1>4, <2>2 DEF Migrate
  <2> QED
    BY <1>4, <2>1, <2>2 DEF Migrate
<1>5. CASE Restore
  <2>1. UNCHANGED <<marker, early>> /\ pc' \in {"ask", "copy"}
    BY <1>5 DEF Restore, noteVars
  <2>2. marker.backup = {} => rows' = rows
    BY <1>5 DEF Restore, dataVars
  <2> QED
    BY <2>1, <2>2 DEF EarlyInv
<1>6. CASE Ask \/ Answered \/ Watch \/ Recover \/ StepFails \/ Cut \/ PowerOff
  BY <1>1, <1>6 DEF Ask, Answered, Watch, Recover, StepFails, Cut, PowerOff, LeftToAnother, GivesUp,
                    dataVars, noteVars
<1>7. CASE Record
  BY <1>7 DEF Record, EarlyInv, dataVars
<1>8. CASE Unmark
  <2>1. marker'.backup = {} /\ early' = rows /\ rows' = rows /\ pc' = "idle"
    BY <1>8, <1>n DEF Unmark, dataVars
  <2> QED
    BY <2>1 DEF EarlyInv
<1>9. ASSUME NEW r \in Rows, Store(r) PROVE EarlyInv'
  <2>1. UNCHANGED <<marker, pc, way>> /\ rows' = rows \union {r}
    BY <1>9 DEF Store, noteVars
  <2>2. CASE marker = NoMarker \/ (way = "go" /\ pc \in {"stop", "end"})
    <3>1. marker.backup = {}
      BY <1>n, <2>2 DEF EarlyInv
    <3>2. early' = early \union {r}
      BY <1>9, <2>2 DEF Store
    <3> QED
      BY <2>1, <3>1, <3>2 DEF EarlyInv
  <2>3. CASE ~(marker = NoMarker \/ (way = "go" /\ pc \in {"stop", "end"}))
    <3>1. early' = early
      BY <1>9, <2>3 DEF Store
    <3> QED
      BY <2>1, <3>1 DEF EarlyInv
  <2> QED
    BY <2>2, <2>3
<1>10. CASE (\E s \in Starters : Lock(s) \/ Launch(s)) \/ PersonStarts \/ TakeRequest
            \/ WatchCheck \/ WatcherDies \/ (\E p \in Parts : PartDies(p)) \/ UNCHANGED vars
  <2>1. UNCHANGED <<marker, rows, early, pc, way>>
    BY <1>10 DEF Lock, Launch, PersonStarts, TakeRequest, WatchCheck, WatcherDies, PartDies, vars,
                 dataVars, noteVars
  <2> QED
    BY <1>1, <2>1 DEF EarlyInv
<1> QED
  BY <1>2, <1>3, <1>4, <1>5, <1>6, <1>7, <1>8, <1>9, <1>10 DEF Next, Release

\* Who may hold a row that was stored before ATDR stopped: before the data step
\* of a release the database, from then on it or the backup.
THEOREM EarlyHeld == Spec => []EarlyInv
<1>1. Init => EarlyInv
  BY DEF Init, EarlyInv, NoMarker
<1>2. TypeInv /\ EarlyInv /\ [Next]_vars => EarlyInv'
  BY EarlyStep
<1> QED
  BY <1>1, <1>2, TypeCorrect, PTL DEF Spec

\* What was stored before a release stopped ATDR is in the database or in the
\* backup that the marker names, whatever fails or is cut off in whatever
\* release, and whatever of FaultKinds happens.
THEOREM EarlyStays == Spec => []EarlyIsKept
<1>1. EarlyInv => EarlyIsKept
  BY DEF EarlyInv, EarlyIsKept
<1> QED
  BY <1>1, EarlyHeld, PTL

-----------------------------------------------------------------------------
(***************************************************************************)
(* The folder between two versions, and nothing started from it.           *)
(***************************************************************************)

\* No checkout is cut off, no start slips past a stop, and a release is put
\* back only when no request of it is left; its end may still be cut off.
Orderly == Faults \subseteq {"half_record"}

\* The steps of a release that begin with its start, those after the
\* environment, and those after the files.
StartSteps == {"ask", "wait", "watch", "record", "unmark"}
DataSteps  == {"data", "upgrade", "upgrading", "copy"} \union StartSteps
EnvSteps   == {"env", "link"} \union DataSteps

\* The way back is to a version that was whole: the marker has its environment
\* and, once the database may differ, a backup of its schema.
WayBackKept ==
    marker # NoMarker =>
        /\ marker.env = EnvOf[marker.from]
        /\ \A b \in marker.backup : b.schema = SchemaOf[marker.from]
        /\ marker.backup = {} => schema = SchemaOf[marker.from]

\* What the steps before this one have changed.
StepsDone ==
    /\ pc \in EnvSteps => head = Aim
    /\ pc \in DataSteps => env = Wanted
    /\ pc \in StartSteps => schema = SchemaOf[Aim]
    /\ pc \in {"upgrade", "upgrading", "record"} => way = "go"
    /\ pc \in {"upgrade", "upgrading"} => marker.backup # {}
    /\ pc = "copy" => way = "back"
    /\ pc # "checkout" => tree = head

\* The folder of no release is whole; the version on record is the one it is
\* put back to, until the new one is on record.
AtRest == marker = NoMarker => Whole(head)
OnRecord ==
    "half_record" \notin Faults =>
        IF marker = NoMarker THEN record = head
        ELSE record = IF pc = "unmark" /\ way = "go" THEN marker.to ELSE marker.from

FolderInv == WayBackKept /\ StepsDone /\ AtRest /\ OnRecord

\* What a start or the watcher does, and what is stored, is no step of a
\* release.
Aside ==
    \/ \E s \in Starters : Lock(s) \/ Launch(s)
    \/ PersonStarts \/ TakeRequest \/ WatchCheck \/ WatcherDies
    \/ \E p \in Parts : PartDies(p)
    \/ \E r \in Rows : Store(r)
    \/ UNCHANGED vars

LEMMA AsideLeaves ==
    ASSUME Aside PROVE UNCHANGED <<head, tree, env, schema, marker, record, pc, way>>
<1>1. CASE (\E s \in Starters : Lock(s) \/ Launch(s)) \/ PersonStarts \/ TakeRequest
  BY <1>1 DEF Lock, Launch, PersonStarts, TakeRequest, fileVars, dataVars, noteVars
<1>2. CASE WatchCheck \/ WatcherDies \/ (\E p \in Parts : PartDies(p))
  BY <1>2 DEF WatchCheck, WatcherDies, PartDies, fileVars, dataVars, noteVars
<1>3. CASE (\E r \in Rows : Store(r)) \/ UNCHANGED vars
  BY <1>3 DEF Store, vars, fileVars, dataVars, noteVars
<1> QED
  BY <1>1, <1>2, <1>3 DEF Aside

\* A release that raises turns back, or leaves its marker.
LEMMA TurnsBack ==
    ASSUME GivesUp PROVE (pc' = "stop" /\ way' = "back") \/ (pc' = "idle" /\ way' = way)
  BY DEF GivesUp

\* A step that changes nothing in the folder and has no step of the release
\* behind it keeps what is there, unless a checkout is cut off or a release
\* between its record and its marker.
LEMMA StopsThere ==
    ASSUME FolderInv, pc # "checkout",
           "half_record" \notin Faults => ~(pc = "unmark" /\ way = "go"),
           UNCHANGED <<head, tree, env, schema, marker, record>>,
           pc' \in {"idle", "stop", "end", "files"}
    PROVE  FolderInv'
<1>1. WayBackKept' /\ AtRest'
  BY DEF FolderInv, WayBackKept, AtRest, Whole
<1>2. StepsDone'
  BY DEF FolderInv, StepsDone, StartSteps, DataSteps, EnvSteps
<1>3. OnRecord'
  BY DEF FolderInv, OnRecord
<1> QED
  BY <1>1, <1>2, <1>3 DEF FolderInv

\* A step forth keeps the rest: the way it goes and the versions of its marker.
LEMMA GoesOn ==
    ASSUME FolderInv, pc # "idle", marker # NoMarker, marker' # NoMarker,
           marker'.from = marker.from, marker'.to = marker.to, marker'.env = marker.env,
           way' = way, record' = record, pc # "unmark", ~(pc' = "unmark" /\ way = "go")
    PROVE  AtRest' /\ OnRecord' /\ Aim' = Aim /\ Wanted' = Wanted
  BY DEF FolderInv, AtRest, OnRecord, Aim, Wanted

LEMMA FolderStep ==
    ASSUME Orderly, TypeInv, EarlyInv, FolderInv, [Next]_vars PROVE FolderInv'
<1>0. /\ marker \in MarkerKind /\ way \in {"go", "back"}
      /\ pc # "idle" => marker # NoMarker
      /\ marker # NoMarker => marker.from \in Versions /\ marker.to \in Versions
      /\ record \in Versions
  BY DEF TypeInv, TypeOK, MarkerType, MarkerKind
<1>f. "half_checkout" \notin Faults
  BY DEF Orderly
<1>i. WayBackKept /\ StepsDone /\ AtRest /\ OnRecord
  BY DEF FolderInv
<1>1. CASE Aside
  BY <1>1, <1>i, AsideLeaves
  DEF FolderInv, WayBackKept, StepsDone, AtRest, OnRecord, Whole, Aim, Wanted
<1>2. ASSUME NEW v \in Versions, Mark(v) PROVE FolderInv'
  <2>1. /\ marker = NoMarker /\ UNCHANGED <<head, tree, env, schema, record>>
        /\ head = record /\ pc' = "stop"
        /\ marker' = [from |-> record, to |-> v, env |-> env, backup |-> {}]
    BY <1>2 DEF Mark, Marker, fileVars, dataVars
  <2>2. marker' # NoMarker /\ marker'.from = record /\ marker'.env = env /\ marker'.backup = {}
    BY <1>0, <2>1, NamesVersion
  <2>3. Whole(head)
    BY <1>i, <2>1 DEF AtRest
  <2>4. WayBackKept'
    BY <2>1, <2>2, <2>3 DEF WayBackKept, Whole
  <2>5. StepsDone'
    BY <2>1, <2>3 DEF StepsDone, StartSteps, DataSteps, EnvSteps, Whole
  <2>6. AtRest' /\ OnRecord'
    BY <2>1, <2>2 DEF AtRest, OnRecord
  <2> QED
    BY <2>4, <2>5, <2>6 DEF FolderInv
<1>3. CASE Stop \/ EndParts \/ Recover
  <2>1. UNCHANGED <<head, tree, env, schema, marker, record>> /\ pc \in {"stop", "end", "idle"}
    BY <1>3 DEF Stop, EndParts, Recover, fileVars, dataVars, noteVars
  <2>2. pc' \in {"idle", "stop", "end", "files"}
    BY <1>3, TurnsBack DEF Stop, EndParts, Recover
  <2> QED
    BY <2>1, <2>2, StopsThere
<1>4. CASE StepFails \/ Cut \/ PowerOff
  <2>1. UNCHANGED <<head, tree, env, schema, marker, record>>
    BY <1>4 DEF StepFails, Cut, PowerOff, fileVars, dataVars, noteVars
  <2>2. pc' \in {"idle", "stop"}
    BY <1>4, TurnsBack DEF StepFails, Cut, PowerOff
  <2>3. pc # "checkout" /\ ("half_record" \notin Faults => ~(pc = "unmark" /\ way = "go"))
    BY <1>4, <1>f DEF StepFails, Cut, PowerOff, MayBeCut
  <2> QED
    BY <2>1, <2>2, <2>3, StopsThere
<1>5. CASE Files
  <2>1. /\ pc = "files" /\ UNCHANGED <<head, env, schema, marker, record, way>>
        /\ \/ head = Aim /\ pc' = "env" /\ tree' = tree
           \/ pc' = "checkout"
    BY <1>5 DEF Files, dataVars, noteVars
  <2>2. AtRest' /\ OnRecord' /\ Aim' = Aim /\ Wanted' = Wanted
    BY <1>0, <2>1, GoesOn
  <2>3. WayBackKept'
    BY <1>i, <2>1 DEF WayBackKept
  <2>4. StepsDone'
    BY <1>i, <2>1, <2>2 DEF StepsDone, StartSteps, DataSteps, EnvSteps
  <2> QED
    BY <2>2, <2>3, <2>4 DEF FolderInv
<1>6. CASE CheckedOut
  <2>1. /\ pc = "checkout" /\ UNCHANGED <<env, schema, marker, record, way>>
        /\ head' = Aim /\ tree' = Aim /\ pc' = "env"
    BY <1>6 DEF CheckedOut, dataVars, noteVars
  <2>2. AtRest' /\ OnRecord' /\ Aim' = Aim /\ Wanted' = Wanted
    BY <1>0, <2>1, GoesOn
  <2>3. WayBackKept'
    BY <1>i, <2>1 DEF WayBackKept
  <2>4. StepsDone'
    BY <2>1, <2>2 DEF StepsDone, StartSteps, DataSteps, EnvSteps
  <2> QED
    BY <2>2, <2>3, <2>4 DEF FolderInv
<1>7. CASE Environment
  <2>1. /\ pc \in {"env", "link"} /\ UNCHANGED <<head, tree, schema, marker, record, way>>
        /\ pc' = "link" \/ (pc' = "data" /\ env' = Wanted)
    BY <1>7 DEF Environment, dataVars, noteVars
  <2>2. AtRest' /\ OnRecord' /\ Aim' = Aim /\ Wanted' = Wanted
    BY <1>0, <2>1, GoesOn
  <2>3. WayBackKept'
    BY <1>i, <2>1 DEF WayBackKept
  <2>4. StepsDone'
    BY <1>i, <2>1, <2>2 DEF StepsDone, StartSteps, DataSteps, EnvSteps
  <2> QED
    BY <2>2, <2>3, <2>4 DEF FolderInv
<1>8. CASE Migrate
  <2>1. /\ UNCHANGED <<head, tree, env, record, way>> /\ pc \in {"data", "upgrade", "upgrading"}
        /\ way = "go"
    BY <1>8, <1>i DEF Migrate, fileVars, StepsDone
  <2>2. head = Aim /\ env = Wanted /\ tree = head /\ Aim = marker.to
    BY <1>i, <2>1 DEF StepsDone, EnvSteps, DataSteps, Aim
  <2>3. CASE pc = "data" /\ schema = SchemaOf[marker.to]
    <3>1. marker' = marker /\ schema' = schema /\ pc' = "ask"
      BY <1>8, <2>3 DEF Migrate
    <3>2. AtRest' /\ OnRecord' /\ Aim' = Aim /\ Wanted' = Wanted
      BY <1>0, <2>1, <3>1, GoesOn
    <3>3. StepsDone'
      BY <2>1, <2>2, <2>3, <3>1, <3>2 DEF StepsDone, StartSteps, DataSteps, EnvSteps
    <3>4. WayBackKept'
      BY <1>i, <3>1 DEF WayBackKept
    <3> QED
      BY <3>2, <3>3, <3>4 DEF FolderInv
  <2>4. CASE pc = "data" /\ schema # SchemaOf[marker.to]
    <3>1. /\ marker' = [marker EXCEPT !.backup = {[schema |-> schema, rows |-> rows]}]
          /\ schema' = schema /\ pc' = "upgrade"
      BY <1>8, <2>4 DEF Migrate
    <3>2. /\ marker'.from = marker.from /\ marker'.to = marker.to /\ marker'.env = marker.env
          /\ marker'.backup = {[schema |-> schema, rows |-> rows]}
      BY <1>0, <3>1 DEF MarkerKind
    <3>3. marker' # NoMarker
      BY <1>0, <2>1, <3>2, NamesVersion
    <3>4. AtRest' /\ OnRecord' /\ Aim' = Aim /\ Wanted' = Wanted
      BY <1>0, <2>1, <3>1, <3>2, <3>3, GoesOn
    <3>5. StepsDone'
      BY <2>1, <2>2, <3>1, <3>2, <3>4 DEF StepsDone, StartSteps, DataSteps, EnvSteps
    <3>6. schema = SchemaOf[marker.from]
      BY <1>0, <1>i, <2>1, <2>4 DEF EarlyInv, WayBackKept
    <3>7. WayBackKept'
      <4>1. \A b \in marker'.backup : b.schema = SchemaOf[marker'.from]
        BY <3>2, <3>6
      <4>2. marker'.env = EnvOf[marker'.from]
        BY <1>0, <1>i, <2>1, <3>2 DEF WayBackKept
      <4>3. marker'.backup # {}
        BY <3>2
      <4> QED
        BY <4>1, <4>2, <4>3 DEF WayBackKept
    <3> QED
      BY <3>4, <3>5, <3>7 DEF FolderInv
  <2>5. CASE pc \in {"upgrade", "upgrading"}
    <3>1. /\ marker' = marker
          /\ pc' = "upgrading" \/ (pc' = "ask" /\ schema' = SchemaOf[marker.to])
      BY <1>8, <2>5 DEF Migrate
    <3>2. marker.backup # {}
      BY <1>i, <2>5 DEF StepsDone
    <3>3. AtRest' /\ OnRecord' /\ Aim' = Aim /\ Wanted' = Wanted
      BY <1>0, <2>1, <3>1, GoesOn
    <3>4. StepsDone'
      BY <2>1, <2>2, <3>1, <3>2, <3>3 DEF StepsDone, StartSteps, DataSteps, EnvSteps
    <3>5. WayBackKept'
      BY <1>i, <3>1, <3>2 DEF WayBackKept
    <3> QED
      BY <3>3, <3>4, <3>5 DEF FolderInv
  <2> QED
    BY <2>1, <2>3, <2>4, <2>5
<1>9. CASE Restore
  <2>1. /\ UNCHANGED <<head, tree, env, marker, record, way>>
        /\ pc \in {"data", "copy"} /\ way = "back" /\ pc' \in {"ask", "copy"}
    BY <1>9, <1>i DEF Restore, fileVars, noteVars, StepsDone
  <2>2. head = Aim /\ env = Wanted /\ tree = head /\ Aim = marker.from
    BY <1>i, <2>1 DEF StepsDone, EnvSteps, DataSteps, Aim
  <2>3. AtRest' /\ OnRecord' /\ Aim' = Aim /\ Wanted' = Wanted
    BY <1>0, <2>1, GoesOn
  <2>4. /\ pc' = "ask" => schema' = SchemaOf[marker.from]
        /\ marker.backup = {} => schema' = schema
    BY <1>0, <1>9, <1>i, <2>1 DEF Restore, WayBackKept, dataVars
  <2>5. StepsDone'
    BY <2>1, <2>2, <2>3, <2>4 DEF StepsDone, StartSteps, DataSteps, EnvSteps
  <2>6. WayBackKept'
    BY <1>i, <2>1, <2>4 DEF WayBackKept
  <2> QED
    BY <2>3, <2>5, <2>6 DEF FolderInv
<1>10. CASE Ask \/ Answered \/ Watch
  <2>1. /\ UNCHANGED <<head, tree, env, schema, marker, record>>
        /\ pc \in {"ask", "wait", "watch"}
        /\ \/ pc' \in {"idle", "stop"}
           \/ way' = way /\ pc' \in {"wait", "watch"}
           \/ way' = way /\ pc' = IF way = "go" THEN "record" ELSE "unmark"
    BY <1>10, TurnsBack DEF Ask, Answered, LeftToAnother, Watch, fileVars, dataVars, noteVars
  <2>2. CASE pc' \in {"idle", "stop"}
    BY <2>1, <2>2, StopsThere
  <2>3. CASE /\ way' = way /\ pc' \in {"wait", "watch", "record", "unmark"}
             /\ pc' = "record" => way = "go"
             /\ pc' = "unmark" => way # "go"
    <3>1. AtRest' /\ OnRecord' /\ Aim' = Aim /\ Wanted' = Wanted
      BY <1>0, <2>1, <2>3, GoesOn
    <3>2. StepsDone'
      BY <1>i, <2>1, <2>3, <3>1 DEF StepsDone, StartSteps, DataSteps, EnvSteps
    <3>3. WayBackKept'
      BY <1>i, <2>1 DEF WayBackKept
    <3> QED
      BY <3>1, <3>2, <3>3 DEF FolderInv
  <2> QED
    BY <2>1, <2>2, <2>3
<1>11. CASE Record
  <2>1. /\ UNCHANGED <<head, tree, env, schema, marker, way>> /\ pc = "record" /\ way = "go"
        /\ record' = marker.to /\ pc' = "unmark"
    BY <1>11, <1>i DEF Record, fileVars, dataVars, StepsDone
  <2>2. Aim' = Aim /\ Wanted' = Wanted
    BY <2>1 DEF Aim, Wanted
  <2>3. StepsDone'
    BY <1>i, <2>1, <2>2 DEF StepsDone, StartSteps, DataSteps, EnvSteps
  <2>4. WayBackKept' /\ AtRest' /\ OnRecord'
    BY <1>0, <1>i, <2>1 DEF WayBackKept, AtRest, OnRecord
  <2> QED
    BY <2>3, <2>4 DEF FolderInv
<1>12. CASE Unmark
  <2>1. /\ UNCHANGED <<head, tree, env, schema, record>> /\ pc = "unmark" /\ marker # NoMarker
        /\ marker' = NoMarker /\ pc' = "idle"
    BY <1>0, <1>12 DEF Unmark, fileVars, dataVars
  <2>2. head = Aim /\ env = Wanted /\ schema = SchemaOf[Aim] /\ tree = head
    BY <1>i, <2>1 DEF StepsDone, EnvSteps, DataSteps, StartSteps
  <2>3. Wanted = EnvOf[Aim]
    BY <1>0, <1>i, <2>1 DEF WayBackKept, Aim, Wanted
  <2>4. Whole(head)
    BY <2>2, <2>3 DEF Whole
  <2>5. "half_record" \notin Faults => record = Aim
    BY <1>0, <1>i, <2>1 DEF OnRecord, Aim
  <2>6. AtRest' /\ OnRecord'
    BY <2>1, <2>2, <2>4, <2>5 DEF AtRest, OnRecord, Whole
  <2>7. WayBackKept' /\ StepsDone'
    BY <2>1, <2>2 DEF WayBackKept, StepsDone, StartSteps, DataSteps, EnvSteps
  <2> QED
    BY <2>6, <2>7 DEF FolderInv
<1> QED
  BY <1>1, <1>2, <1>3, <1>4, <1>5, <1>6, <1>7, <1>8, <1>9, <1>10, <1>11, <1>12
  DEF Next, Release, Aside

-----------------------------------------------------------------------------
(***************************************************************************)
(* What starts, starts from a whole folder.                                *)
(***************************************************************************)

\* The steps of a release at which it changes the folder, or is about to.
ChangeSteps == {"files", "checkout", "env", "link", "data", "upgrade", "upgrading", "copy",
                "ask"}

\* No start is under way or asked for at these steps.  What a release asked for
\* is taken while it waits, or lies there when it was cut off, with a watcher
\* that is at no other request.  No start has taken another one's lock.
Quiet ==
    /\ pc \in ChangeSteps => ~request /\ \A s \in Starters : st[s] = "none"
    /\ \A s \in Starters : st[s] # "overwritten"
    /\ request => /\ marker # NoMarker /\ pc \in {"idle", "wait"} /\ ~waits
                  /\ pc = "wait" => NoAnswer

\* Who starts, or is asked to, finds a whole folder.
FindsWhole == (request \/ \E s \in Starters : st[s] # "none") => Whole(head)

\* A part runs the version HEAD names, and none runs when HEAD is to move.
RunsHead ==
    /\ \A p \in Own : run[p] \in {None, head}
    /\ pc = "checkout" \/ (pc = "files" /\ head # Aim) => \A p \in Own : run[p] = None

StartInv == Quiet /\ FindsWhole /\ RunsHead

\* A step that changes the folder and starts nothing.
LEMMA NothingStarts ==
    ASSUME StartInv, pc \in ChangeSteps, UNCHANGED <<request, st>>,
           RunsHead'
    PROVE  StartInv'
  BY DEF StartInv, Quiet, FindsWhole

\* A step that leaves the folder, and after which the release is at none of
\* these steps.
LEMMA FolderStays ==
    ASSUME StartInv, UNCHANGED <<head, tree, env, schema, marker, run, request, waits, st>>,
           pc' \notin ChangeSteps, request => pc' = "idle"
    PROVE  StartInv'
<1>1. Quiet'
  BY DEF StartInv, Quiet
<1>2. FindsWhole'
  BY DEF StartInv, FindsWhole, Whole
<1>3. RunsHead'
  BY DEF StartInv, RunsHead, ChangeSteps
<1> QED
  BY <1>1, <1>2, <1>3 DEF StartInv

\* A step aside from the release, which asks for nothing and starts no part
\* but from a whole folder.
LEMMA AsideStarts ==
    ASSUME TypeInv, StartInv,
           UNCHANGED <<head, tree, env, schema, marker, pc, way>>,
           request' => request /\ UNCHANGED <<waits, result>>,
           (\E s \in Starters : st'[s] # "none") =>
              \/ marker = NoMarker /\ Whole(head)
              \/ request \/ \E s \in Starters : st[s] # "none",
           \A s \in Starters : pc \in ChangeSteps => st'[s] = "none",
           \A s \in Starters : st'[s] # "overwritten",
           \A p \in Own : run'[p] \in {None, run[p]}
                          \/ (run'[p] = head /\ pc \notin ChangeSteps)
    PROVE  StartInv'
<1>1. Quiet'
  BY DEF StartInv, Quiet, NoAnswer
<1>2. FindsWhole'
  BY DEF StartInv, FindsWhole, Whole
<1>3. RunsHead'
  BY DEF StartInv, RunsHead, ChangeSteps, Aim
<1> QED
  BY <1>1, <1>2, <1>3 DEF StartInv

\* The parts a start launches run HEAD, and the folder is all of it.
LEMMA LaunchesHead ==
    ASSUME Orderly, TypeInv, FolderInv, StartInv, NEW s \in Starters, Launch(s)
    PROVE  /\ Whole(head) /\ tree = head /\ pc \notin ChangeSteps
           /\ \A p \in Own : run'[p] \in {run[p], head}
<1>1. st[s] # "none"
  BY DEF Launch
<1>2. Whole(head) /\ pc \notin ChangeSteps
  BY <1>1 DEF StartInv, Quiet, FindsWhole
<1>3. tree = head
  BY <1>2 DEF Whole
<1>4. \A p \in Own : run'[p] \in {run[p], head}
  <2>1. Own \subseteq Parts /\ run \in [Parts -> Versions \union {None, Mixed}]
    BY DEF Parts, TypeInv, TypeOK
  <2> QED
    BY <1>3, <2>1 DEF Launch
<1> QED
  BY <1>2, <1>3, <1>4

LEMMA StartStep ==
    ASSUME Orderly, TypeInv, FolderInv, StartInv, [Next]_vars PROVE StartInv'
<1>0. /\ pc # "idle" => marker # NoMarker
      /\ st \in [Starters -> {"none", "looked", "locked", "overwritten"}]
      /\ run \in [Parts -> Versions \union {None, Mixed}]
      /\ request \in BOOLEAN /\ way \in {"go", "back"} /\ pc \in Pc
  BY DEF TypeInv, TypeOK, MarkerType
<1>i. Quiet /\ FindsWhole /\ RunsHead
  BY DEF StartInv
<1>w. marker = NoMarker => Whole(head)
  BY DEF FolderInv, AtRest
<1>f. /\ "late_lock" \notin Faults /\ "slow_start" \notin Faults
      /\ "stale_request" \notin Faults /\ "two_starts" \notin Faults
  BY DEF Orderly
<1>o. Own \subseteq Parts
  BY DEF Parts
<1>1. ASSUME NEW v \in Versions, Mark(v) PROVE StartInv'
  <2>1. /\ UNCHANGED <<head, tree, env, schema, run, request, st>> /\ marker = NoMarker
        /\ pc' = "stop"
    BY <1>1 DEF Mark, fileVars, dataVars, askVars, startVars
  <2>2. ~request
    BY <1>i, <2>1 DEF Quiet
  <2>3. Quiet' /\ FindsWhole' /\ RunsHead'
    BY <1>i, <2>1, <2>2 DEF Quiet, FindsWhole, RunsHead, Whole, ChangeSteps
  <2> QED
    BY <2>3 DEF StartInv
<1>2. CASE Stop \/ Record \/ Watch
  <2>1. /\ UNCHANGED <<head, tree, env, schema, marker, run, request, waits, st>>
        /\ pc \in {"stop", "record", "watch"}
        /\ pc' \in {"idle", "end", "stop", "unmark", "record"}
    BY <1>2, TurnsBack
    DEF Stop, Record, Watch, fileVars, dataVars, noteVars, askVars, startVars
  <2>2. ~request
    BY <1>i, <2>1 DEF Quiet
  <2> QED
    BY <2>1, <2>2, FolderStays DEF ChangeSteps
<1>3. CASE EndParts
  <2>1. /\ UNCHANGED <<head, tree, env, schema, marker, request, st>> /\ pc = "end"
        /\ \A s \in Starters : st[s] = "none"
    BY <1>0, <1>3, <1>f, <1>i DEF EndParts, Quiet, fileVars, dataVars, noteVars, askVars,
                                  startVars
  <2>2. ~request
    BY <1>i, <2>1 DEF Quiet
  <2>3. PICK stuck \in SUBSET (Own \intersect Up) :
           /\ run' = [p \in Parts |-> IF p \in Own \ stuck THEN None ELSE run[p]]
           /\ IF stuck = {} \/ (way = "back" /\ Untouched)
              THEN pc' = "files" /\ UNCHANGED way
              ELSE GivesUp
    BY <1>3 DEF EndParts
  <2>4. \A p \in Own : run'[p] \in {None, run[p]} /\ (stuck = {} => run'[p] = None)
    BY <1>o, <2>3
  <2>5. pc' = "files" \/ pc' \in {"idle", "stop"}
    BY <2>3, TurnsBack
  <2>6. pc' = "files" /\ head # Aim' => stuck = {}
    BY <2>1, <2>3, TurnsBack DEF Untouched, Aim
  <2>7. RunsHead'
    BY <1>i, <2>1, <2>4, <2>5, <2>6 DEF RunsHead
  <2>8. Quiet' /\ FindsWhole'
    BY <2>1, <2>2 DEF Quiet, FindsWhole
  <2> QED
    BY <2>7, <2>8 DEF StartInv
<1>4. CASE Files
  <2>1. /\ pc = "files" /\ UNCHANGED <<head, run, request, st, marker, way>>
        /\ \/ pc' = "env"
           \/ head # Aim /\ pc' = "checkout"
    BY <1>4 DEF Files, dataVars, noteVars, askVars, startVars
  <2>2. RunsHead'
    BY <1>i, <2>1 DEF RunsHead
  <2> QED
    BY <2>1, <2>2, NothingStarts DEF ChangeSteps
<1>5. CASE CheckedOut
  <2>1. pc = "checkout" /\ pc' = "env" /\ UNCHANGED <<run, request, st>>
    BY <1>5 DEF CheckedOut, askVars, startVars
  <2>2. RunsHead'
    BY <1>i, <2>1 DEF RunsHead
  <2> QED
    BY <2>1, <2>2, NothingStarts DEF ChangeSteps
<1>6. CASE Environment \/ Migrate \/ Restore \/ StepFails
  <2>1. /\ pc \in ChangeSteps /\ pc' \notin {"files", "checkout"}
        /\ UNCHANGED <<head, run, request, st>>
    BY <1>6, TurnsBack
    DEF Environment, Migrate, Restore, StepFails, fileVars, askVars, startVars, ChangeSteps
  <2>2. RunsHead'
    BY <1>i, <2>1 DEF RunsHead
  <2> QED
    BY <2>1, <2>2, NothingStarts
<1>7. CASE Ask
  <2>1. /\ pc = "ask" /\ pc' = "wait"
        /\ UNCHANGED <<head, tree, env, schema, run, st, marker, way>>
        /\ request' = TRUE /\ result' = "none" /\ waits' = FALSE
    BY <1>7 DEF Ask, fileVars, dataVars, noteVars, startVars
  <2>2. marker # NoMarker
    BY <1>0, <2>1
  <2>3. head = Aim /\ env = Wanted /\ schema = SchemaOf[Aim] /\ tree = head
    BY <2>1 DEF FolderInv, StepsDone, EnvSteps, DataSteps, StartSteps
  <2>4. Wanted = EnvOf[Aim]
    BY <1>0, <2>2 DEF FolderInv, WayBackKept, Aim, Wanted
  <2>5. Whole(head)'
    BY <2>1, <2>3, <2>4 DEF Whole
  <2>6. Quiet' /\ RunsHead'
    BY <1>i, <2>1, <2>2 DEF Quiet, RunsHead, NoAnswer, ChangeSteps
  <2> QED
    BY <2>5, <2>6 DEF StartInv, FindsWhole
<1>8. CASE Answered
  <2>1. /\ pc = "wait" /\ pc' \in {"idle", "stop", "watch"}
        /\ UNCHANGED <<head, tree, env, schema, run, st, marker>>
        /\ request' = request \/ request' = FALSE
        /\ ~NoAnswer => request' = request
        /\ NoAnswer => request' = FALSE
    BY <1>8, TurnsBack
    DEF Answered, LeftToAnother, NoAnswer, fileVars, dataVars, noteVars, startVars
  <2>2. request' = FALSE
    BY <1>0, <1>i, <2>1 DEF Quiet
  <2>3. Quiet' /\ FindsWhole' /\ RunsHead'
    BY <1>i, <2>1, <2>2 DEF Quiet, FindsWhole, RunsHead, Whole, ChangeSteps
  <2> QED
    BY <2>3 DEF StartInv
<1>9. CASE Unmark
  <2>1. /\ pc = "unmark" /\ pc' = "idle"
        /\ UNCHANGED <<head, tree, env, schema, run, st, request>>
    BY <1>9 DEF Unmark, fileVars, dataVars, askVars, startVars
  <2>2. ~request
    BY <1>i, <2>1 DEF Quiet
  <2>3. Quiet' /\ FindsWhole' /\ RunsHead'
    BY <1>i, <2>1, <2>2 DEF Quiet, FindsWhole, RunsHead, Whole, ChangeSteps
  <2> QED
    BY <2>3 DEF StartInv
<1>10. CASE Recover \/ Cut
  <2>1. /\ UNCHANGED <<head, tree, env, schema, marker, run, request, waits, st>>
        /\ pc' = "idle" \/ (pc' = "stop" /\ ~request)
    BY <1>10, <1>f DEF Recover, Cut, fileVars, dataVars, noteVars, askVars, startVars
  <2> QED
    BY <2>1, FolderStays DEF ChangeSteps
<1>11. CASE PowerOff
  <2>1. /\ UNCHANGED <<head, tree, env, schema, marker, request>> /\ pc' = "idle" /\ ~waits'
        /\ \A s \in Starters : st'[s] = "none"
        /\ \A p \in Own : run'[p] = None
    BY <1>11, <1>o DEF PowerOff, fileVars, dataVars, noteVars
  <2>2. Quiet' /\ FindsWhole' /\ RunsHead'
    BY <1>i, <2>1 DEF Quiet, FindsWhole, RunsHead, Whole, ChangeSteps
  <2> QED
    BY <2>2 DEF StartInv
<1>12. CASE Aside
  <2>0. UNCHANGED <<head, tree, env, schema, marker, record, pc, way>>
    BY <1>12, AsideLeaves
  <2>1. ASSUME NEW s \in Starters, Lock(s) PROVE StartInv'
    <3>1. UNCHANGED <<request, run>> /\ st[s] = "looked"
      BY <2>1 DEF Lock
    <3>1a. \A t \in Starters : st'[t] # "overwritten"
      BY <1>0, <1>f, <1>i, <2>1 DEF Lock, Ends, Enters, Quiet
    <3>2. ~waits => UNCHANGED <<waits, result>>
      BY <2>1 DEF Lock, Ends
    <3>3. pc \notin ChangeSteps
      BY <1>i, <3>1 DEF Quiet
    <3> QED
      BY <1>i, <2>0, <3>1, <3>1a, <3>2, <3>3, AsideStarts DEF Quiet
  <2>2. ASSUME NEW s \in Starters, Launch(s) PROVE StartInv'
    <3>1. /\ UNCHANGED request /\ st[s] # "none"
          /\ \A t \in Starters : t # s => st'[t] = st[t]
      BY <1>0, <2>2 DEF Launch, Ends
    <3>2. ~waits => UNCHANGED <<waits, result>>
      BY <2>2 DEF Launch, Ends
    <3>3. pc \notin ChangeSteps /\ \A p \in Own : run'[p] \in {run[p], head}
      BY <2>2, LaunchesHead
    <3>4. \A t \in Starters : st'[t] # "overwritten"
      BY <1>0, <1>f, <1>i, <2>2 DEF Launch, Ends, Quiet
    <3> QED
      BY <1>i, <2>0, <3>1, <3>2, <3>3, <3>4, AsideStarts DEF Quiet
  <2>3. CASE PersonStarts \/ WatchCheck
    <3>1. /\ UNCHANGED <<request, waits, result, run>>
          /\ st' = st \/ marker = NoMarker
      BY <2>3 DEF PersonStarts, WatchCheck, Refused, askVars, startVars
    <3>1a. \A s \in Starters : st'[s] # "overwritten"
      BY <1>0, <1>i, <2>3 DEF PersonStarts, WatchCheck, Looks, Quiet, startVars
    <3>2. marker = NoMarker => Whole(head) /\ pc \notin ChangeSteps
      BY <1>0, <1>w DEF ChangeSteps
    <3> QED
      BY <1>i, <2>0, <3>1, <3>1a, <3>2, AsideStarts DEF Quiet
  <2>4. CASE TakeRequest
    <3>1. request /\ request' = FALSE /\ UNCHANGED run
      BY <2>4 DEF TakeRequest
    <3>1a. \A s \in Starters : st'[s] # "overwritten"
      BY <1>0, <1>i, <2>4 DEF TakeRequest, Looks, Quiet, startVars
    <3>2. pc \notin ChangeSteps
      BY <1>i, <3>1 DEF Quiet
    <3> QED
      BY <1>i, <2>0, <3>1, <3>1a, <3>2, AsideStarts
  <2>5. CASE WatcherDies
    <3>1. waits /\ UNCHANGED <<request, run, st>>
      BY <2>5 DEF WatcherDies, startVars
    <3> QED
      BY <1>i, <2>0, <3>1, AsideStarts DEF Quiet
  <2>6. ASSUME NEW p \in Parts, PartDies(p) PROVE StartInv'
    <3>1. UNCHANGED <<request, waits, result, st>> /\ run' = [run EXCEPT ![p] = None]
      BY <2>6 DEF PartDies, askVars, startVars
    <3>2. \A q \in Own : run'[q] \in {None, run[q]}
      BY <1>0, <1>o, <3>1
    <3> QED
      BY <1>i, <2>0, <3>1, <3>2, AsideStarts DEF Quiet
  <2>7. CASE (\E r \in Rows : Store(r)) \/ UNCHANGED vars
    <3>1. UNCHANGED <<request, waits, result, st, run>>
      BY <2>7 DEF Store, vars, askVars, startVars
    <3> QED
      BY <1>i, <2>0, <3>1, AsideStarts DEF Quiet
  <2> QED
    BY <1>12, <2>1, <2>2, <2>3, <2>4, <2>5, <2>6, <2>7 DEF Aside
<1> QED
  BY <1>1, <1>2, <1>3, <1>4, <1>5, <1>6, <1>7, <1>8, <1>9, <1>10, <1>11, <1>12
  DEF Next, Release, Aside

-----------------------------------------------------------------------------
WholeInv == FolderInv /\ StartInv

LEMMA InitWhole == Init => WholeInv
<1> SUFFICES ASSUME Init PROVE WholeInv
  OBVIOUS
<1>1. Whole(head)
  BY DEF Init, Whole
<1>2. WayBackKept /\ StepsDone /\ AtRest /\ OnRecord
  BY <1>1 DEF Init, WayBackKept, StepsDone, AtRest, OnRecord, StartSteps, DataSteps, EnvSteps
<1>3. Quiet /\ FindsWhole /\ RunsHead
  BY <1>1 DEF Init, Quiet, FindsWhole, RunsHead, ChangeSteps, Parts
<1> QED
  BY <1>2, <1>3 DEF WholeInv, FolderInv, StartInv

\* The inductive invariant: at each step of a release, what is changed already
\* and what is not, and who may be starting ATDR meanwhile.
THEOREM WholeHeld == ASSUME Orderly PROVE Spec => []WholeInv
<1>1. TypeInv /\ EarlyInv /\ WholeInv /\ [Next]_vars => WholeInv'
  BY FolderStep, StartStep DEF WholeInv
<1> QED
  BY <1>1, InitWhole, TypeCorrect, EarlyHeld, PTL DEF Spec

\* Nobody starts a part from a folder between two versions: not the watcher,
\* not a person, not a machine that comes up again, however often a release
\* fails or is cut off, at its very end too.
THEOREM StartsAreWhole == ASSUME Orderly PROVE Spec => StartsWhole
<1>1. ASSUME TypeInv, WholeInv, [Next]_vars,
             NEW p \in Own, run[p] = None, run'[p] # None
      PROVE  Whole(run'[p])
  <2>1. p \in Parts /\ run \in [Parts -> Versions \union {None, Mixed}]
    BY <1>1 DEF Parts, TypeInv, TypeOK
  <2>2. ASSUME NEW s \in Starters, Launch(s) PROVE Whole(run'[p])
    <3>1. Whole(head) /\ run'[p] \in {run[p], head}
      BY <1>1, <2>2, LaunchesHead DEF WholeInv
    <3>2. run'[p] = head
      BY <1>1, <3>1
    <3> QED
      BY <3>1, <3>2
  <2>3. CASE EndParts \/ PowerOff \/ \E q \in Parts : PartDies(q)
    BY <1>1, <2>1, <2>3 DEF EndParts, PowerOff, PartDies
  <2>4. CASE (\E v \in Versions : Mark(v)) \/ Stop \/ Files \/ CheckedOut \/ Environment
             \/ Migrate \/ Restore \/ Ask \/ Answered \/ Watch \/ Record \/ Unmark
    BY <1>1, <2>4 DEF Mark, Stop, Files, CheckedOut, Environment, Migrate, Restore, Ask,
                      Answered, Watch, Record, Unmark
  <2>5. CASE Recover \/ StepFails \/ Cut \/ (\E s \in Starters : Lock(s)) \/ PersonStarts
             \/ TakeRequest \/ WatchCheck \/ WatcherDies \/ (\E r \in Rows : Store(r))
             \/ UNCHANGED vars
    BY <1>1, <2>5 DEF Recover, StepFails, Cut, Lock, PersonStarts, TakeRequest, WatchCheck,
                      WatcherDies, Store, vars
  <2> QED
    BY <1>1, <2>2, <2>3, <2>4, <2>5 DEF Next, Release
<1>2. TypeInv /\ WholeInv /\ [Next]_vars =>
        [\A p \in Own : run[p] = None /\ run'[p] # None => Whole(run'[p])]_vars
  BY <1>1
<1> QED
  BY <1>2, TypeCorrect, WholeHeld, PTL DEF Spec, StartsWhole

\* Without a marker the folder is one version and its parts run that, even when
\* a release was cut off between its record and its marker: then the record may
\* name another version than the folder holds.
RestIsOneVersion ==
    marker = NoMarker => Whole(head) /\ \A p \in Own : run[p] \in {None, head}

\* The same as a theorem: no release, put-back or crash leaves a mixed folder
\* behind that says it is whole.
THEOREM RestsWhole == ASSUME Orderly PROVE Spec => []RestIsOneVersion
<1>1. WholeInv => RestIsOneVersion
  BY DEF WholeInv, FolderInv, StartInv, AtRest, RunsHead, RestIsOneVersion
<1> QED
  BY <1>1, WholeHeld, PTL

\* Without a marker the folder is the version on record, its files, its
\* environment and its database, and nothing else runs: for any versions and
\* parts, however often a release fails or is cut off, as long as what the code
\* is not ready for does not happen.
THEOREM FolderStaysSound == ASSUME Faults = {} PROVE Spec => []FolderSound
<1>1. Orderly /\ "half_record" \notin Faults
  BY DEF Orderly
<1>2. TypeInv /\ WholeInv => FolderSound
  BY <1>1 DEF TypeInv, WholeInv, FolderInv, StartInv, AtRest, OnRecord, RunsHead, FolderSound,
              RestIsWhole
<1> QED
  BY <1>1, <1>2, TypeCorrect, WholeHeld, PTL
=============================================================================
