---------------------------- MODULE BlocksProofs -----------------------------
(***************************************************************************)
(* A row that the firewall is said to enforce is one it does enforce, and  *)
(* a rule has its row, in any interleaving of requests, for any number of  *)
(* threads, addresses, rows and mishaps: except for the addresses that a   *)
(* race or a failure left in doubt.                                        *)
(***************************************************************************)
EXTENDS Blocks, TLAPS

-----------------------------------------------------------------------------
(***************************************************************************)
(* What a thread holds at each of its steps, whoever else is served.       *)
(***************************************************************************)

\* It holds what its step in the request needs, and nothing else.
Control(t) ==
    /\ pc[t] = "idle" => req[t] = NoRequest
    /\ pc[t] # "idle" => req[t] \in Request
    /\ pc[t] \in {"start", "record"} => req[t].op \in {"block", "unblock"}
    /\ pc[t] \notin {"sweep", "netsh"} => left[t] = {} /\ swept[t] = {}
    /\ left[t] # {} => mode = "windows_firewall"
    /\ pc[t] # "netsh" => cur[t] = "none" /\ call[t] = "none"
    /\ pc[t] = "record" =>
          mode = "simulation" \/ (req[t].op = "block" /\ mode = "windows_firewall")
    /\ found[t] # "none" =>
          pc[t] \in {"netsh", "record"} /\ cur[t] = "none" /\ ip[found[t]] = req[t].ip

\* Only when the settings say so is it at the firewall: for a row its sweep
\* selected, or else for the address of the request.
Calling(t) ==
    pc[t] = "netsh" =>
       /\ mode = "windows_firewall"
       /\ cur[t] # "none" => call[t] \in {"remove", "none"}
       /\ cur[t] = "none" =>
             /\ left[t] = {} /\ swept[t] = {}
             /\ \/ req[t].op = "unblock" /\ call[t] \in {"remove", "none"}
                \/ /\ req[t].op = "block" /\ call[t] \in {"clear", "add", "undo", "none"}
                   /\ found[t] = "none"

Orderly == TypeOK /\ \A t \in Threads : Control(t) /\ Calling(t)

-----------------------------------------------------------------------------
(***************************************************************************)
(* What is so of an address that is not in doubt.                          *)
(***************************************************************************)

\* The rows that say the address is blocked.
On(a) == {r \in Rows : active[r] /\ ip[r] = a}

\* Past the SELECT of the row to write.
Recording(t, a) ==
    /\ req[t].op \in {"block", "unblock"} /\ req[t].ip = a
    /\ \/ pc[t] = "record"
       \/ pc[t] = "netsh" /\ cur[t] = "none" /\ req[t].op = "unblock"

\* A row it holds or found is the address's only one, and the one a block found
\* is as it was.
Knows(t, a) ==
    /\ \A r \in Rows : Holds(t, r) /\ ip[r] = a => On(a) \subseteq {r}
    /\ Recording(t, a) =>
          /\ On(a) \subseteq {found[t]}
          /\ req[t].op = "block" /\ found[t] # "none" =>
                active[found[t]] /\ read[t].enforcement = enforcement[found[t]]

OneRow(a) ==
    /\ ~Raced(a)
    /\ \A r, s \in On(a) : r = s
    /\ \A t \in Threads : Knows(t, a)

\* A thread that is setting the address's rules anew, and one that has set them.
Blocks(t, a) ==
    /\ req[t].op = "block" /\ req[t].ip = a
    /\ pc[t] = "netsh" /\ cur[t] = "none"
Recorded(t, a) ==
    /\ req[t].op = "block" /\ req[t].ip = a
    /\ pc[t] = "record" /\ mode = "windows_firewall"

\* A thread that will set the row inactive, unless a removal fails.
Lifts(t, r) ==
    \/ cur[t] = r \/ r \in swept[t]
    \/ /\ req[t].op = "unblock" /\ pc[t] \in {"netsh", "record"}
       /\ cur[t] = "none" /\ found[t] = r

\* A block sets both rules, ...
AddsBoth(t, a) ==
    /\ pc[t] = "netsh" /\ Target(t) = a => ok[t] /\ call[t] # "undo"
    /\ Blocks(t, a) =>
          /\ call[t] = "add" /\ dir[t] = "out" => "in" \in fw[a]
          /\ call[t] = "none" => fw[a] = Directions
    /\ Recorded(t, a) => fw[a] = Directions

\* ... which an enforced row has until it is lifted or blocked again.
Enforced(a) ==
    \A r \in On(a) : enforcement[r] = "windows_firewall" =>
       fw[a] = Directions \/ \E t \in Threads : Lifts(t, r) \/ Blocks(t, a)

\* A row is lifted, and a failed block ends, when no rule is left, ...
LeavesNone(t, a) ==
    /\ \A r \in swept[t] : ip[r] = a => fw[a] = {}
    /\ pc[t] = "netsh" /\ Target(t) = a /\ ~Blocks(t, a) /\ ok[t] =>
          /\ call[t] = "remove" /\ dir[t] = "out" => "in" \notin fw[a]
          /\ call[t] = "none" => fw[a] = {}
    /\ pc[t] = "record" /\ req[t].op = "unblock" /\ req[t].ip = a => fw[a] = {}
    /\ Blocks(t, a) =>
          /\ ~ok[t] => call[t] \in {"undo", "none"}
          /\ call[t] = "undo" => ~ok[t]
          /\ call[t] = "undo" /\ dir[t] = "out" => "in" \notin fw[a]
          /\ call[t] = "none" /\ ~ok[t] => fw[a] = {}

\* ... so that a rule has an enforced row, or will have one.
Listed(a) ==
    \/ fw[a] = {}
    \/ \E r \in On(a) : enforcement[r] = "windows_firewall"
    \/ \E t \in Threads : Blocks(t, a) \/ Recorded(t, a)

Kept(a) ==
    /\ doubt[a] # Doubts => OneRow(a)
    /\ "rows" \notin doubt[a] => Enforced(a) /\ \A t \in Threads : AddsBoth(t, a)
    /\ "rules" \notin doubt[a] => Listed(a) /\ \A t \in Threads : LeavesNone(t, a)

BlockInv == Orderly /\ \A a \in Addresses : Kept(a)

-----------------------------------------------------------------------------
(***************************************************************************)
(* Types.                                                                  *)
(***************************************************************************)

\* No row is called none, and no request is the absent one.
LEMMA Absent ==
    /\ "none" \notin Rows
    /\ NoRequest.op = "none" /\ NoRequest \notin Request
    /\ \A q \in Request : q.op \in {"list", "block", "unblock"} /\ q.ip \in Addresses
BY BlockAssumption DEF NoRequest, Request

\* Rules are changed of one address at a time, an address that can be blocked
\* and that the thread deals with.
LEMMA TargetOf ==
    ASSUME Orderly, NEW t \in Threads, pc[t] = "netsh"
    PROVE  /\ Target(t) \in Addresses /\ Deals(t, Target(t))
           /\ cur[t] = "none" => Target(t) = req[t].ip
           /\ cur[t] # "none" => cur[t] \in Rows /\ Target(t) = ip[cur[t]]
           /\ fw[Target(t)] \subseteq Directions
<1>1. /\ req[t] \in Request /\ (cur[t] # "none" => cur[t] \in Rows /\ ip[cur[t]] \in Addresses)
      /\ cur[t] = "none" => req[t].op \in {"block", "unblock"}
      /\ fw \in [Addresses -> SUBSET Directions]
  BY DEF Orderly, TypeOK, Control, Calling
<1>2. req[t].ip \in Addresses
  BY <1>1, Absent
<1> QED
  BY <1>1, <1>2 DEF Target, Deals, Holds

\* A netsh command leaves a set of directions.
LEMMA NetshTypes ==
    ASSUME Orderly, NEW t \in Threads, NEW fails \in BOOLEAN, NEW carried \in BOOLEAN,
           DeleteRule(t, fails, carried) \/ AddRule(t, fails, carried)
    PROVE  TypeOK'
<1>0. TypeOK /\ pc[t] = "netsh"
  BY DEF Orderly, DeleteRule, AddRule
<1>1. Target(t) \in Addresses /\ fw[Target(t)] \subseteq Directions /\ dir[t] \in Directions
  BY <1>0, TargetOf DEF TypeOK
<1>2. fw' \in [Addresses -> SUBSET Directions]
  <2>1. \/ fw' = fw
        \/ \E rules \in SUBSET Directions : fw' = [fw EXCEPT ![Target(t)] = rules]
    BY <1>1 DEF DeleteRule, AddRule, Netsh
  <2> QED
    BY <1>0, <2>1 DEF TypeOK
<1>3. /\ call' \in [Threads -> {"none", "clear", "add", "undo", "remove"}]
      /\ dir' \in [Threads -> Directions]
  <2>1. CASE DeleteRule(t, fails, carried)
    BY <1>0, <2>1 DEF TypeOK, DeleteRule, Advance, Directions
  <2>2. CASE AddRule(t, fails, carried)
    <3>1. CASE call' = Undone(t) /\ dir' = [dir EXCEPT ![t] = "in"]
      BY <1>0, <3>1 DEF TypeOK, Undone, Directions
    <3>2. CASE Advance(t)
      BY <1>0, <3>2 DEF TypeOK, Advance, Directions
    <3> QED
      BY <2>2, <3>1, <3>2 DEF AddRule
  <2> QED
    BY <2>1, <2>2
<1>4. ok' \in [Threads -> BOOLEAN]
  BY <1>0 DEF TypeOK, DeleteRule, AddRule, Failed
<1>5. mishaps' \in 0 .. MaxMishaps
  BY <1>0, BlockAssumption DEF TypeOK, DeleteRule, AddRule, Netsh, GoesWrong
<1>6. doubt' \in [Addresses -> SUBSET Doubts]
  <2>1. PICK what \in SUBSET Doubts : doubt' = [doubt EXCEPT ![Target(t)] = doubt[Target(t)] \union what]
    BY DEF DeleteRule, AddRule, Doubt, Doubts
  <2> QED
    BY <1>0, <1>1, <2>1 DEF TypeOK
<1> QED
  BY <1>0, <1>2, <1>3, <1>4, <1>5, <1>6 DEF TypeOK, DeleteRule, AddRule, Netsh, rowVars, sweepVars, foundVars

\* Rows that are lifted are rows still.
LEMMA LiftTypes ==
    ASSUME TypeOK, NEW S, Lift(S)
    PROVE  /\ active' \in [Rows -> BOOLEAN] /\ enforcement' \in [Rows -> Enforcement]
           /\ expiry' \in [Rows -> Expiry]
BY DEF TypeOK, Lift, Enforcement, Expiry

\* A request is answered.
LEMMA DoneTypes ==
    ASSUME TypeOK, NEW t \in Threads, Done(t)
    PROVE  /\ pc' \in [Threads -> {"idle", "sweep", "start", "netsh", "record"}]
           /\ req' \in [Threads -> Request \union {NoRequest}]
           /\ found' \in [Threads -> Rows \union {"none"}]
           /\ read' \in [Threads -> [enforcement : Enforcement, expiry : Expiry]]
           /\ pc'[t] = "idle" /\ req'[t] = NoRequest /\ found'[t] = "none"
BY DEF TypeOK, Done, Goto, NothingRead, Enforcement, Expiry

\* The connector is entered.
LEMMA CallsTypes ==
    ASSUME TypeOK, NEW t \in Threads, NEW what \in {"clear", "remove"}, Calls(t, what)
    PROVE  /\ pc' \in [Threads -> {"idle", "sweep", "start", "netsh", "record"}]
           /\ call' \in [Threads -> {"none", "clear", "add", "undo", "remove"}]
           /\ dir' \in [Threads -> Directions] /\ ok' \in [Threads -> BOOLEAN]
           /\ pc'[t] = "netsh" /\ call'[t] = what /\ dir'[t] = "in" /\ ok'[t] = TRUE
BY DEF TypeOK, Calls, Goto, Directions

\* What a thread finds is an active row of its address, or nothing.
LEMMA FindsRow ==
    ASSUME TypeOK, NEW t \in Threads, NEW f \in Finds(t)
    PROVE  /\ f \in Rows \union {"none"}
           /\ f = "none" => On(req[t].ip) = {}
           /\ f # "none" => f \in Rows /\ f \in On(req[t].ip)
BY Absent DEF Finds, Blocked, On

\* A block looks for the row of its address.
LEMMA FindTypes ==
    ASSUME TypeOK, NEW t \in Threads, FindExisting(t)
    PROVE  /\ pc' \in [Threads -> {"idle", "sweep", "start", "netsh", "record"}] /\ req' = req
           /\ found' \in [Threads -> Rows \union {"none"}]
           /\ read' \in [Threads -> [enforcement : Enforcement, expiry : Expiry]]
           /\ pc'[t] = "record" /\ found'[t] \in Finds(t)
           /\ found'[t] # "none" => read'[t].enforcement = enforcement[found'[t]]
<1>1. PICK f \in Finds(t) :
         /\ found' = [found EXCEPT ![t] = f]
         /\ read' = IF f = "none" THEN read
                    ELSE [read EXCEPT ![t] = [enforcement |-> enforcement[f], expiry |-> expiry[f]]]
  BY DEF FindExisting
<1>2. f \in Rows \union {"none"}
  BY FindsRow
<1>3. f # "none" => enforcement[f] \in Enforcement /\ expiry[f] \in Expiry
  BY <1>2 DEF TypeOK
<1> QED
  BY <1>1, <1>2, <1>3 DEF TypeOK, FindExisting, Goto

\* A step of a request, or the request itself.
LEMMA RequestTypes ==
    ASSUME Orderly, NEW t \in Threads, Step(t) \/ \E q \in Request : Ask(t, q)
    PROVE  TypeOK'
<1>0. TypeOK
  BY DEF Orderly
<1>1. ASSUME NEW q \in Request, Ask(t, q) PROVE TypeOK'
  <2>1. mishaps' \in 0 .. MaxMishaps
    BY <1>0, <1>1, BlockAssumption DEF TypeOK, Ask, GoesWrong
  <2>2. doubt' \in [Addresses -> SUBSET Doubts]
    BY <1>0, <1>1 DEF TypeOK, Ask, Doubts
  <2> QED
    BY <1>0, <1>1, <2>1, <2>2 DEF TypeOK, Ask, Goto, Expired, rowVars, netshVars, foundVars
<1>2. ASSUME NEW r \in Rows, SweepRow(t, r) PROVE TypeOK'
  BY <1>0, <1>2, CallsTypes DEF TypeOK, SweepRow, rowVars, foundVars, faultVars
<1>3. CASE SweepRemoved(t)
  BY <1>0, <1>3 DEF TypeOK, SweepRemoved, Returned, Goto, rowVars, foundVars, faultVars
<1>4. CASE SweepCommit(t)
  <2>1. CASE Done(t)
    BY <1>0, <1>4, <2>1, LiftTypes, DoneTypes DEF TypeOK, SweepCommit, netshVars, faultVars
  <2>2. CASE Goto(t, "start") /\ UNCHANGED <<req, foundVars>>
    BY <1>0, <1>4, <2>2, LiftTypes DEF TypeOK, SweepCommit, Goto, netshVars, foundVars, faultVars
  <2> QED
    BY <1>4, <2>1, <2>2 DEF SweepCommit
<1>5. CASE StartBlock(t)
  <2>1. doubt' \in [Addresses -> SUBSET Doubts]
    BY <1>0, <1>5 DEF TypeOK, StartBlock
  <2>2. CASE FindExisting(t) /\ UNCHANGED netshVars
    BY <1>0, <1>5, <2>1, <2>2, FindTypes DEF TypeOK, StartBlock, rowVars, sweepVars, netshVars
  <2>3. CASE Done(t) /\ UNCHANGED netshVars
    BY <1>0, <1>5, <2>1, <2>3, DoneTypes DEF TypeOK, StartBlock, rowVars, sweepVars, netshVars
  <2>4. CASE Calls(t, "clear") /\ UNCHANGED <<req, foundVars>>
    BY <1>0, <1>5, <2>1, <2>4, CallsTypes DEF TypeOK, StartBlock, rowVars, sweepVars, foundVars
  <2> QED
    BY <1>5, <2>2, <2>3, <2>4 DEF StartBlock
<1>6. CASE BlockApplied(t)
  <2>1. ok' \in [Threads -> BOOLEAN]
    BY <1>0, <1>6 DEF TypeOK, BlockApplied, Returned
  <2>2. CASE FindExisting(t)
    BY <1>0, <1>6, <2>1, <2>2, FindTypes DEF TypeOK, BlockApplied, rowVars, sweepVars, faultVars
  <2>3. CASE Done(t)
    BY <1>0, <1>6, <2>1, <2>3, DoneTypes DEF TypeOK, BlockApplied, rowVars, sweepVars, faultVars
  <2> QED
    BY <1>6, <2>2, <2>3 DEF BlockApplied
<1>7. ASSUME NEW timed \in BOOLEAN, RecordBlock(t, timed) PROVE TypeOK'
  <2>1. Label \in Enforcement /\ {"running", "never"} \subseteq Expiry
    BY DEF Label, Enforcement, Expiry
  <2>2. req[t] \in Request /\ req[t].ip \in Addresses
    BY <1>7, Absent DEF Orderly, Control, RecordBlock
  <2>3. /\ ip' \in [Rows -> Addresses] /\ active' \in [Rows -> BOOLEAN]
        /\ enforcement' \in [Rows -> Enforcement] /\ expiry' \in [Rows -> Expiry]
    <3>1. CASE found[t] = "none"
      <4>1. PICK r \in Free :
               /\ ip' = [ip EXCEPT ![r] = req[t].ip] /\ active' = [active EXCEPT ![r] = TRUE]
               /\ enforcement' = [enforcement EXCEPT ![r] = Label]
               /\ expiry' = [expiry EXCEPT ![r] = IF timed THEN "running" ELSE "never"]
        BY <1>7, <3>1 DEF RecordBlock
      <4> QED
        BY <1>0, <2>1, <2>2, <4>1 DEF TypeOK, Free
    <3>2. CASE found[t] # "none"
      <4>1. found[t] \in Rows /\ enforcement[found[t]] \in Enforcement /\ expiry[found[t]] \in Expiry
        BY <1>0, <3>2 DEF TypeOK
      <4>2. /\ \/ enforcement' = enforcement
               \/ \E how \in Enforcement : enforcement' = [enforcement EXCEPT ![found[t]] = how]
            /\ \/ expiry' = expiry
               \/ \E till \in Expiry : expiry' = [expiry EXCEPT ![found[t]] = till]
        BY <1>7, <2>1, <3>2, <4>1 DEF RecordBlock, Changed, rowVars
      <4>3. UNCHANGED <<ip, active>>
        BY <1>7, <3>2 DEF RecordBlock, rowVars
      <4>4. enforcement' \in [Rows -> Enforcement]
        BY <1>0, <4>1, <4>2 DEF TypeOK
      <4>5. expiry' \in [Rows -> Expiry]
        BY <1>0, <4>1, <4>2 DEF TypeOK
      <4> QED
        BY <1>0, <4>3, <4>4, <4>5 DEF TypeOK
    <3> QED
      BY <3>1, <3>2
  <2>4. doubt' \in [Addresses -> SUBSET Doubts]
    BY <1>0, <1>7 DEF TypeOK, RecordBlock, Doubt, Doubts
  <2> QED
    BY <1>0, <1>7, <2>3, <2>4, DoneTypes DEF TypeOK, RecordBlock, sweepVars, netshVars
<1>8. CASE FindBlocked(t)
  <2>1. PICK f \in Finds(t) :
           \/ /\ found' = [found EXCEPT ![t] = f] /\ Calls(t, "remove") /\ UNCHANGED <<req, read>>
           \/ /\ found' = [found EXCEPT ![t] = f] /\ Goto(t, "record")
              /\ UNCHANGED <<req, read, netshVars>>
           \/ Done(t) /\ UNCHANGED netshVars
    BY <1>8 DEF FindBlocked
  <2>2. f \in Rows \union {"none"}
    BY <1>0, FindsRow
  <2>3. UNCHANGED <<mode, fw, rowVars, sweepVars, faultVars>>
    BY <1>8 DEF FindBlocked
  <2>4. CASE found' = [found EXCEPT ![t] = f] /\ Calls(t, "remove") /\ UNCHANGED <<req, read>>
    BY <1>0, <2>2, <2>3, <2>4, CallsTypes DEF TypeOK, rowVars, sweepVars, faultVars
  <2>5. CASE found' = [found EXCEPT ![t] = f] /\ Goto(t, "record") /\ UNCHANGED <<req, read, netshVars>>
    BY <1>0, <2>2, <2>3, <2>5 DEF TypeOK, Goto, rowVars, sweepVars, netshVars, faultVars
  <2>6. CASE Done(t) /\ UNCHANGED netshVars
    BY <1>0, <2>3, <2>6, DoneTypes DEF TypeOK, rowVars, sweepVars, netshVars, faultVars
  <2> QED
    BY <2>1, <2>4, <2>5, <2>6
<1>9. CASE UnblockApplied(t)
  BY <1>0, <1>9, LiftTypes, DoneTypes DEF TypeOK, UnblockApplied, Returned, sweepVars, faultVars
<1>10. CASE RecordUnblock(t)
  BY <1>0, <1>10, LiftTypes, DoneTypes DEF TypeOK, RecordUnblock, sweepVars, netshVars, faultVars
<1> QED
  BY <1>1, <1>2, <1>3, <1>4, <1>5, <1>6, <1>7, <1>8, <1>9, <1>10, NetshTypes DEF Step

\* Each step keeps the types.
LEMMA StepTypes ==
    ASSUME Orderly, [Next]_vars PROVE TypeOK'
<1>0. TypeOK
  BY DEF Orderly
<1>1. ASSUME NEW t \in Threads, Step(t) \/ \E q \in Request : Ask(t, q) PROVE TypeOK'
  BY <1>1, RequestTypes
<1>2. ASSUME NEW r \in Rows, Expire(r) PROVE TypeOK'
  BY <1>0, <1>2 DEF TypeOK, Expire, Expiry, sweepVars, netshVars, foundVars, faultVars
<1>3. ASSUME NEW m \in Modes, Switch(m) PROVE TypeOK'
  BY <1>0, <1>3, BlockAssumption DEF TypeOK, Switch, GoesWrong, rowVars, sweepVars, netshVars, foundVars
<1>4. CASE Crash
  <2>1. doubt' \in [Addresses -> SUBSET Doubts] /\ mishaps' \in 0 .. MaxMishaps
    BY <1>0, <1>4, BlockAssumption DEF TypeOK, Crash, GoesWrong, Doubts
  <2> QED
    BY <1>0, <1>4, <2>1 DEF TypeOK, Crash, Directions, Enforcement, Expiry, NothingRead, rowVars
<1>5. CASE UNCHANGED vars
  BY <1>0, <1>5 DEF TypeOK, vars, rowVars, sweepVars, netshVars, foundVars, faultVars
<1> QED
  BY <1>1, <1>2, <1>3, <1>4, <1>5 DEF Next

-----------------------------------------------------------------------------
(***************************************************************************)
(* One thread's step, the others and what each holds.                      *)
(***************************************************************************)

\* A step of t leaves what the other threads hold alone, and which addresses
\* the rows that any thread holds are of.
OnlyOf(t) ==
    /\ mode' = mode
    /\ \A u \in Threads : u # t =>
          /\ pc'[u] = pc[u] /\ req'[u] = req[u] /\ left'[u] = left[u] /\ cur'[u] = cur[u]
          /\ swept'[u] = swept[u] /\ call'[u] = call[u] /\ dir'[u] = dir[u] /\ ok'[u] = ok[u]
          /\ found'[u] = found[u] /\ read'[u] = read[u]
    /\ \A u \in Threads, r \in Rows : Holds(u, r) \/ found[u] = r => ip'[r] = ip[r]

\* A request is answered by one thread.
LEMMA DoneIsOwn ==
    ASSUME TypeOK, NEW t \in Threads, Done(t), NEW u \in Threads, u # t
    PROVE  pc'[u] = pc[u] /\ req'[u] = req[u] /\ found'[u] = found[u] /\ read'[u] = read[u]
BY DEF TypeOK, Done, Goto

\* The connector is entered by one thread.
LEMMA CallsIsOwn ==
    ASSUME TypeOK, NEW t \in Threads, NEW what, Calls(t, what), NEW u \in Threads, u # t
    PROVE  pc'[u] = pc[u] /\ call'[u] = call[u] /\ dir'[u] = dir[u] /\ ok'[u] = ok[u]
BY DEF TypeOK, Calls, Goto

\* A row is found by one thread.
LEMMA FindIsOwn ==
    ASSUME TypeOK, NEW t \in Threads, FindExisting(t), NEW u \in Threads, u # t
    PROVE  pc'[u] = pc[u] /\ req'[u] = req[u] /\ found'[u] = found[u] /\ read'[u] = read[u]
BY DEF TypeOK, FindExisting, Goto

\* Steps are a thread's own.
LEMMA StepIsOwn ==
    ASSUME TypeOK, NEW t \in Threads, Step(t) \/ \E q \in Request : Ask(t, q)
    PROVE  OnlyOf(t)
<1>1. CASE \E q \in Request : Ask(t, q)
  BY <1>1 DEF TypeOK, OnlyOf, Ask, Goto, rowVars, netshVars, foundVars
<1>2. ASSUME NEW r \in Rows, SweepRow(t, r) PROVE OnlyOf(t)
  BY <1>2, CallsIsOwn DEF TypeOK, OnlyOf, SweepRow, rowVars, foundVars
<1>3. CASE SweepRemoved(t)
  BY <1>3 DEF TypeOK, OnlyOf, SweepRemoved, Returned, Goto, rowVars, foundVars
<1>4. CASE SweepCommit(t)
  <2>1. \A u \in Threads : u # t =>
           pc'[u] = pc[u] /\ req'[u] = req[u] /\ found'[u] = found[u] /\ read'[u] = read[u]
    BY <1>4, DoneIsOwn DEF TypeOK, SweepCommit, Goto, foundVars
  <2> QED
    BY <1>4, <2>1 DEF TypeOK, OnlyOf, SweepCommit, netshVars
<1>5. ASSUME NEW fails \in BOOLEAN, NEW carried \in BOOLEAN,
             DeleteRule(t, fails, carried) \/ AddRule(t, fails, carried)
      PROVE  OnlyOf(t)
  <2>1. UNCHANGED <<mode, rowVars, pc, req, sweepVars, foundVars>>
    BY <1>5 DEF DeleteRule, AddRule, Netsh
  <2>2. \A u \in Threads : u # t => call'[u] = call[u] /\ dir'[u] = dir[u] /\ ok'[u] = ok[u]
    BY <1>5 DEF TypeOK, DeleteRule, AddRule, Advance, Undone
  <2> QED
    BY <2>1, <2>2 DEF OnlyOf, rowVars, sweepVars, foundVars
<1>6. CASE StartBlock(t)
  <2>1. UNCHANGED <<mode, rowVars, sweepVars>>
    BY <1>6 DEF StartBlock
  <2>2. \/ FindExisting(t) /\ UNCHANGED netshVars
        \/ Done(t) /\ UNCHANGED netshVars
        \/ Calls(t, "clear") /\ UNCHANGED <<req, foundVars>>
    BY <1>6 DEF StartBlock
  <2> QED
    BY <2>1, <2>2, FindIsOwn, DoneIsOwn, CallsIsOwn
       DEF OnlyOf, rowVars, sweepVars, netshVars, foundVars
<1>7. CASE BlockApplied(t)
  <2>1. /\ UNCHANGED <<mode, rowVars, sweepVars, call, dir>>
        /\ \A u \in Threads : u # t => ok'[u] = ok[u]
    BY <1>7 DEF TypeOK, BlockApplied, Returned
  <2> QED
    BY <1>7, <2>1, FindIsOwn, DoneIsOwn DEF OnlyOf, BlockApplied, rowVars, sweepVars
<1>8. ASSUME NEW timed \in BOOLEAN, RecordBlock(t, timed) PROVE OnlyOf(t)
  <2>1. UNCHANGED <<mode, sweepVars, netshVars>> /\ Done(t)
    BY <1>8 DEF RecordBlock
  <2>2. ASSUME NEW u \in Threads, NEW r \in Rows, Holds(u, r) \/ found[u] = r PROVE ip'[r] = ip[r]
    <3>1. CASE found[t] = "none"
      <4>1. PICK s \in Free : ip' = [ip EXCEPT ![s] = req[t].ip]
        BY <1>8, <3>1 DEF RecordBlock
      <4>2. s # r
        BY <2>2, <4>1 DEF Free
      <4> QED
        BY <4>1, <4>2 DEF TypeOK
    <3>2. CASE found[t] # "none"
      BY <1>8, <3>2 DEF RecordBlock, rowVars
    <3> QED
      BY <3>1, <3>2
  <2> QED
    BY <2>1, <2>2, DoneIsOwn DEF OnlyOf, sweepVars, netshVars
<1>9. CASE FindBlocked(t)
  <2>1. UNCHANGED <<mode, rowVars, sweepVars>>
    BY <1>9 DEF FindBlocked
  <2>2. PICK f \in Finds(t) :
           \/ /\ found' = [found EXCEPT ![t] = f] /\ Calls(t, "remove") /\ UNCHANGED <<req, read>>
           \/ /\ found' = [found EXCEPT ![t] = f] /\ Goto(t, "record")
              /\ UNCHANGED <<req, read, netshVars>>
           \/ Done(t) /\ UNCHANGED netshVars
    BY <1>9 DEF FindBlocked
  <2>3. CASE found' = [found EXCEPT ![t] = f] /\ Calls(t, "remove") /\ UNCHANGED <<req, read>>
    BY <2>1, <2>3, CallsIsOwn DEF TypeOK, OnlyOf, rowVars, sweepVars
  <2>4. CASE found' = [found EXCEPT ![t] = f] /\ Goto(t, "record") /\ UNCHANGED <<req, read, netshVars>>
    BY <2>1, <2>4 DEF TypeOK, OnlyOf, Goto, rowVars, sweepVars, netshVars
  <2>5. CASE Done(t) /\ UNCHANGED netshVars
    BY <2>1, <2>5, DoneIsOwn DEF OnlyOf, rowVars, sweepVars, netshVars
  <2> QED
    BY <2>2, <2>3, <2>4, <2>5
<1>10. CASE UnblockApplied(t)
  BY <1>10, DoneIsOwn DEF TypeOK, OnlyOf, UnblockApplied, Returned, sweepVars
<1>11. CASE RecordUnblock(t)
  BY <1>11, DoneIsOwn DEF OnlyOf, RecordUnblock, sweepVars, netshVars
<1> QED
  BY <1>1, <1>2, <1>3, <1>4, <1>5, <1>6, <1>7, <1>8, <1>9, <1>10, <1>11 DEF Step

\* Others stay in order.
LEMMA OthersOrderly ==
    ASSUME Orderly, NEW t \in Threads, NEW u \in Threads, u # t, OnlyOf(t)
    PROVE  Control(u)' /\ Calling(u)'
<1>1. Control(u) /\ Calling(u) /\ found[u] \in Rows \union {"none"}
  BY DEF Orderly, TypeOK
<1>2. found[u] # "none" => ip'[found[u]] = ip[found[u]]
  BY <1>1 DEF OnlyOf
<1> QED
  BY <1>1, <1>2 DEF OnlyOf, Control, Calling

\* A thread that has answered its request holds nothing.
LEMMA DoneOrderly ==
    ASSUME TypeOK, NEW t \in Threads, Done(t),
           left'[t] = {}, swept'[t] = {}, cur'[t] = "none", call'[t] = "none"
    PROVE  Control(t)' /\ Calling(t)'
BY DoneTypes, Absent DEF Control, Calling

\* The thread that steps stays in order.
LEMMA OwnOrderly ==
    ASSUME Orderly, NEW t \in Threads, Step(t) \/ \E q \in Request : Ask(t, q)
    PROVE  Control(t)' /\ Calling(t)'
<1>0. /\ TypeOK /\ Control(t) /\ Calling(t) /\ OnlyOf(t) /\ mode' = mode
      /\ found[t] # "none" => found[t] \in Rows /\ ip'[found[t]] = ip[found[t]]
  BY StepIsOwn DEF Orderly, TypeOK, OnlyOf
<1>1. CASE \E q \in Request : Ask(t, q)
  <2>1. /\ pc'[t] = "sweep" /\ req'[t] \in Request
        /\ cur'[t] = "none" /\ call'[t] = "none" /\ found'[t] = "none"
        /\ left'[t] # {} => mode = "windows_firewall"
    BY <1>0, <1>1 DEF TypeOK, Control, Ask, Goto, MayRemove, netshVars, foundVars
  <2> QED
    BY <1>0, <2>1 DEF Control, Calling
<1>2. ASSUME NEW r \in Rows, SweepRow(t, r) PROVE Control(t)' /\ Calling(t)'
  <2>1. /\ pc'[t] = "netsh" /\ call'[t] = "remove" /\ cur'[t] = r /\ req'[t] \in Request
        /\ found'[t] = "none"
    BY <1>0, <1>2, CallsTypes DEF TypeOK, Control, SweepRow, foundVars
  <2>2. mode = "windows_firewall"
    BY <1>0, <1>2 DEF Control, SweepRow
  <2> QED
    BY <1>0, <2>1, <2>2, Absent DEF Control, Calling
<1>3. CASE SweepRemoved(t)
  <2>1. pc[t] = "netsh" /\ call[t] = "none" /\ cur[t] # "none" /\ found[t] = "none" /\ req[t] \in Request
    BY <1>0, <1>3 DEF SweepRemoved, Returned, Control
  <2>2. pc'[t] = "sweep" /\ cur'[t] = "none" /\ UNCHANGED <<req, left, call, found>>
    BY <1>0, <1>3 DEF TypeOK, SweepRemoved, Goto, foundVars
  <2> QED
    BY <1>0, <2>1, <2>2 DEF Control, Calling
<1>4. CASE SweepCommit(t)
  <2>1. /\ pc[t] = "sweep" /\ left'[t] = {} /\ swept'[t] = {} /\ cur'[t] = "none" /\ call'[t] = "none"
        /\ found[t] = "none" /\ req[t] \in Request
    BY <1>0, <1>4 DEF TypeOK, SweepCommit, Control, netshVars
  <2>2. CASE req[t].op = "list"
    BY <1>0, <1>4, <2>1, <2>2, DoneOrderly DEF SweepCommit
  <2>3. CASE req[t].op # "list"
    <3>1. pc'[t] = "start" /\ UNCHANGED <<req, found>>
      BY <1>0, <1>4, <2>3 DEF TypeOK, SweepCommit, Goto, foundVars
    <3> QED
      BY <2>1, <2>3, <3>1, Absent DEF Control, Calling
  <2> QED
    BY <2>2, <2>3
<1>5. ASSUME NEW fails \in BOOLEAN, NEW carried \in BOOLEAN,
             DeleteRule(t, fails, carried) \/ AddRule(t, fails, carried)
      PROVE  Control(t)' /\ Calling(t)'
  <2>1. pc[t] = "netsh" /\ UNCHANGED <<mode, ip, pc, req, left, cur, swept, found>>
    BY <1>5 DEF DeleteRule, AddRule, Netsh, rowVars, sweepVars, foundVars
  <2>2. \/ call'[t] = call[t]
        \/ call[t] = "clear" /\ call'[t] = "add"
        \/ call[t] = "add" /\ call'[t] = "undo"
        \/ call[t] # "clear" /\ call'[t] = "none"
    <3>1. DOMAIN call = Threads
      BY <1>0 DEF TypeOK
    <3> QED
      BY <1>5, <3>1 DEF DeleteRule, AddRule, Advance, Undone
  <2> QED
    BY <1>0, <2>1, <2>2 DEF Control, Calling
<1>6. CASE StartBlock(t)
  <2>1. /\ pc[t] = "start" /\ req[t].op = "block" /\ req[t] \in Request /\ found[t] = "none"
        /\ left'[t] = {} /\ swept'[t] = {} /\ cur'[t] = "none" /\ call[t] = "none"
        /\ mode \in ModeKinds /\ ip' = ip
    BY <1>0, <1>6, BlockAssumption DEF TypeOK, StartBlock, Control, sweepVars, rowVars
  <2>2. CASE mode = "simulation"
    <3>1. FindExisting(t) /\ call' = call
      BY <1>6, <2>2 DEF StartBlock, netshVars
    <3> QED
      BY <1>0, <2>1, <2>2, <3>1, FindTypes, FindsRow DEF Control, Calling, On
  <2>3. CASE mode = "pending_connector"
    <3>1. Done(t) /\ call' = call
      BY <1>6, <2>3 DEF StartBlock, netshVars
    <3> QED
      BY <1>0, <2>1, <3>1, DoneOrderly
  <2>4. CASE mode = "windows_firewall"
    <3>1. Calls(t, "clear") /\ UNCHANGED <<req, found>>
      BY <1>6, <2>4 DEF StartBlock, foundVars
    <3> QED
      BY <1>0, <2>1, <2>4, <3>1, CallsTypes DEF Control, Calling
  <2> QED
    BY <2>1, <2>2, <2>3, <2>4 DEF ModeKinds
<1>7. CASE BlockApplied(t)
  <2>1. /\ pc[t] = "netsh" /\ req[t].op = "block" /\ req[t] \in Request /\ mode = "windows_firewall"
        /\ left'[t] = {} /\ swept'[t] = {} /\ cur'[t] = "none" /\ call'[t] = "none" /\ ip' = ip
    BY <1>0, <1>7 DEF BlockApplied, Returned, Control, Calling, sweepVars, rowVars
  <2>2. CASE FindExisting(t)
    BY <1>0, <2>1, <2>2, FindTypes, FindsRow DEF Control, Calling, On
  <2>3. CASE Done(t)
    BY <1>0, <2>1, <2>3, DoneOrderly
  <2> QED
    BY <1>7, <2>2, <2>3 DEF BlockApplied
<1>8. CASE FindBlocked(t)
  <2>1. /\ pc[t] = "start" /\ req[t].op = "unblock" /\ req[t] \in Request
        /\ left'[t] = {} /\ swept'[t] = {} /\ cur'[t] = "none" /\ call[t] = "none" /\ ip' = ip
    BY <1>0, <1>8 DEF FindBlocked, Control, sweepVars, rowVars
  <2>2. PICK f \in Finds(t) :
           \/ /\ mode = "windows_firewall" /\ found' = [found EXCEPT ![t] = f]
              /\ Calls(t, "remove") /\ UNCHANGED <<req, read>>
           \/ /\ mode = "simulation" /\ found' = [found EXCEPT ![t] = f]
              /\ Goto(t, "record") /\ UNCHANGED <<req, read, netshVars>>
           \/ Done(t) /\ UNCHANGED netshVars
    BY <1>8 DEF FindBlocked
  <2>3. f # "none" => ip[f] = req[t].ip
    BY <1>0, FindsRow DEF On
  <2>4. CASE mode = "windows_firewall" /\ found' = [found EXCEPT ![t] = f]
             /\ Calls(t, "remove") /\ UNCHANGED <<req, read>>
    <3>1. found'[t] = f
      BY <1>0, <2>4 DEF TypeOK
    <3> QED
      BY <1>0, <2>1, <2>3, <2>4, <3>1, CallsTypes DEF Control, Calling
  <2>5. CASE mode = "simulation" /\ found' = [found EXCEPT ![t] = f]
             /\ Goto(t, "record") /\ UNCHANGED <<req, read, netshVars>>
    <3>1. found'[t] = f /\ pc'[t] = "record" /\ call' = call
      BY <1>0, <2>5 DEF TypeOK, Goto, netshVars
    <3> QED
      BY <1>0, <2>1, <2>3, <2>5, <3>1 DEF Control, Calling
  <2>6. CASE Done(t) /\ UNCHANGED netshVars
    BY <1>0, <2>1, <2>6, DoneOrderly DEF netshVars
  <2> QED
    BY <2>2, <2>4, <2>5, <2>6
<1>9. CASE \/ UnblockApplied(t) \/ RecordUnblock(t)
           \/ \E timed \in BOOLEAN : RecordBlock(t, timed)
  <2>1. Done(t) /\ UNCHANGED <<left, cur, swept, call>>
    BY <1>9 DEF UnblockApplied, RecordUnblock, RecordBlock, sweepVars, netshVars
  <2>2. left[t] = {} /\ swept[t] = {} /\ cur[t] = "none" /\ call[t] = "none"
    BY <1>0, <1>9 DEF UnblockApplied, RecordUnblock, RecordBlock, Returned, Control, Calling
  <2> QED
    BY <1>0, <2>1, <2>2, DoneOrderly
<1> QED
  BY <1>1, <1>2, <1>3, <1>4, <1>5, <1>6, <1>7, <1>8, <1>9 DEF Step

\* Each step keeps the threads in order.
LEMMA StepOrderly ==
    ASSUME Orderly, [Next]_vars PROVE Orderly'
<1>1. ASSUME NEW t \in Threads, Step(t) \/ \E q \in Request : Ask(t, q) PROVE Orderly'
  BY <1>1, StepTypes, StepIsOwn, OthersOrderly, OwnOrderly DEF Orderly
<1>2. ASSUME UNCHANGED <<ip, pc, req, sweepVars, netshVars, found>>, mode' = mode \/ Quiet
      PROVE  Orderly'
  BY <1>2, StepTypes DEF Orderly, Control, Calling, Quiet, sweepVars, netshVars
<1>3. ASSUME NEW r \in Rows, Expire(r) PROVE Orderly'
  BY <1>2, <1>3 DEF Expire, foundVars
<1>4. ASSUME NEW m \in Modes, Switch(m) PROVE Orderly'
  BY <1>2, <1>4 DEF Switch, rowVars, foundVars
<1>5. CASE Crash
  BY <1>5, StepTypes DEF Orderly, Control, Calling, Crash
<1>6. CASE UNCHANGED vars
  BY <1>2, <1>6 DEF vars, rowVars, foundVars
<1> QED
  BY <1>1, <1>3, <1>4, <1>5, <1>6 DEF Next

-----------------------------------------------------------------------------
(***************************************************************************)
(* Who deals with an address, and what becomes of the others.              *)
(***************************************************************************)

\* What is said of an address is said of the threads that deal with it.
LEMMA NotAbout ==
    ASSUME Orderly', NEW u \in Threads, NEW a \in Addresses, ~Deals(u, a)'
    PROVE  /\ Knows(u, a)' /\ AddsBoth(u, a)' /\ LeavesNone(u, a)'
           /\ ~Blocks(u, a)' /\ ~Recorded(u, a)' /\ \A r \in On(a)' : ~Lifts(u, r)'
<1>1. /\ Control(u)' /\ Calling(u)' /\ (cur'[u] # "none" => cur'[u] \in Rows)
      /\ swept'[u] \subseteq Rows
  BY DEF Orderly, TypeOK
<1>2. ~(req'[u].op \in {"block", "unblock"} /\ req'[u].ip = a)
  BY DEF Deals
<1>3. \A r \in Rows : ip'[r] = a => r \notin swept'[u] /\ r \notin left'[u] /\ cur'[u] # r
  BY DEF Deals, Holds
<1>4. pc'[u] = "netsh" => Target(u)' # a
  BY <1>1, <1>2, <1>3 DEF Target, Calling
<1>5. Knows(u, a)' /\ ~Blocks(u, a)' /\ ~Recorded(u, a)'
  BY <1>2, <1>3 DEF Knows, Holds, Recording, Blocks, Recorded
<1>6. AddsBoth(u, a)' /\ LeavesNone(u, a)'
  BY <1>1, <1>2, <1>3, <1>4, <1>5 DEF AddsBoth, LeavesNone
<1>7. ASSUME NEW r \in On(a)' PROVE ~Lifts(u, r)'
  <2>1. r \in Rows /\ ip'[r] = a /\ r # "none"
    BY Absent DEF On
  <2> QED
    BY <1>1, <1>2, <1>3, <2>1 DEF Lifts, Control
<1> QED
  BY <1>5, <1>6, <1>7

\* A thread that does not deal with it neither blocks it nor lifts its rows.
LEMMA NotYetAbout ==
    ASSUME Orderly, NEW u \in Threads, NEW a \in Addresses, ~Deals(u, a)
    PROVE  ~Blocks(u, a) /\ ~Recorded(u, a) /\ \A r \in On(a) : ~Lifts(u, r)
<1>1. ~(req[u].op \in {"block", "unblock"} /\ req[u].ip = a)
  BY DEF Deals
<1>2. ASSUME NEW r \in On(a) PROVE ~Lifts(u, r)
  <2>1. r \in Rows /\ ip[r] = a /\ r # "none" /\ ~Holds(u, r) /\ Control(u)
    BY Absent DEF On, Deals, Orderly
  <2> QED
    BY <1>1, <2>1 DEF Lifts, Holds, Control
<1> QED
  BY <1>1, <1>2 DEF Blocks, Recorded

\* The others deal with what they dealt with.
LEMMA OthersDeal ==
    ASSUME Orderly, NEW t \in Threads, OnlyOf(t), NEW u \in Threads, u # t, NEW a
    PROVE  Deals(u, a)' <=> Deals(u, a)
<1>1. \A r \in Rows : (Holds(u, r)' <=> Holds(u, r)) /\ (Holds(u, r) => ip'[r] = ip[r])
  BY DEF OnlyOf, Holds
<1> QED
  BY <1>1 DEF OnlyOf, Deals

\* While a block is served that has not raced, no other request is about it.
LEMMA BlockIsAlone ==
    ASSUME NEW t \in Threads, NEW a, ~Raced(a), req[t].op = "block", req[t].ip = a,
           Orderly, OnlyOf(t)
    PROVE  \A u \in Threads : u # t => ~Deals(u, a) /\ ~Deals(u, a)'
BY OthersDeal DEF Raced

\* The thread that steps deals with no more than before.
LEMMA OwnDeals ==
    ASSUME Orderly, NEW t \in Threads, Step(t)
    PROVE  /\ req'[t] = req[t] \/ req'[t] = NoRequest
           /\ \A r \in Rows : Holds(t, r)' => Holds(t, r)
<1>0. TypeOK /\ Control(t) /\ "none" \notin Rows
  BY Absent DEF Orderly
<1>1. ASSUME NEW r \in Rows, SweepRow(t, r)
      PROVE  req' = req /\ \A s \in Rows : Holds(t, s)' => Holds(t, s)
  BY <1>0, <1>1 DEF TypeOK, SweepRow, Holds
<1>2. CASE SweepRemoved(t)
  BY <1>0, <1>2 DEF TypeOK, SweepRemoved, Holds
<1>3. CASE SweepCommit(t)
  BY <1>0, <1>3, DoneTypes DEF TypeOK, SweepCommit, Holds
<1>4. ASSUME NEW fails \in BOOLEAN, NEW carried \in BOOLEAN,
             DeleteRule(t, fails, carried) \/ AddRule(t, fails, carried)
      PROVE  UNCHANGED <<req, sweepVars>>
  BY <1>4 DEF DeleteRule, AddRule, Netsh
<1>5. CASE StartBlock(t)
  BY <1>0, <1>5, DoneTypes, FindTypes DEF StartBlock, Holds, sweepVars
<1>6. CASE BlockApplied(t)
  BY <1>0, <1>6, DoneTypes, FindTypes DEF BlockApplied, Holds, sweepVars
<1>7. CASE FindBlocked(t)
  <2>1. UNCHANGED req \/ Done(t)
    BY <1>7 DEF FindBlocked
  <2> QED
    BY <1>0, <1>7, <2>1, DoneTypes DEF FindBlocked, Holds, sweepVars
<1>8. CASE \/ UnblockApplied(t) \/ RecordUnblock(t)
           \/ \E timed \in BOOLEAN : RecordBlock(t, timed)
  <2>1. Done(t) /\ UNCHANGED sweepVars
    BY <1>8 DEF UnblockApplied, RecordUnblock, RecordBlock
  <2> QED
    BY <1>0, <2>1, DoneTypes DEF Holds, sweepVars
<1> QED
  BY <1>1, <1>2, <1>3, <1>4, <1>5, <1>6, <1>7, <1>8 DEF Step, Holds, sweepVars

\* So the thread deals with no other address, and no block races by a step.
LEMMA StepDoesNotRace ==
    ASSUME Orderly, NEW t \in Threads, Step(t), NEW a
    PROVE  /\ Deals(t, a)' => Deals(t, a)
           /\ Raced(a)' => Raced(a)
<1>1. OnlyOf(t) /\ NoRequest.op = "none"
  BY StepIsOwn, Absent DEF Orderly
<1>2. ASSUME Deals(t, a)' PROVE Deals(t, a)
  <2>1. \A r \in Rows : Holds(t, r)' => Holds(t, r) /\ ip'[r] = ip[r]
    BY <1>1, OwnDeals DEF OnlyOf
  <2> QED
    BY <1>1, <1>2, <2>1, OwnDeals DEF Deals
<1>3. \A u \in Threads : Deals(u, a)' => Deals(u, a)
  BY <1>1, <1>2, OthersDeal
<1>4. \A u \in Threads : req'[u].op = "block" => req'[u] = req[u]
  BY <1>1, OwnDeals DEF OnlyOf
<1> QED
  BY <1>2, <1>3, <1>4 DEF Raced

\* Fewer rows and fewer rules leave what is said of another thread that does not
\* block the address.
LEMMA OthersKeep ==
    ASSUME Orderly, NEW a \in Addresses, OneRow(a), NEW t \in Threads, OnlyOf(t),
           NEW u \in Threads, u # t, ~(req[u].op = "block" /\ req[u].ip = a),
           On(a)' \subseteq On(a), fw'[a] \subseteq fw[a]
    PROVE  /\ Knows(u, a)'
           /\ AddsBoth(u, a) => AddsBoth(u, a)'
           /\ LeavesNone(u, a) => LeavesNone(u, a)'
<1>1. /\ pc'[u] = pc[u] /\ req'[u] = req[u] /\ left'[u] = left[u] /\ cur'[u] = cur[u]
      /\ swept'[u] = swept[u] /\ call'[u] = call[u] /\ dir'[u] = dir[u] /\ ok'[u] = ok[u]
      /\ found'[u] = found[u]
      /\ \A r \in Rows : Holds(u, r) => ip'[r] = ip[r]
  BY DEF OnlyOf
<1>2. Knows(u, a) /\ swept[u] \subseteq Rows /\ (cur[u] # "none" => cur[u] \in Rows)
  BY DEF OneRow, Orderly, TypeOK
<1>3. ~Blocks(u, a) /\ ~Blocks(u, a)' /\ ~Recorded(u, a)'
  BY <1>1 DEF Blocks, Recorded
<1>4. Target(u)' = Target(u) /\ \A r \in swept[u] : ip'[r] = ip[r]
  BY <1>1, <1>2 DEF Target, Holds
<1>5. Knows(u, a)'
  <2>1. \A r \in Rows : Holds(u, r)' => Holds(u, r)
    BY <1>1 DEF Holds
  <2> QED
    BY <1>1, <1>2, <2>1 DEF Knows, Recording
<1>6. AddsBoth(u, a) => AddsBoth(u, a)'
  BY <1>1, <1>3, <1>4 DEF AddsBoth
<1>7. LeavesNone(u, a) => LeavesNone(u, a)'
  BY <1>1, <1>3, <1>4 DEF LeavesNone
<1> QED
  BY <1>5, <1>6, <1>7

\* A step of a thread that is about the address and adds neither rows nor rules
\* keeps what is said of it, when it does for that thread.
LEMMA StepKeeps ==
    ASSUME Orderly, NEW a \in Addresses, OneRow(a), Kept(a), NEW t \in Threads, OnlyOf(t),
           Deals(t, a) \/ Deals(t, a)', ~Raced(a)', doubt[a] \subseteq doubt'[a],
           On(a)' \subseteq On(a), \A r \in On(a)' : enforcement'[r] = enforcement[r],
           fw'[a] \subseteq fw[a], Knows(t, a)',
           "rows" \notin doubt'[a] =>
              /\ AddsBoth(t, a)'
              /\ \A r \in On(a)' : fw[a] = Directions \/ Lifts(t, r) \/ Blocks(t, a) =>
                                   fw'[a] = Directions \/ Lifts(t, r)' \/ Blocks(t, a)',
           "rules" \notin doubt'[a] =>
              /\ LeavesNone(t, a)'
              /\ \/ fw'[a] = {}
                 \/ /\ On(a)' = On(a)
                    /\ Blocks(t, a) \/ Recorded(t, a) => Blocks(t, a)' \/ Recorded(t, a)'
    PROVE  Kept(a)'
<1>1. ASSUME NEW u \in Threads, u # t PROVE ~(req[u].op = "block" /\ req[u].ip = a)
  <2>1. req'[u] = req[u]
    BY <1>1 DEF OnlyOf
  <2> QED
    BY <1>1, <2>1 DEF OneRow, Raced
<1>2. \A u \in Threads : Knows(u, a)'
  BY <1>1, OthersKeep
<1>3. OneRow(a)'
  BY <1>2 DEF OneRow
<1>4. ASSUME "rows" \notin doubt'[a] PROVE Enforced(a)' /\ \A u \in Threads : AddsBoth(u, a)'
  <2>1. Enforced(a) /\ \A u \in Threads : AddsBoth(u, a)
    BY <1>4 DEF Kept
  <2>2. \A u \in Threads : AddsBoth(u, a)'
    BY <1>1, <1>4, <2>1, OthersKeep
  <2>3. ASSUME NEW r \in On(a)', enforcement'[r] = "windows_firewall"
        PROVE  fw'[a] = Directions \/ \E u \in Threads : Lifts(u, r)' \/ Blocks(u, a)'
    <3>1. \/ fw[a] = Directions \/ Lifts(t, r) \/ Blocks(t, a)
          \/ \E u \in Threads : u # t /\ (Lifts(u, r) \/ Blocks(u, a))
      BY <2>1, <2>3 DEF Enforced
    <3>2. \A u \in Threads : u # t => (Lifts(u, r) => Lifts(u, r)') /\ ~Blocks(u, a)
      BY <1>1 DEF OnlyOf, Lifts, Blocks
    <3> QED
      BY <1>4, <3>1, <3>2
  <2> QED
    BY <2>2, <2>3 DEF Enforced
<1>5. ASSUME "rules" \notin doubt'[a] PROVE Listed(a)' /\ \A u \in Threads : LeavesNone(u, a)'
  <2>1. Listed(a) /\ \A u \in Threads : LeavesNone(u, a)
    BY <1>5 DEF Kept
  <2>2. \A u \in Threads : LeavesNone(u, a)'
    BY <1>1, <1>5, <2>1, OthersKeep
  <2>3. Listed(a)'
    <3>1. \A u \in Threads : u # t => ~Blocks(u, a) /\ ~Recorded(u, a)
      BY <1>1 DEF Blocks, Recorded
    <3> QED
      BY <1>5, <2>1, <3>1 DEF Listed
  <2> QED
    BY <2>2, <2>3
<1> QED
  BY <1>3, <1>4, <1>5 DEF Kept

\* The step of a block that is alone, and may add a row or rules.
LEMMA AloneKeeps ==
    ASSUME Orderly', NEW a \in Addresses, NEW t \in Threads,
           \A u \in Threads : u # t => ~Deals(u, a)',
           \A r, s \in On(a)' : r = s, Knows(t, a)',
           "rows" \notin doubt'[a] => Enforced(a)' /\ AddsBoth(t, a)',
           "rules" \notin doubt'[a] => Listed(a)' /\ LeavesNone(t, a)'
    PROVE  Kept(a)'
<1>1. \A u \in Threads : u # t => Knows(u, a)' /\ AddsBoth(u, a)' /\ LeavesNone(u, a)'
  BY NotAbout
<1>2. ~Raced(a)'
  <2> SUFFICES ASSUME NEW u \in Threads, NEW v \in Threads, u # v,
                      req'[u].op = "block" /\ req'[u].ip = a, Deals(v, a)'
               PROVE  FALSE
    BY DEF Raced
  <2>1. Deals(u, a)'
    BY DEF Deals
  <2> QED
    BY <2>1
<1> QED
  BY <1>1, <1>2 DEF Kept, OneRow

\* An address that nobody who steps deals with stays as it is.
LEMMA ElsewhereKept ==
    ASSUME Orderly, Orderly', NEW a \in Addresses, Kept(a), NEW t \in Threads, OnlyOf(t),
           ~Deals(t, a), ~Deals(t, a)',
           On(a)' = On(a), \A r \in On(a) : enforcement'[r] = enforcement[r],
           fw'[a] = fw[a], doubt'[a] = doubt[a]
    PROVE  Kept(a)'
<1>1. ~Blocks(t, a) /\ ~Recorded(t, a) /\ \A r \in On(a) : ~Lifts(t, r)
  BY NotYetAbout
<1>2. /\ Knows(t, a)' /\ AddsBoth(t, a)' /\ LeavesNone(t, a)'
      /\ ~Blocks(t, a)' /\ ~Recorded(t, a)' /\ \A r \in On(a)' : ~Lifts(t, r)'
  BY NotAbout
<1>3. ASSUME NEW u \in Threads, u # t
      PROVE  /\ (Knows(u, a) => Knows(u, a)') /\ (AddsBoth(u, a) => AddsBoth(u, a)')
             /\ LeavesNone(u, a) => LeavesNone(u, a)'
             /\ (Blocks(u, a) <=> Blocks(u, a)') /\ (Recorded(u, a) <=> Recorded(u, a)')
             /\ \A r \in Rows : Lifts(u, r) => Lifts(u, r)'
  <2>1. /\ pc'[u] = pc[u] /\ req'[u] = req[u] /\ left'[u] = left[u] /\ cur'[u] = cur[u]
        /\ swept'[u] = swept[u] /\ call'[u] = call[u] /\ dir'[u] = dir[u] /\ ok'[u] = ok[u]
        /\ found'[u] = found[u] /\ read'[u] = read[u] /\ mode' = mode
        /\ \A r \in Rows : Holds(u, r) => ip'[r] = ip[r]
    BY <1>3 DEF OnlyOf
  <2>2. /\ swept[u] \subseteq Rows /\ (cur[u] # "none" => cur[u] \in Rows)
        /\ found[u] # "none" => found[u] \in Rows /\ ip[found[u]] = req[u].ip
    BY DEF Orderly, TypeOK, Control
  <2>3. Target(u)' = Target(u) /\ \A r \in swept[u] : ip'[r] = ip[r]
    BY <2>1, <2>2 DEF Target, Holds
  <2>4. /\ (Blocks(u, a) <=> Blocks(u, a)') /\ (Recorded(u, a) <=> Recorded(u, a)')
        /\ \A r \in Rows : Lifts(u, r) => Lifts(u, r)'
    BY <2>1 DEF Blocks, Recorded, Lifts
  <2>5. ASSUME Knows(u, a) PROVE Knows(u, a)'
    <3>1. ASSUME NEW r \in Rows, Holds(u, r)', ip'[r] = a PROVE On(a)' \subseteq {r}
      <4>1. Holds(u, r) /\ ip[r] = a
        BY <2>1, <3>1 DEF Holds
      <4> QED
        BY <2>5, <4>1 DEF Knows
    <3>2. ASSUME Recording(u, a)'
          PROVE  /\ On(a)' \subseteq {found'[u]}
                 /\ req'[u].op = "block" /\ found'[u] # "none" =>
                       active'[found'[u]] /\ read'[u].enforcement = enforcement'[found'[u]]
      <4>1. Recording(u, a) /\ req[u].ip = a
        BY <2>1, <3>2 DEF Recording
      <4>2. ASSUME req[u].op = "block", found[u] # "none" PROVE found[u] \in On(a) /\ found[u] \in On(a)'
        BY <2>2, <2>5, <4>1, <4>2 DEF Knows, On
      <4>3. ASSUME NEW r \in On(a)' PROVE active'[r]
        BY DEF On
      <4> QED
        BY <2>1, <2>5, <4>1, <4>2, <4>3 DEF Knows
    <3> QED
      BY <3>1, <3>2 DEF Knows
  <2>6. AddsBoth(u, a) => AddsBoth(u, a)'
    BY <2>1, <2>3, <2>4 DEF AddsBoth
  <2>7. LeavesNone(u, a) => LeavesNone(u, a)'
    BY <2>1, <2>3, <2>4 DEF LeavesNone
  <2> QED
    BY <2>4, <2>5, <2>6, <2>7
<1>4. OneRow(a) => OneRow(a)'
  <2>1. ASSUME NEW u \in Threads, NEW v \in Threads, u # v,
               req'[u].op = "block", req'[u].ip = a, Deals(v, a)'
        PROVE  Raced(a)
    <3>1. u # t /\ v # t
      BY <2>1 DEF Deals
    <3>2. req[u] = req'[u] /\ Deals(v, a)
      BY <2>1, <3>1, OthersDeal DEF OnlyOf
    <3> QED
      BY <2>1, <3>2 DEF Raced
  <2>2. Raced(a)' => Raced(a)
    BY <2>1 DEF Raced
  <2> QED
    BY <1>2, <1>3, <2>2 DEF OneRow
<1>5. Enforced(a) => Enforced(a)'
  BY <1>1, <1>3 DEF Enforced, On
<1>6. Listed(a) => Listed(a)'
  BY <1>1, <1>3 DEF Listed
<1> QED
  BY <1>2, <1>3, <1>4, <1>5, <1>6 DEF Kept

-----------------------------------------------------------------------------
(***************************************************************************)
(* What is kept: the sweep.                                                *)
(***************************************************************************)

\* Lifted rows are on no more, and the others are as they were.
LEMMA LiftedRows ==
    ASSUME NEW S, Lift(S), ip' = ip, NEW a
    PROVE  On(a)' = On(a) \ S /\ \A r \in On(a) \ S : enforcement'[r] = enforcement[r]
BY DEF Lift, On

\* A step that is not about the address.
LEMMA Elsewhere ==
    ASSUME Orderly, Orderly', NEW a \in Addresses, Kept(a), NEW t \in Threads, Step(t),
           ~Deals(t, a)
    PROVE  Kept(a)'
<1>0. /\ TypeOK /\ Control(t) /\ OnlyOf(t) /\ ~Deals(t, a)' /\ "none" \notin Rows
      /\ ~(req[t].op \in {"block", "unblock"} /\ req[t].ip = a)
      /\ \A r \in Rows : Holds(t, r) => ip[r] # a
  BY StepIsOwn, StepDoesNotRace, Absent DEF Orderly, Deals
<1> SUFFICES /\ On(a)' = On(a) /\ \A r \in On(a) : enforcement'[r] = enforcement[r]
             /\ fw'[a] = fw[a] /\ doubt'[a] = doubt[a]
  BY <1>0, ElsewhereKept
<1>1. CASE SweepRemoved(t) \/ BlockApplied(t) \/ FindBlocked(t) \/ \E r \in Rows : SweepRow(t, r)
  BY <1>1 DEF SweepRemoved, BlockApplied, FindBlocked, SweepRow, On, rowVars, faultVars
<1>2. CASE SweepCommit(t)
  <2>1. Lift(swept[t]) /\ UNCHANGED <<fw, ip, doubt>>
    BY <1>2 DEF SweepCommit, faultVars
  <2>2. On(a) \ swept[t] = On(a)
    BY <1>0 DEF On, Holds
  <2> QED
    BY <2>1, <2>2, LiftedRows
<1>3. ASSUME NEW fails \in BOOLEAN, NEW carried \in BOOLEAN,
             DeleteRule(t, fails, carried) \/ AddRule(t, fails, carried)
      PROVE  /\ On(a)' = On(a) /\ \A r \in On(a) : enforcement'[r] = enforcement[r]
             /\ fw'[a] = fw[a] /\ doubt'[a] = doubt[a]
  <2>1. pc[t] = "netsh" /\ UNCHANGED rowVars
    BY <1>3 DEF DeleteRule, AddRule, Netsh
  <2>2. Target(t) # a
    BY <2>1, TargetOf
  <2>3. fw'[a] = fw[a] /\ doubt'[a] = doubt[a]
    BY <1>0, <1>3, <2>2 DEF TypeOK, DeleteRule, AddRule, Netsh, Doubt
  <2> QED
    BY <2>1, <2>3 DEF On, rowVars
<1>4. CASE StartBlock(t)
  BY <1>0, <1>4 DEF TypeOK, StartBlock, On, rowVars
<1>5. ASSUME NEW timed \in BOOLEAN, RecordBlock(t, timed)
      PROVE  /\ On(a)' = On(a) /\ \A r \in On(a) : enforcement'[r] = enforcement[r]
             /\ fw'[a] = fw[a] /\ doubt'[a] = doubt[a]
  <2>1. req[t].ip # a /\ fw' = fw /\ doubt'[a] = doubt[a]
    BY <1>0, <1>5 DEF TypeOK, RecordBlock, Doubt
  <2>2. CASE found[t] = "none"
    <3>1. PICK r \in Free :
             /\ ip' = [ip EXCEPT ![r] = req[t].ip] /\ active' = [active EXCEPT ![r] = TRUE]
             /\ enforcement' = [enforcement EXCEPT ![r] = Label]
      BY <1>5, <2>2 DEF RecordBlock
    <3>2. r \in Rows /\ ~active[r]
      BY DEF Free
    <3> QED
      BY <1>0, <2>1, <3>1, <3>2 DEF TypeOK, On
  <2>3. CASE found[t] # "none"
    <3>1. found[t] \in Rows /\ ip[found[t]] # a
      BY <1>0, <2>1, <2>3 DEF TypeOK, Control
    <3>2. /\ UNCHANGED <<ip, active>>
          /\ \A r \in Rows : r # found[t] => enforcement'[r] = enforcement[r]
      BY <1>0, <1>5, <2>3 DEF TypeOK, RecordBlock, rowVars
    <3> QED
      BY <2>1, <3>1, <3>2 DEF On
  <2> QED
    BY <2>2, <2>3
<1>6. CASE UnblockApplied(t) \/ RecordUnblock(t)
  <2>1. PICK S : Lift(S) /\ S \subseteq {found[t]} /\ UNCHANGED <<fw, ip, doubt>>
    BY <1>6 DEF UnblockApplied, RecordUnblock, faultVars
  <2>2. req[t].op = "unblock"
    BY <1>6 DEF UnblockApplied, RecordUnblock
  <2>3. On(a) \ S = On(a)
    BY <1>0, <2>1, <2>2 DEF On, Control
  <2> QED
    BY <2>1, <2>3, LiftedRows
<1> QED
  BY <1>1, <1>2, <1>3, <1>4, <1>5, <1>6 DEF Step

\* A new request: what its sweep lifts without the firewall is not enforced by it.
LEMMA AskKeeps ==
    ASSUME Orderly, Orderly', NEW a \in Addresses, Kept(a), NEW t \in Threads,
           NEW q \in Request, Ask(t, q)
    PROVE  Kept(a)'
<1>0. /\ TypeOK /\ Control(t) /\ OnlyOf(t) /\ pc[t] = "idle" /\ "none" \notin Rows
      /\ NoRequest.op = "none" /\ UNCHANGED <<fw, rowVars>> /\ pc'[t] = "sweep" /\ cur'[t] = "none"
      /\ swept'[t] = {r \in Expired : enforcement[r] # "windows_firewall"}
      /\ left'[t] \subseteq Expired
      /\ doubt'[a] = doubt[a] \union IF Raced(a)' THEN Doubts ELSE {}
  <2>1. TypeOK /\ Control(t) /\ OnlyOf(t) /\ pc[t] = "idle"
    BY StepIsOwn DEF Orderly, Ask
  <2>2. cur[t] = "none" /\ cur' = cur
    BY <2>1 DEF Control, Ask
  <2>3. doubt'[a] = doubt[a] \union IF Raced(a)' THEN Doubts ELSE {}
    BY DEF Ask
  <2>4. /\ pc'[t] = "sweep" /\ left'[t] \subseteq Expired
        /\ swept'[t] = {r \in Expired : enforcement[r] # "windows_firewall"}
    BY <2>1 DEF TypeOK, Ask, Goto
  <2> QED
    BY <2>1, <2>2, <2>3, <2>4, Absent DEF Ask
<1>1. CASE Raced(a)'
  <2>1. doubt'[a] = Doubts
    BY <1>0, <1>1 DEF TypeOK
  <2> QED
    BY <2>1 DEF Kept, Doubts
<1>2. CASE ~Raced(a)' /\ ~Deals(t, a)'
  <2>1. ~Deals(t, a)
    BY <1>0 DEF Deals, Holds, Control
  <2> QED
    BY <1>0, <1>2, <2>1, ElsewhereKept DEF On, rowVars
<1>3. CASE ~Raced(a)' /\ Deals(t, a)'
  <2>0. On(a)' = On(a) /\ doubt'[a] = doubt[a] /\ ip' = ip /\ enforcement' = enforcement
    BY <1>0, <1>3 DEF On, rowVars
  <2> SUFFICES ASSUME doubt[a] # Doubts PROVE Kept(a)'
    BY <2>0 DEF Kept, Doubts
  <2>1. OneRow(a)
    BY DEF Kept
  <2>2. ASSUME NEW r \in Expired, ip[r] = a PROVE On(a) \subseteq {r} /\ r \in On(a)
    BY <2>1, <2>2 DEF Expired, On, OneRow
  <2>3. Knows(t, a)'
    BY <1>0, <2>0, <2>2 DEF Knows, Holds, Recording
  <2>4. AddsBoth(t, a)'
    BY <1>0 DEF AddsBoth, Blocks, Recorded
  <2>5. ~Blocks(t, a) /\ ~Recorded(t, a) /\ \A r \in On(a)' : ~Lifts(t, r)
    BY <1>0, <2>0 DEF Blocks, Recorded, Lifts, Control, On
  <2>6. ASSUME "rules" \notin doubt[a] PROVE LeavesNone(t, a)'
    <3>1. ASSUME NEW r \in swept'[t], ip[r] = a PROVE fw[a] = {}
      <4>1. r \in Expired /\ enforcement[r] # "windows_firewall"
        BY <1>0, <3>1
      <4>2. Listed(a) /\ \A s \in On(a) : enforcement[s] # "windows_firewall"
        BY <2>2, <2>6, <3>1, <4>1 DEF Kept
      <4>3. ASSUME NEW u \in Threads PROVE ~Blocks(u, a) /\ ~Recorded(u, a)
        BY <1>0, <1>3, <2>5, <4>3 DEF OnlyOf, Blocks, Recorded, Raced
      <4> QED
        BY <4>2, <4>3 DEF Listed
    <3> QED
      BY <1>0, <2>0, <3>1 DEF LeavesNone, Blocks
  <2> QED
    BY <1>0, <1>3, <2>0, <2>1, <2>3, <2>4, <2>5, <2>6, StepKeeps
<1> QED
  BY <1>1, <1>2, <1>3

\* The sweep, up to the commit.
LEMMA SweepKeeps ==
    ASSUME Orderly, Orderly', NEW a \in Addresses, Kept(a), NEW t \in Threads,
           Deals(t, a), Step(t),
           SweepRemoved(t) \/ SweepCommit(t) \/ \E r \in Rows : SweepRow(t, r)
    PROVE  Kept(a)'
<1>0. /\ TypeOK /\ TypeOK' /\ Control(t) /\ Calling(t) /\ Control(t)' /\ OnlyOf(t)
      /\ UNCHANGED <<fw, ip, doubt>> /\ "none" \notin Rows
  BY StepIsOwn, Absent DEF Orderly, SweepRemoved, SweepCommit, SweepRow, rowVars, faultVars
<1> SUFFICES ASSUME doubt[a] # Doubts PROVE Kept(a)'
  BY <1>0 DEF Kept, Doubts
<1>1. OneRow(a) /\ ~Raced(a)' /\ Knows(t, a)
  BY StepDoesNotRace DEF Kept, OneRow
<1>2. /\ "rows" \notin doubt[a] => AddsBoth(t, a)
      /\ "rules" \notin doubt[a] => LeavesNone(t, a)
  BY DEF Kept
<1>3. ASSUME NEW r \in Rows, SweepRow(t, r) PROVE Kept(a)'
  <2>1. /\ pc[t] = "sweep" /\ pc'[t] = "netsh" /\ cur'[t] = r /\ call'[t] = "remove" /\ dir'[t] = "in"
        /\ ok'[t] = TRUE /\ r # "none" /\ UNCHANGED <<rowVars, swept>>
        /\ \A s \in Rows : Holds(t, s)' => Holds(t, s)
    <3>1. UNCHANGED <<rowVars, swept>> /\ pc[t] = "sweep" /\ cur'[t] = r /\ r # "none" /\ Calls(t, "remove")
      BY <1>0, <1>3 DEF TypeOK, SweepRow
    <3> QED
      BY <1>0, <3>1, CallsTypes, OwnDeals
  <2>2. On(a)' = On(a) /\ enforcement' = enforcement
    BY <2>1 DEF On, rowVars
  <2>3. Knows(t, a)'
    BY <1>0, <1>1, <2>1, <2>2 DEF Knows, Recording
  <2>4. AddsBoth(t, a)' /\ ("rules" \notin doubt[a] => LeavesNone(t, a)')
    BY <1>0, <1>2, <2>1 DEF AddsBoth, LeavesNone, Blocks, Recorded
  <2>5. ~Blocks(t, a) /\ ~Recorded(t, a) /\ \A s \in Rows : Lifts(t, s) => Lifts(t, s)'
    BY <1>0, <2>1 DEF Blocks, Recorded, Lifts, Control
  <2>6. \A s \in On(a) : s \in Rows
    BY DEF On
  <2> QED
    BY <1>0, <1>1, <2>2, <2>3, <2>4, <2>5, <2>6, StepKeeps
<1>4. CASE SweepRemoved(t)
  <2>1. /\ pc[t] = "netsh" /\ call[t] = "none" /\ cur[t] # "none" /\ cur[t] \in Rows
        /\ pc'[t] = "sweep" /\ cur'[t] = "none" /\ UNCHANGED <<rowVars, req, left>>
        /\ swept'[t] = IF ok[t] THEN swept[t] \union {cur[t]} ELSE swept[t]
    BY <1>0, <1>4 DEF TypeOK, SweepRemoved, Returned, Goto
  <2>2. On(a)' = On(a) /\ enforcement' = enforcement
    BY <2>1 DEF On, rowVars
  <2>3. Knows(t, a)'
    BY <1>0, <1>1, <2>1, <2>2 DEF Knows, Holds, Recording
  <2>4. AddsBoth(t, a)' /\ ~Blocks(t, a) /\ ~Recorded(t, a)
    BY <2>1 DEF AddsBoth, Blocks, Recorded
  <2>5. Target(t) = ip[cur[t]]
    BY <2>1 DEF Target
  <2>6. ASSUME "rows" \notin doubt[a], NEW r \in On(a), Lifts(t, r) PROVE Lifts(t, r)'
    BY <1>2, <2>1, <2>5, <2>6 DEF Lifts, AddsBoth, On
  <2>7. ASSUME "rules" \notin doubt[a] PROVE LeavesNone(t, a)'
    BY <1>0, <1>2, <2>1, <2>4, <2>5, <2>7 DEF LeavesNone, Blocks
  <2> QED
    BY <1>0, <1>1, <2>2, <2>3, <2>4, <2>6, <2>7, StepKeeps
<1>5. CASE SweepCommit(t)
  <2>1. /\ pc[t] = "sweep" /\ left[t] = {} /\ left'[t] = {} /\ swept'[t] = {} /\ cur[t] = "none"
        /\ cur'[t] = "none" /\ Lift(swept[t])
    BY <1>0, <1>5 DEF TypeOK, SweepCommit, Control
  <2>2. pc'[t] \in {"idle", "start"}
    BY <1>0, <1>5, DoneTypes DEF TypeOK, SweepCommit, Goto
  <2>3. On(a)' = On(a) \ swept[t] /\ \A r \in On(a)' : enforcement'[r] = enforcement[r]
    BY <1>0, <2>1, LiftedRows
  <2>4. Knows(t, a)' /\ AddsBoth(t, a)' /\ LeavesNone(t, a)'
    BY <1>0, <2>1, <2>2 DEF Knows, Holds, Recording, AddsBoth, LeavesNone, Blocks, Recorded
  <2>5. ~Blocks(t, a) /\ ~Recorded(t, a) /\ \A r \in On(a)' : ~Lifts(t, r)
    BY <1>0, <2>1, <2>3 DEF Blocks, Recorded, Lifts, On
  <2>6. "rules" \notin doubt[a] => fw[a] = {} \/ On(a)' = On(a)
    BY <1>2, <2>3 DEF LeavesNone, On
  <2> QED
    BY <1>0, <1>1, <2>3, <2>4, <2>5, <2>6, StepKeeps
<1> QED
  BY <1>3, <1>4, <1>5

-----------------------------------------------------------------------------
(***************************************************************************)
(* What is kept: the connector.                                            *)
(***************************************************************************)

\* A rule is deleted, or is not.
LEMMA DeleteKeeps ==
    ASSUME Orderly, Orderly', NEW a \in Addresses, Kept(a), NEW t \in Threads,
           Deals(t, a), Step(t), NEW fails \in BOOLEAN, NEW carried \in BOOLEAN,
           DeleteRule(t, fails, carried)
    PROVE  Kept(a)'
<1>0. /\ TypeOK /\ TypeOK' /\ Control(t) /\ Calling(t) /\ OnlyOf(t) /\ pc[t] = "netsh"
      /\ UNCHANGED <<mode, ip, pc, req, left, cur, swept, found>> /\ Target(t)' = Target(t)
      /\ On(a)' = On(a) /\ enforcement' = enforcement
      /\ \A r \in Rows : (Lifts(t, r) => Lifts(t, r)') /\ (Holds(t, r)' <=> Holds(t, r))
      /\ (Blocks(t, a) <=> Blocks(t, a)') /\ ~Recorded(t, a) /\ ~Recorded(t, a)'
  <2>1. pc[t] = "netsh" /\ UNCHANGED <<mode, rowVars, pc, req, sweepVars, found>>
    BY DEF DeleteRule, Netsh, foundVars
  <2> QED
    BY <2>1, StepIsOwn
       DEF Orderly, On, Lifts, Holds, Blocks, Recorded, Target, rowVars, sweepVars
<1>1. /\ call[t] \in {"clear", "undo", "remove"} /\ dir[t] \in Directions
      /\ ok'[t] = (ok[t] /\ ~(call[t] = "remove" /\ fails))
      /\ dir'[t] = IF dir[t] = "in" THEN "out" ELSE "in"
      /\ call'[t] = IF dir[t] = "in" THEN call[t] ELSE IF call[t] = "clear" THEN "add" ELSE "none"
  BY <1>0 DEF TypeOK, DeleteRule, Advance, Failed
<1>2. fw' = (IF carried THEN [fw EXCEPT ![Target(t)] = fw[Target(t)] \ {dir[t]}] ELSE fw) /\ (fails \/ carried)
  BY DEF DeleteRule, Netsh
<1>3. doubt' = [doubt EXCEPT ![Target(t)] = doubt[Target(t)] \union
                  IF ~fails \/ call[t] = "clear" THEN {}
                  ELSE IF call[t] = "undo" THEN {"rules"} ELSE {"rows"}]
  BY DEF DeleteRule, Doubt
<1>4. fw'[a] \subseteq fw[a] /\ doubt[a] \subseteq doubt'[a] /\ fw[a] \subseteq Directions
  BY <1>0, <1>2, <1>3 DEF TypeOK
<1> SUFFICES ASSUME doubt[a] # Doubts PROVE Kept(a)'
  BY <1>0, <1>4 DEF TypeOK, Kept, Doubts
<1>5. OneRow(a) /\ ~Raced(a)' /\ Knows(t, a)
  BY StepDoesNotRace DEF Kept, OneRow
<1>6. Knows(t, a)'
  <2>1. read' = read /\ active' = active
    BY DEF DeleteRule, Netsh, rowVars, foundVars
  <2> QED
    BY <1>0, <1>5, <2>1 DEF Knows, Recording
<1>7. /\ "rows" \notin doubt'[a] => AddsBoth(t, a)
      /\ "rules" \notin doubt'[a] => LeavesNone(t, a)
  BY <1>4 DEF Kept
<1>8. CASE a # Target(t)
  <2>1. fw'[a] = fw[a] /\ ~Blocks(t, a)
    BY <1>0, <1>2, <1>8 DEF TypeOK, Blocks, Target
  <2>2. AddsBoth(t, a)'
    BY <1>0, <1>8, <2>1 DEF AddsBoth
  <2>3. "rules" \notin doubt'[a] => LeavesNone(t, a)'
    BY <1>0, <1>7, <1>8, <2>1 DEF LeavesNone
  <2>4. \A r \in On(a) : r \in Rows
    BY DEF On
  <2> QED
    BY <1>0, <1>4, <1>5, <1>6, <2>1, <2>2, <2>3, <2>4, StepKeeps
<1>9. CASE a = Target(t)
  <2>1. /\ fw'[a] = IF carried THEN fw[a] \ {dir[t]} ELSE fw[a]
        /\ doubt'[a] = doubt[a] \union
              IF ~fails \/ call[t] = "clear" THEN {}
              ELSE IF call[t] = "undo" THEN {"rules"} ELSE {"rows"}
    BY <1>0, <1>2, <1>3, <1>9 DEF TypeOK
  <2>2. \A r \in swept[t] : LeavesNone(t, a) /\ ip[r] = a => fw'[a] = {}
    BY <1>4 DEF LeavesNone
  <2>3. CASE Blocks(t, a)
    <3>1. call[t] \in {"clear", "undo"} /\ swept[t] = {}
      BY <1>0, <1>1, <2>3 DEF Calling, Blocks
    <3>2. ASSUME "rows" \notin doubt'[a] PROVE AddsBoth(t, a)'
      <4>1. ok[t] /\ call[t] = "clear"
        BY <1>0, <1>7, <1>9, <3>1, <3>2 DEF AddsBoth
      <4> QED
        BY <1>0, <1>1, <4>1 DEF AddsBoth, Directions
    <3>3. ASSUME "rules" \notin doubt'[a] PROVE LeavesNone(t, a)'
      <4>1. /\ ~ok[t] => call[t] = "undo"
            /\ call[t] = "undo" => ~ok[t] /\ ~fails
            /\ call[t] = "undo" /\ dir[t] = "out" => "in" \notin fw[a]
        BY <1>7, <2>1, <2>3, <3>1, <3>3 DEF LeavesNone
      <4>2. call[t] = "undo" => "in" \notin fw'[a] /\ (dir[t] = "out" => fw'[a] = {})
        BY <1>1, <1>2, <1>4, <2>1, <4>1 DEF Directions
      <4> QED
        BY <1>0, <1>1, <2>3, <3>1, <4>1, <4>2 DEF LeavesNone, Directions
    <3> QED
      BY <1>0, <1>4, <1>5, <1>6, <2>3, <3>2, <3>3, StepKeeps
  <2>4. CASE ~Blocks(t, a)
    <3>1. call[t] = "remove" /\ \A r \in On(a) : Lifts(t, r)
      <4>1. CASE cur[t] # "none"
        <5>1. call[t] = "remove" /\ cur[t] \in Rows /\ ip[cur[t]] = a
          BY <1>0, <1>1, <1>9, <4>1, TargetOf DEF Calling
        <5> QED
          BY <1>5, <5>1 DEF Knows, Holds, Lifts
      <4>2. CASE cur[t] = "none"
        <5>1. req[t].ip = a
          BY <1>0, <1>9, <4>2, TargetOf
        <5>2. call[t] = "remove" /\ req[t].op = "unblock"
          BY <1>0, <1>1, <2>4, <4>2, <5>1 DEF Calling, Blocks
        <5> QED
          BY <1>0, <1>5, <4>2, <5>1, <5>2 DEF Knows, Recording, Lifts
      <4> QED
        BY <4>1, <4>2
    <3>2. \A r \in On(a) : Lifts(t, r)'
      BY <1>0, <3>1 DEF On
    <3>3. ASSUME "rows" \notin doubt'[a] PROVE AddsBoth(t, a)'
      <4>1. ok[t] /\ ~fails
        BY <1>0, <1>7, <1>9, <2>1, <3>1, <3>3 DEF AddsBoth
      <4> QED
        BY <1>0, <1>1, <2>4, <3>1, <4>1 DEF AddsBoth
    <3>4. ASSUME "rules" \notin doubt'[a] PROVE LeavesNone(t, a)'
      <4>1. ASSUME ok'[t] PROVE "in" \notin fw'[a] /\ (dir[t] = "out" => fw'[a] = {})
        <5>1. ok[t] /\ carried
          BY <1>1, <1>2, <3>1, <4>1
        <5>2. dir[t] = "out" => "in" \notin fw[a]
          BY <1>0, <1>7, <1>9, <2>4, <3>1, <3>4, <5>1 DEF LeavesNone
        <5> QED
          BY <1>1, <1>4, <2>1, <5>1, <5>2 DEF Directions
      <4> QED
        BY <1>0, <1>1, <1>7, <2>2, <2>4, <3>1, <3>4, <4>1 DEF LeavesNone, Directions
    <3> QED
      BY <1>0, <1>4, <1>5, <1>6, <2>4, <3>2, <3>3, <3>4, StepKeeps
  <2> QED
    BY <2>3, <2>4
<1> QED
  BY <1>8, <1>9

\* A rule is added, or is not.
LEMMA AddKeeps ==
    ASSUME Orderly, Orderly', NEW a \in Addresses, Kept(a), NEW t \in Threads,
           Deals(t, a), Step(t), NEW fails \in BOOLEAN, NEW carried \in BOOLEAN,
           AddRule(t, fails, carried)
    PROVE  Kept(a)'
<1>0. /\ TypeOK /\ TypeOK' /\ Calling(t) /\ OnlyOf(t) /\ pc[t] = "netsh" /\ call[t] = "add"
      /\ UNCHANGED <<ip, active, pc, req, left, cur, swept, found>>
  BY StepIsOwn DEF Orderly, AddRule, Netsh, rowVars, sweepVars, foundVars
<1>1. cur[t] = "none" /\ left[t] = {} /\ swept[t] = {} /\ req[t].op = "block"
  BY <1>0 DEF Calling
<1>2. req[t].ip = a /\ Target(t) = a /\ Target(t)' = a /\ Blocks(t, a)' /\ ~Recorded(t, a)'
  BY <1>0, <1>1, Absent DEF Deals, Holds, Target, Blocks, Recorded
<1>3. /\ ok'[t] = ~fails /\ (fails => call'[t] = "undo" /\ dir'[t] = "in")
      /\ ~fails => carried /\ dir'[t] = (IF dir[t] = "in" THEN "out" ELSE "in")
                   /\ call'[t] = (IF dir[t] = "in" THEN "add" ELSE "none")
      /\ dir[t] \in Directions
  BY <1>0 DEF TypeOK, AddRule, Netsh, Advance, Undone
<1>4. /\ carried => fw'[a] = fw[a] \union {dir[t]}
      /\ doubt'[a] = doubt[a] \union IF fails THEN {"rows"} ELSE {}
      /\ fw[a] \subseteq Directions
  BY <1>0, <1>2 DEF TypeOK, AddRule, Netsh, Doubt
<1> SUFFICES ASSUME doubt[a] # Doubts PROVE Kept(a)'
  BY <1>0, <1>4 DEF TypeOK, Kept, Doubts
<1>5. OneRow(a)
  BY DEF Kept
<1>6. \A u \in Threads : u # t => ~Deals(u, a)'
  BY <1>0, <1>1, <1>2, <1>5, BlockIsAlone DEF OneRow
<1>7. (\A r, s \in On(a)' : r = s) /\ Knows(t, a)'
  <2>1. On(a)' = On(a)
    BY <1>0 DEF On
  <2> QED
    BY <1>0, <1>1, <1>5, <2>1, Absent DEF OneRow, Knows, Holds, Recording
<1>8. ASSUME "rows" \notin doubt'[a] PROVE Enforced(a)' /\ AddsBoth(t, a)'
  <2>1. ~fails /\ AddsBoth(t, a) /\ Blocks(t, a)
    BY <1>0, <1>1, <1>2, <1>4, <1>8 DEF Kept, Blocks
  <2>2. AddsBoth(t, a)'
    BY <1>0, <1>2, <1>3, <1>4, <2>1 DEF AddsBoth, Directions
  <2> QED
    BY <1>2, <2>2 DEF Enforced
<1>9. Listed(a)' /\ LeavesNone(t, a)'
  <2>1. /\ ~ok'[t] => call'[t] = "undo"
        /\ call'[t] = "undo" => ~ok'[t] /\ dir'[t] = "in"
    BY <1>3
  <2> QED
    BY <1>0, <1>1, <1>2, <2>1 DEF Listed, LeavesNone
<1> QED
  BY <1>6, <1>7, <1>8, <1>9, AloneKeeps

-----------------------------------------------------------------------------
(***************************************************************************)
(* What is kept: blocks and unblocks.                                      *)
(***************************************************************************)

\* A request that is past its sweep and not at a row's rules deals with its own
\* address only.
LEMMA OwnAddress ==
    ASSUME Orderly, NEW a \in Addresses, NEW t \in Threads, Deals(t, a),
           pc[t] \in {"start", "record"} \/ (pc[t] = "netsh" /\ cur[t] = "none")
    PROVE  /\ req[t].ip = a /\ req[t].op \in {"block", "unblock"}
           /\ left[t] = {} /\ swept[t] = {} /\ cur[t] = "none"
           /\ \A r \in Rows : ~Holds(t, r)
<1>1. /\ left[t] = {} /\ swept[t] = {} /\ cur[t] = "none"
      /\ req[t].op \in {"block", "unblock"}
  BY DEF Orderly, Control, Calling
<1> QED
  BY <1>1, Absent DEF Deals, Holds

\* A block knows the row it finds.
LEMMA FindKnows ==
    ASSUME Orderly, NEW a \in Addresses, NEW t \in Threads, OneRow(a), FindExisting(t),
           req[t].op = "block", req[t].ip = a, \A r \in Rows : ~Holds(t, r)', On(a)' = On(a),
           UNCHANGED <<ip, active, enforcement>>
    PROVE  Knows(t, a)'
<1>1. /\ found'[t] \in Finds(t) /\ req' = req
      /\ found'[t] # "none" => read'[t].enforcement = enforcement[found'[t]]
  BY FindTypes DEF Orderly
<1>2. /\ found'[t] = "none" => On(a) = {}
      /\ found'[t] # "none" => found'[t] \in On(a)
  BY <1>1, FindsRow DEF Orderly
<1>3. On(a) \subseteq {found'[t]}
  BY <1>2 DEF OneRow
<1>4. found'[t] # "none" => active[found'[t]]
  BY <1>2 DEF On
<1> QED
  BY <1>1, <1>3, <1>4 DEF Knows

\* A block finds its row, is refused, or goes to the firewall.
LEMMA StartKeeps ==
    ASSUME Orderly, Orderly', NEW a \in Addresses, Kept(a), NEW t \in Threads,
           Deals(t, a), Step(t), StartBlock(t)
    PROVE  Kept(a)'
<1>0. /\ TypeOK /\ TypeOK' /\ Control(t) /\ OnlyOf(t) /\ pc[t] = "start" /\ req[t].op = "block"
      /\ UNCHANGED <<mode, fw, rowVars, left, cur, swept>> /\ mode \in ModeKinds
      /\ On(a)' = On(a) /\ enforcement' = enforcement
  <2>1. pc[t] = "start" /\ req[t].op = "block" /\ UNCHANGED <<mode, fw, rowVars, sweepVars>>
    BY DEF StartBlock
  <2> QED
    BY <2>1, StepIsOwn, BlockAssumption DEF Orderly, TypeOK, On, sweepVars, rowVars
<1>1. /\ req[t].ip = a /\ left[t] = {} /\ swept[t] = {} /\ cur[t] = "none"
      /\ \A r \in Rows : ~Holds(t, r)'
  BY <1>0, OwnAddress DEF Holds
<1>2. ~Blocks(t, a) /\ ~Recorded(t, a) /\ \A r \in On(a)' : ~Lifts(t, r)
  BY <1>0, <1>1, Absent DEF Blocks, Recorded, Lifts, On
<1>3. ASSUME doubt' = doubt, Knows(t, a)', AddsBoth(t, a)', LeavesNone(t, a)',
             doubt[a] # Doubts
      PROVE  Kept(a)'
  <2>1. OneRow(a) /\ ~Raced(a)'
    BY <1>3, StepDoesNotRace DEF Kept, OneRow
  <2> QED
    BY <1>0, <1>2, <1>3, <2>1, StepKeeps
<1>4. CASE mode = "simulation" /\ doubt[a] # Doubts
  <2>1. FindExisting(t) /\ doubt' = doubt
    BY <1>4 DEF StartBlock
  <2>2. Knows(t, a)'
    BY <1>0, <1>1, <1>4, <2>1, FindKnows DEF Kept, rowVars
  <2>3. pc'[t] = "record" /\ req' = req
    BY <1>0, <2>1, FindTypes
  <2>4. AddsBoth(t, a)' /\ LeavesNone(t, a)'
    BY <1>0, <1>1, <1>4, <2>3 DEF AddsBoth, LeavesNone, Blocks, Recorded
  <2> QED
    BY <1>3, <1>4, <2>1, <2>2, <2>4
<1>5. CASE mode = "pending_connector" /\ doubt[a] # Doubts
  <2>1. Done(t) /\ doubt' = doubt
    BY <1>5 DEF StartBlock
  <2>2. ~Deals(t, a)'
    BY <1>0, <1>1, <2>1, DoneTypes, Absent DEF Deals
  <2> QED
    BY <1>3, <1>5, <2>1, <2>2, NotAbout
<1>6. CASE mode = "windows_firewall" /\ doubt'[a] # Doubts
  <2>1. /\ Calls(t, "clear") /\ req' = req
        /\ doubt' = IF Alone(t) THEN [doubt EXCEPT ![req[t].ip] = {}] ELSE doubt
    BY <1>6 DEF StartBlock
  <2>2. pc'[t] = "netsh" /\ call'[t] = "clear" /\ ok'[t] = TRUE
    BY <1>0, <2>1, CallsTypes
  <2>3. (\A u \in Threads : u # t => ~Deals(u, a)') /\ (\A r, s \in On(a) : r = s)
    <3>1. CASE Alone(t)
      BY <1>0, <1>1, <3>1, OthersDeal DEF Alone, Blocked, On
    <3>2. CASE ~Alone(t)
      <4>1. OneRow(a)
        BY <1>6, <2>1, <3>2 DEF Kept
      <4> QED
        BY <1>0, <1>1, <4>1, BlockIsAlone DEF OneRow
    <3> QED
      BY <3>1, <3>2
  <2>4. Knows(t, a)' /\ Blocks(t, a)' /\ ~Recorded(t, a)'
    BY <1>0, <1>1, <2>1, <2>2 DEF Knows, Recording, Blocks, Recorded
  <2>5. AddsBoth(t, a)' /\ LeavesNone(t, a)' /\ Enforced(a)' /\ Listed(a)'
    BY <1>0, <1>1, <2>2, <2>4 DEF AddsBoth, LeavesNone, Enforced, Listed
  <2> QED
    BY <1>0, <2>3, <2>4, <2>5, AloneKeeps
<1>7. doubt' = doubt \/ mode = "windows_firewall"
  BY <1>0 DEF StartBlock, ModeKinds
<1>8. CASE doubt'[a] = Doubts
  BY <1>8 DEF Kept, Doubts
<1> QED
  BY <1>0, <1>4, <1>5, <1>6, <1>7, <1>8 DEF ModeKinds

\* The connector is left by a block.
LEMMA AppliedKeeps ==
    ASSUME Orderly, Orderly', NEW a \in Addresses, Kept(a), NEW t \in Threads,
           Deals(t, a), Step(t), BlockApplied(t)
    PROVE  Kept(a)'
<1>0. /\ TypeOK /\ TypeOK' /\ Calling(t) /\ OnlyOf(t) /\ pc[t] = "netsh" /\ req[t].op = "block"
      /\ cur[t] = "none" /\ call[t] = "none"
      /\ UNCHANGED <<mode, fw, rowVars, left, cur, swept, doubt>>
      /\ On(a)' = On(a) /\ enforcement' = enforcement
  <2>1. /\ pc[t] = "netsh" /\ req[t].op = "block" /\ cur[t] = "none" /\ call[t] = "none"
        /\ UNCHANGED <<mode, fw, rowVars, sweepVars, doubt>>
    BY DEF BlockApplied, Returned, faultVars
  <2> QED
    BY <2>1, StepIsOwn DEF Orderly, On, sweepVars, rowVars
<1>1. /\ req[t].ip = a /\ left[t] = {} /\ swept[t] = {}
      /\ \A r \in Rows : ~Holds(t, r)'
  BY <1>0, OwnAddress DEF Holds
<1>2. Blocks(t, a) /\ Target(t) = a /\ mode = "windows_firewall"
  BY <1>0, <1>1 DEF Blocks, Target, Calling
<1> SUFFICES ASSUME doubt[a] # Doubts PROVE Kept(a)'
  BY <1>0 DEF Kept, Doubts
<1>3. OneRow(a)
  BY DEF Kept
<1>4. (\A u \in Threads : u # t => ~Deals(u, a)') /\ (\A r, s \in On(a)' : r = s)
  BY <1>0, <1>1, <1>3, BlockIsAlone DEF OneRow
<1>5. /\ "rows" \notin doubt[a] => ok[t] /\ fw[a] = Directions
      /\ "rules" \notin doubt[a] => ok[t] \/ fw[a] = {}
  BY <1>0, <1>2 DEF Kept, AddsBoth, LeavesNone
<1>6. CASE ok[t]
  <2>1. FindExisting(t)
    BY <1>6 DEF BlockApplied
  <2>2. pc'[t] = "record" /\ req' = req
    BY <1>0, <2>1, FindTypes
  <2>3. Knows(t, a)'
    BY <1>0, <1>1, <1>3, <2>1, FindKnows DEF rowVars
  <2>4. Recorded(t, a)' /\ ~Blocks(t, a)'
    BY <1>0, <1>1, <1>2, <2>2 DEF Recorded, Blocks
  <2>5. "rows" \notin doubt[a] => AddsBoth(t, a)' /\ Enforced(a)'
    BY <1>0, <1>5, <2>2, <2>4 DEF AddsBoth, Enforced
  <2>6. LeavesNone(t, a)' /\ Listed(a)'
    BY <1>0, <1>1, <2>2, <2>4 DEF LeavesNone, Listed
  <2> QED
    BY <1>0, <1>4, <2>3, <2>5, <2>6, AloneKeeps
<1>7. CASE ~ok[t]
  <2>1. Done(t)
    BY <1>7 DEF BlockApplied
  <2>2. ~Deals(t, a)'
    BY <1>0, <1>1, <2>1, DoneTypes, Absent DEF Deals
  <2>3. "rules" \notin doubt[a] => Listed(a)'
    BY <1>0, <1>5, <1>7 DEF Listed
  <2> QED
    BY <1>0, <1>4, <1>5, <1>7, <2>2, <2>3, NotAbout, AloneKeeps
<1> QED
  BY <1>6, <1>7

\* The block is recorded.
LEMMA RecordKeeps ==
    ASSUME Orderly, Orderly', NEW a \in Addresses, Kept(a), NEW t \in Threads,
           Deals(t, a), Step(t), NEW timed \in BOOLEAN, RecordBlock(t, timed)
    PROVE  Kept(a)'
<1>0. /\ TypeOK /\ TypeOK' /\ Control(t) /\ OnlyOf(t) /\ pc[t] = "record" /\ req[t].op = "block"
      /\ UNCHANGED <<mode, fw, left, cur, swept>> /\ Done(t)
  BY StepIsOwn DEF Orderly, RecordBlock, sweepVars
<1>1. /\ req[t].ip = a /\ Recording(t, a)
      /\ \A r \in Rows : ~Holds(t, r)'
  BY <1>0, OwnAddress DEF Holds, Recording
<1>2. doubt'[a] = doubt[a] \union IF Relabels(t) THEN {"rules"} ELSE {}
  BY <1>0, <1>1 DEF TypeOK, RecordBlock, Doubt
<1> SUFFICES ASSUME doubt[a] # Doubts PROVE Kept(a)'
  BY <1>0, <1>2 DEF TypeOK, Kept, Doubts
<1>3. OneRow(a)
  BY DEF Kept
<1>4. ~Deals(t, a)' /\ \A u \in Threads : u # t => ~Deals(u, a)'
  BY <1>0, <1>1, <1>3, BlockIsAlone, DoneTypes, Absent DEF OneRow, Deals
<1>5. /\ On(a) \subseteq {found[t]}
      /\ found[t] # "none" => /\ active[found[t]] /\ found[t] \in On(a)
                              /\ read[t].enforcement = enforcement[found[t]]
  BY <1>0, <1>1, <1>3 DEF TypeOK, OneRow, Knows, Control, On
<1>6. PICK r \in Rows : On(a)' = {r} /\ enforcement'[r] = Label
  <2>1. CASE found[t] = "none"
    <3>1. PICK r \in Free :
             /\ ip' = [ip EXCEPT ![r] = req[t].ip] /\ active' = [active EXCEPT ![r] = TRUE]
             /\ enforcement' = [enforcement EXCEPT ![r] = Label]
      BY <2>1 DEF RecordBlock
    <3>2. r \in Rows /\ "none" \notin Rows
      BY Absent DEF Free
    <3>3. On(a) = {}
      BY <1>5, <2>1, <3>2 DEF On
    <3>4. /\ ip'[r] = a /\ active'[r] /\ enforcement'[r] = Label
          /\ \A s \in Rows : s # r => ip'[s] = ip[s] /\ active'[s] = active[s]
      BY <1>0, <1>1, <3>1, <3>2 DEF TypeOK
    <3>5. On(a)' = {r}
      BY <3>2, <3>3, <3>4 DEF On
    <3> QED
      BY <3>2, <3>4, <3>5
  <2>2. CASE found[t] # "none"
    <3>1. /\ found[t] \in Rows /\ UNCHANGED <<ip, active>>
          /\ enforcement' = [enforcement EXCEPT ![found[t]] =
                               Changed(Label, read[t].enforcement, enforcement[found[t]])]
      BY <1>0, <1>5, <2>2 DEF TypeOK, RecordBlock
    <3>2. enforcement'[found[t]] = Label
      BY <1>0, <1>5, <2>2, <3>1 DEF TypeOK, Changed
    <3> QED
      BY <1>5, <2>2, <3>1, <3>2 DEF On
  <2> QED
    BY <2>1, <2>2
<1>7. "rows" \notin doubt'[a] => Enforced(a)'
  <2>1. ASSUME "rows" \notin doubt[a], Label = "windows_firewall" PROVE fw[a] = Directions
    BY <1>0, <1>1, <2>1 DEF Kept, AddsBoth, Recorded, Label, Control
  <2> QED
    BY <1>0, <1>2, <1>6, <2>1 DEF Enforced
<1>8. ASSUME "rules" \notin doubt'[a] PROVE Listed(a)'
  <2>1. CASE Label = "windows_firewall"
    BY <1>6, <2>1 DEF Listed
  <2>2. CASE Label = "simulated"
    <3>1. mode = "simulation" /\ ~Relabels(t) /\ Listed(a)
      BY <1>2, <1>8, <2>2 DEF Label, Kept
    <3>2. \A s \in On(a) : enforcement[s] # "windows_firewall"
      BY <1>5, <2>2, <3>1, Absent DEF Relabels, On
    <3>3. \A u \in Threads : ~Blocks(u, a) /\ ~Recorded(u, a)
      BY <3>1 DEF Blocks, Recorded, Orderly, Calling
    <3> QED
      BY <1>0, <3>1, <3>2, <3>3 DEF Listed
  <2> QED
    BY <2>1, <2>2 DEF Label
<1> QED
  BY <1>4, <1>6, <1>7, <1>8, NotAbout, AloneKeeps

\* An unblock goes to the firewall only when the settings let it.
LEMMA FindKeeps ==
    ASSUME Orderly, Orderly', NEW a \in Addresses, Kept(a), NEW t \in Threads,
           Deals(t, a), Step(t), FindBlocked(t)
    PROVE  Kept(a)'
<1>0. /\ TypeOK /\ TypeOK' /\ Control(t) /\ OnlyOf(t) /\ pc[t] = "start" /\ req[t].op = "unblock"
      /\ UNCHANGED <<mode, fw, rowVars, left, cur, swept, doubt>>
      /\ On(a)' = On(a) /\ enforcement' = enforcement
  <2>1. /\ pc[t] = "start" /\ req[t].op = "unblock"
        /\ UNCHANGED <<mode, fw, rowVars, sweepVars, doubt>>
    BY DEF FindBlocked, faultVars
  <2> QED
    BY <2>1, StepIsOwn DEF Orderly, On, sweepVars, rowVars
<1>1. /\ req[t].ip = a /\ swept[t] = {} /\ cur[t] = "none"
      /\ \A r \in Rows : ~Holds(t, r)'
  BY <1>0, OwnAddress DEF Holds
<1> SUFFICES ASSUME doubt[a] # Doubts PROVE Kept(a)'
  BY <1>0 DEF Kept, Doubts
<1>2. OneRow(a) /\ ~Raced(a)'
  BY StepDoesNotRace DEF Kept, OneRow
<1>3. ~Blocks(t, a) /\ ~Recorded(t, a) /\ \A r \in On(a)' : ~Lifts(t, r)
  BY <1>0, <1>1, Absent DEF Blocks, Recorded, Lifts, On
<1> SUFFICES Knows(t, a)' /\ AddsBoth(t, a)' /\ ("rules" \notin doubt[a] => LeavesNone(t, a)')
  BY <1>0, <1>2, <1>3, StepKeeps
<1>4. PICK f \in Finds(t) :
       \/ /\ mode = "windows_firewall" /\ found' = [found EXCEPT ![t] = f]
          /\ Calls(t, "remove") /\ UNCHANGED <<req, read>>
       \/ /\ mode = "simulation" /\ (f # "none" => enforcement[f] # "windows_firewall")
          /\ found' = [found EXCEPT ![t] = f] /\ Goto(t, "record") /\ UNCHANGED <<req, read, netshVars>>
       \/ Done(t)
  BY DEF FindBlocked
<1>5. On(a) \subseteq {f}
  BY <1>0, <1>1, <1>2, FindsRow DEF OneRow
<1>6. CASE /\ mode = "windows_firewall" /\ found' = [found EXCEPT ![t] = f]
           /\ Calls(t, "remove") /\ UNCHANGED <<req, read>>
  <2>1. /\ found'[t] = f /\ pc'[t] = "netsh" /\ call'[t] = "remove" /\ dir'[t] = "in" /\ ok'[t] = TRUE
        /\ req' = req
    <3>1. pc'[t] = "netsh" /\ call'[t] = "remove" /\ dir'[t] = "in" /\ ok'[t] = TRUE
      BY <1>0, <1>6, CallsTypes
    <3> QED
      BY <1>0, <1>6, <3>1 DEF TypeOK
  <2> QED
    BY <1>0, <1>1, <1>5, <2>1 DEF Knows, AddsBoth, LeavesNone, Blocks, Recorded
<1>7. CASE /\ mode = "simulation" /\ (f # "none" => enforcement[f] # "windows_firewall")
           /\ found' = [found EXCEPT ![t] = f] /\ Goto(t, "record") /\ UNCHANGED <<req, read, netshVars>>
  <2>1. found'[t] = f /\ pc'[t] = "record" /\ req' = req
    BY <1>0, <1>7 DEF TypeOK, Goto
  <2>2. ASSUME "rules" \notin doubt[a] PROVE fw[a] = {}
    <3>1. \A r \in On(a) : enforcement[r] # "windows_firewall"
      BY <1>5, <1>7, Absent DEF On
    <3>2. \A u \in Threads : ~Blocks(u, a) /\ ~Recorded(u, a)
      BY <1>7 DEF Blocks, Recorded, Orderly, Calling
    <3> QED
      BY <2>2, <3>1, <3>2 DEF Kept, Listed
  <2> QED
    BY <1>0, <1>1, <1>5, <2>1, <2>2 DEF Knows, AddsBoth, LeavesNone, Blocks, Recorded
<1>8. CASE Done(t)
  <2>1. ~Deals(t, a)'
    BY <1>0, <1>1, <1>8, DoneTypes, Absent DEF Deals
  <2> QED
    BY <2>1, NotAbout
<1> QED
  BY <1>4, <1>6, <1>7, <1>8

\* The row is lifted.
LEMMA UnblockKeeps ==
    ASSUME Orderly, Orderly', NEW a \in Addresses, Kept(a), NEW t \in Threads,
           Deals(t, a), Step(t), UnblockApplied(t) \/ RecordUnblock(t)
    PROVE  Kept(a)'
<1>0. /\ TypeOK /\ TypeOK' /\ Control(t) /\ OnlyOf(t) /\ req[t].op = "unblock"
      /\ UNCHANGED <<fw, ip, left, cur, swept, doubt>> /\ Done(t)
  BY StepIsOwn DEF Orderly, UnblockApplied, RecordUnblock, sweepVars, faultVars
<1>1. /\ \/ pc[t] = "record" /\ Lift({found[t]})
         \/ pc[t] = "netsh" /\ cur[t] = "none" /\ call[t] = "none"
            /\ Lift(IF ok[t] THEN {found[t]} ELSE {})
  BY DEF UnblockApplied, RecordUnblock, Returned
<1>2. /\ req[t].ip = a /\ swept[t] = {} /\ Recording(t, a) /\ ~Blocks(t, a) /\ ~Recorded(t, a)
      /\ \A r \in Rows : ~Holds(t, r)'
  BY <1>0, <1>1, OwnAddress DEF Holds, Recording, Blocks, Recorded
<1>3. ~Deals(t, a)'
  BY <1>0, <1>2, DoneTypes, Absent DEF Deals
<1> SUFFICES ASSUME doubt[a] # Doubts PROVE Kept(a)'
  BY <1>0 DEF Kept, Doubts
<1>4. OneRow(a) /\ ~Raced(a)' /\ On(a) \subseteq {found[t]}
  BY <1>2, StepDoesNotRace DEF Kept, OneRow, Knows
<1>5. /\ On(a)' \subseteq On(a) /\ \A r \in On(a)' : enforcement'[r] = enforcement[r]
      /\ On(a)' = On(a) \/ On(a)' = {}
      /\ pc[t] = "record" \/ ok[t] => On(a)' = {}
  <2>1. PICK S : /\ Lift(S) /\ S \in {{}, {found[t]}}
                 /\ pc[t] = "record" \/ ok[t] => S = {found[t]}
    BY <1>1
  <2>2. On(a)' = On(a) \ S /\ \A r \in On(a) \ S : enforcement'[r] = enforcement[r]
    BY <1>0, <2>1, LiftedRows
  <2> QED
    BY <1>4, <2>1, <2>2
<1>6. "rows" \notin doubt[a] => On(a)' = {}
  BY <1>0, <1>1, <1>2, <1>5 DEF Kept, AddsBoth, Target
<1>7. "rules" \notin doubt[a] => fw[a] = {} \/ On(a)' = On(a)
  <2>1. CASE pc[t] = "record" \/ ok[t]
    BY <1>0, <1>1, <1>2, <2>1 DEF Kept, LeavesNone, Target
  <2>2. CASE ~(pc[t] = "record" \/ ok[t])
    <3>1. Lift({})
      BY <1>1, <2>2
    <3> QED
      BY <1>0, <3>1, LiftedRows
  <2> QED
    BY <2>1, <2>2
<1> QED
  BY <1>0, <1>2, <1>3, <1>4, <1>5, <1>6, <1>7, NotAbout, StepKeeps

-----------------------------------------------------------------------------
(***************************************************************************)
(* Every step, and the theorems.                                           *)
(***************************************************************************)

\* A step of a request.
LEMMA RequestKeeps ==
    ASSUME Orderly, Orderly', NEW a \in Addresses, Kept(a), NEW t \in Threads, Step(t)
    PROVE  Kept(a)'
<1>1. CASE ~Deals(t, a)
  BY <1>1, Elsewhere
<1>2. CASE Deals(t, a)
  BY <1>2, SweepKeeps, DeleteKeeps, AddKeeps, StartKeeps, AppliedKeeps, RecordKeeps,
     FindKeeps, UnblockKeeps DEF Step
<1> QED
  BY <1>1, <1>2

\* Time that passes, and settings that are changed.
LEMMA SameKeeps ==
    ASSUME Orderly, NEW a \in Addresses, Kept(a), mode' = mode \/ Quiet,
           UNCHANGED <<fw, ip, active, enforcement, pc, req, sweepVars, netshVars, foundVars, doubt>>
    PROVE  Kept(a)'
<1>1. /\ UNCHANGED <<fw, ip, active, enforcement, pc, req, left, cur, swept, call, dir, ok,
                     found, read, doubt>>
      /\ On(a)' = On(a)
  BY DEF On, sweepVars, netshVars, foundVars
<1>2. ASSUME NEW t \in Threads
      PROVE  /\ (Blocks(t, a)' <=> Blocks(t, a)) /\ (Recorded(t, a)' <=> Recorded(t, a))
             /\ \A r \in On(a) : Lifts(t, r)' <=> Lifts(t, r)
             /\ Deals(t, a)' <=> Deals(t, a)
  BY <1>1, <1>2 DEF Blocks, Recorded, Lifts, Deals, Holds, Quiet
<1>3. ASSUME NEW t \in Threads
      PROVE  /\ Knows(t, a)' <=> Knows(t, a)
             /\ AddsBoth(t, a)' <=> AddsBoth(t, a)
             /\ LeavesNone(t, a)' <=> LeavesNone(t, a)
  <2>1. Target(t)' = Target(t) /\ \A r \in Rows : Holds(t, r)' <=> Holds(t, r)
    BY <1>1 DEF Target, Holds
  <2> QED
    BY <1>1, <1>2, <2>1 DEF Knows, Recording, AddsBoth, LeavesNone
<1>4. Raced(a)' <=> Raced(a)
  BY <1>1, <1>2 DEF Raced
<1> QED
  BY <1>1, <1>2, <1>3, <1>4 DEF Kept, OneRow, Enforced, Listed

\* The backend dies.
LEMMA CrashKeeps ==
    ASSUME Orderly, Orderly', NEW a \in Addresses, Kept(a), Crash
    PROVE  Kept(a)'
<1>0. /\ TypeOK /\ On(a)' = On(a) /\ enforcement' = enforcement /\ fw' = fw
      /\ doubt'[a] = doubt[a] \union IF \E t \in Threads : Deals(t, a) THEN Doubts ELSE {}
  BY DEF Orderly, Crash, On, rowVars
<1>1. CASE \E t \in Threads : Deals(t, a)
  BY <1>0, <1>1 DEF TypeOK, Kept, Doubts
<1>2. CASE \A t \in Threads : ~Deals(t, a)
  <2>1. \A t \in Threads : ~Deals(t, a)'
    BY Absent DEF Crash, Deals, Holds
  <2>2. ~Raced(a)'
    BY <2>1 DEF Raced
  <2>3. \A t \in Threads : Knows(t, a)' /\ AddsBoth(t, a)' /\ LeavesNone(t, a)'
    BY <2>1, NotAbout
  <2>4. \A t \in Threads : ~Blocks(t, a) /\ ~Recorded(t, a) /\ \A r \in On(a) : ~Lifts(t, r)
    BY <1>2, NotYetAbout
  <2> QED
    BY <1>0, <1>2, <2>2, <2>3, <2>4 DEF Kept, OneRow, Enforced, Listed
<1> QED
  BY <1>1, <1>2

\* Every step keeps what is said of the addresses.
LEMMA StepKept ==
    ASSUME BlockInv, [Next]_vars PROVE BlockInv'
<1>1. Orderly /\ Orderly'
  BY StepOrderly DEF BlockInv
<1> SUFFICES ASSUME NEW a \in Addresses PROVE Kept(a)'
  BY <1>1 DEF BlockInv
<1>2. Kept(a)
  BY DEF BlockInv
<1>3. ASSUME NEW t \in Threads, Step(t) \/ \E q \in Request : Ask(t, q) PROVE Kept(a)'
  BY <1>1, <1>2, <1>3, RequestKeeps, AskKeeps
<1>4. ASSUME NEW r \in Rows, Expire(r) PROVE Kept(a)'
  BY <1>1, <1>2, <1>4, SameKeeps DEF Expire, faultVars
<1>5. ASSUME NEW m \in Modes, Switch(m) PROVE Kept(a)'
  BY <1>1, <1>2, <1>5, SameKeeps DEF Switch, rowVars
<1>6. CASE Crash
  BY <1>1, <1>2, <1>6, CrashKeeps
<1>7. CASE UNCHANGED vars
  BY <1>1, <1>2, <1>7, SameKeeps DEF vars, rowVars, faultVars
<1> QED
  BY <1>3, <1>4, <1>5, <1>6, <1>7 DEF Next

\* No request is being served at first, and no address is blocked.
LEMMA InitKept ==
    ASSUME Init PROVE BlockInv
<1>1. TypeOK
  BY BlockAssumption DEF Init, TypeOK, Directions, Enforcement, Expiry, NothingRead, Doubts
<1>2. Orderly
  BY <1>1, Absent DEF Init, Orderly, Control, Calling
<1>3. ASSUME NEW a \in Addresses PROVE Kept(a)
  <2>1. \A t \in Threads : ~Deals(t, a)
    BY Absent DEF Init, Deals, Holds
  <2>2. On(a) = {} /\ fw[a] = {}
    BY DEF Init, On
  <2>3. ASSUME NEW t \in Threads PROVE Knows(t, a) /\ AddsBoth(t, a) /\ LeavesNone(t, a)
    BY Absent DEF Init, Knows, Holds, Recording, AddsBoth, LeavesNone, Blocks, Recorded
  <2>4. ~Raced(a)
    BY <2>1 DEF Raced
  <2> QED
    BY <2>2, <2>3, <2>4 DEF Kept, OneRow, Enforced, Listed
<1> QED
  BY <1>2, <1>3 DEF BlockInv

\* Whatever requests are served at once, by however many threads, and however netsh
\* fails, the settings change and the backend dies: what is said of the addresses
\* holds (_sweep_expired_blocks, block_ip, unblock_ip and the connector they call).
THEOREM BlocksKeep == Spec => []BlockInv
<1>1. Init => BlockInv
  BY InitKept
<1>2. BlockInv /\ [Next]_vars => BlockInv'
  BY StepKept
<1> QED
  BY <1>1, <1>2, PTL DEF Spec

\* A row that says the firewall enforces it is enforced between requests, unless its
\* address, since it was last blocked alone, was blocked beside another request about
\* it, an addition or a removal failed, or the backend died in a request about it
\* (block_ip labels the row after apply_block; what lifts it removes the rules first).
THEOREM ListedStaysBlocked == Spec => []ListedIsBlocked
<1>1. BlockInv => ListedIsBlocked
  <2> SUFFICES ASSUME BlockInv, Quiet, NEW r \in Rows, active[r],
                      enforcement[r] = "windows_firewall", "rows" \notin doubt[ip[r]]
               PROVE  fw[ip[r]] = Directions
    BY DEF ListedIsBlocked
  <2>1. ip[r] \in Addresses /\ r # "none"
    BY Absent DEF BlockInv, Orderly, TypeOK
  <2>2. Enforced(ip[r]) /\ r \in On(ip[r])
    BY <2>1 DEF BlockInv, Kept, On
  <2>3. ASSUME NEW t \in Threads PROVE ~Lifts(t, r) /\ ~Blocks(t, ip[r])
    <3>1. pc[t] = "idle" /\ Control(t)
      BY DEF Quiet, BlockInv, Orderly
    <3> QED
      BY <2>1, <3>1 DEF Lifts, Blocks, Control
  <2> QED
    BY <2>2, <2>3 DEF Enforced
<1> QED
  BY <1>1, BlocksKeep, PTL

\* An address with a rule has an active row between requests, unless since it was last
\* blocked alone it was blocked beside another request about it, a rule could not be
\* taken back after a failed block, its row was relabelled as simulated, or the backend
\* died in a request about it (a row is lifted, and a failed block returns, when the
\* connector says that the rules are gone).
THEOREM BlockedStaysListed == Spec => []ListedWhileBlocked
<1>1. BlockInv => ListedWhileBlocked
  <2> SUFFICES ASSUME BlockInv, Quiet, NEW a \in Addresses, "rules" \notin doubt[a], fw[a] # {}
               PROVE  \E r \in Rows : active[r] /\ ip[r] = a
    BY DEF ListedWhileBlocked
  <2>1. Listed(a)
    BY DEF BlockInv, Kept
  <2>2. \A t \in Threads : ~Blocks(t, a) /\ ~Recorded(t, a)
    BY DEF Quiet, Blocks, Recorded
  <2> QED
    BY <2>1, <2>2 DEF Listed, On
<1> QED
  BY <1>1, BlocksKeep, PTL
=============================================================================
