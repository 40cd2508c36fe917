------------------------------- MODULE Blocks -------------------------------
(***************************************************************************)
(* Blocking addresses (response_service) through the machine's own         *)
(* firewall (windows_firewall_connector).  A request is served by a thread *)
(* with a session of its own.  Every request first sweeps the blocks whose *)
(* time is over, removing their firewall rules and then committing; then   *)
(* it does what was asked for.  A row of blocked_ips is what the dashboard *)
(* shows, the firewall's rules are what really happens, and no transaction *)
(* spans both: each netsh command is a step, and so is each SELECT and     *)
(* each commit.                                                            *)
(*                                                                         *)
(* A row that is no longer active tells nothing more: its place may be     *)
(* taken by a new one once no thread holds it, so requests never run out.  *)
(***************************************************************************)
EXTENDS Integers, FiniteSets

CONSTANTS
    Threads,
    Addresses,
    Rows,           \* bound: places for rows of blocked_ips
    Modes,          \* what RESPONSE_SIMULATION and RESPONSE_PROVIDER may say
    MaxMishaps      \* bound: requests beside a block of what they deal with, netsh
                    \* commands that report a failure, changes of the settings and
                    \* deaths of the backend, all together

ModeKinds == {"simulation", "windows_firewall", "pending_connector"}

ASSUME BlockAssumption ==
    /\ Modes \subseteq ModeKinds /\ Modes # {}
    /\ "none" \notin Rows
    /\ MaxMishaps \in Nat

VARIABLES
    mode,
    fw,                     \* the directions each address is blocked in
    \* blocked_ips
    ip, active, enforcement, expiry,
    \* a thread: its request and where it is in it
    pc, req,
    left,                   \* rows whose rules the sweep has still to remove
    cur,                    \* the row whose rules it is removing
    swept,                  \* rows it sets inactive when it commits
    call, dir, ok,          \* inside the connector: what it does, how it went
    found, read,            \* the active row of the address, and what a block read
    mishaps,
    doubt                   \* history: what may have set rows and rules apart

rowVars    == <<ip, active, enforcement, expiry>>
sweepVars  == <<left, cur, swept>>
netshVars  == <<call, dir, ok>>
foundVars  == <<found, read>>
faultVars  == <<mishaps, doubt>>
vars == <<mode, fw, rowVars, pc, req, sweepVars, netshVars, foundVars, faultVars>>

GoesWrong == mishaps < MaxMishaps /\ mishaps' = mishaps + 1

Enforcement == {"simulated", "windows_firewall"}
Expiry      == {"never", "running", "past"}  \* expires_at: NULL, to come, over
Directions  == {"in", "out"}

\* What a request asks for after its sweep.  One the safety rules deny does no
\* more than the list does.
Request == [op : {"list", "block", "unblock"}, ip : Addresses]
NoRequest == [op |-> "none"]
NothingRead == [enforcement |-> "simulated", expiry |-> "never"]

\* What the code does not vouch for any more: that each rule has its row, that
\* each row that claims rules has them.
Doubts == {"rules", "rows"}

TypeOK ==
    /\ mode \in Modes
    /\ fw \in [Addresses -> SUBSET Directions]
    /\ ip \in [Rows -> Addresses]
    /\ active \in [Rows -> BOOLEAN]
    /\ enforcement \in [Rows -> Enforcement]
    /\ expiry \in [Rows -> Expiry]
    /\ pc \in [Threads -> {"idle", "sweep", "start", "netsh", "record"}]
    /\ req \in [Threads -> Request \union {NoRequest}]
    /\ left \in [Threads -> SUBSET Rows]
    /\ cur \in [Threads -> Rows \union {"none"}]
    /\ swept \in [Threads -> SUBSET Rows]
    /\ call \in [Threads -> {"none", "clear", "add", "undo", "remove"}]
    /\ dir \in [Threads -> Directions]
    /\ ok \in [Threads -> BOOLEAN]
    /\ found \in [Threads -> Rows \union {"none"}]
    /\ read \in [Threads -> [enforcement : Enforcement, expiry : Expiry]]
    /\ mishaps \in 0 .. MaxMishaps
    /\ doubt \in [Addresses -> SUBSET Doubts]

Init ==
    /\ mode \in Modes
    /\ fw = [a \in Addresses |-> {}]
    /\ ip \in [Rows -> Addresses]
    /\ active = [r \in Rows |-> FALSE]
    /\ enforcement = [r \in Rows |-> "simulated"]
    /\ expiry = [r \in Rows |-> "never"]
    /\ pc = [t \in Threads |-> "idle"]
    /\ req = [t \in Threads |-> NoRequest]
    /\ left = [t \in Threads |-> {}]
    /\ cur = [t \in Threads |-> "none"]
    /\ swept = [t \in Threads |-> {}]
    /\ call = [t \in Threads |-> "none"]
    /\ dir = [t \in Threads |-> "in"]
    /\ ok = [t \in Threads |-> TRUE]
    /\ found = [t \in Threads |-> "none"]
    /\ read = [t \in Threads |-> NothingRead]
    /\ mishaps = 0
    /\ doubt = [a \in Addresses |-> {}]

-----------------------------------------------------------------------------
Goto(t, s) == pc' = [pc EXCEPT ![t] = s]

\* The response is sent and the session closed.
Done(t) ==
    /\ Goto(t, "idle")
    /\ req' = [req EXCEPT ![t] = NoRequest]
    /\ found' = [found EXCEPT ![t] = "none"]
    /\ read' = [read EXCEPT ![t] = NothingRead]

\* The connector is entered; apply_block clears before it adds.
Calls(t, what) ==
    /\ Goto(t, "netsh")
    /\ call' = [call EXCEPT ![t] = what]
    /\ dir' = [dir EXCEPT ![t] = "in"]
    /\ ok' = [ok EXCEPT ![t] = TRUE]

\* It is left, with nothing to remember of it.
Returned(t) ==
    /\ pc[t] = "netsh" /\ call[t] = "none"
    /\ ok' = [ok EXCEPT ![t] = TRUE]

\* The address whose rules are dealt with.
Target(t) == IF cur[t] # "none" THEN ip[cur[t]] ELSE req[t].ip

\* A request that is about the address: to block or unblock it, or with a row of
\* it in its sweep.
Holds(t, r) == r \in swept[t] \/ r \in left[t] \/ cur[t] = r
Deals(t, a) ==
    \/ req[t].op \in {"block", "unblock"} /\ req[t].ip = a
    \/ \E r \in Rows : Holds(t, r) /\ ip[r] = a

\* Nothing in the code keeps a block from being served beside another request about
\* the address.  Its rows and rules may go apart then, which is remembered.
Raced(a) ==
    \E t, u \in Threads : t # u /\ req[t].op = "block" /\ req[t].ip = a /\ Deals(u, a)

Doubt(a, what) == doubt' = [doubt EXCEPT ![a] = @ \union what]

\* Mutations: a removal is never seen to fail; a block of a blocked address
\* inserts a row; a rule that is not there cannot be removed.
NeverFailed(t, fails) == FALSE
NotLooking(t) == {}
FailedOrGone(t, fails) == call[t] = "remove" /\ (fails \/ dir[t] \notin fw[Target(t)])

\* The settings let a sweep touch the firewall.
MayRemove == mode = "windows_firewall"

\* remove_block reports a failure, but not that no rules match; apply_block does
\* not mind how its own removals went.
Failed(t, fails) == call[t] = "remove" /\ fails

\* apply_block takes back what it added when an addition fails.
Undone(t) == [call EXCEPT ![t] = "undo"]

\* The enforcement a block is recorded with.
Label == IF mode = "simulation" THEN "simulated" ELSE "windows_firewall"

\* The rows the request's own SELECT may return the first of.
Blocked(t) == {r \in Rows : active[r] /\ ip[r] = req[t].ip}

-----------------------------------------------------------------------------
(***************************************************************************)
(* The sweep: _sweep_expired_blocks.                                       *)
(***************************************************************************)

Expired == {r \in Rows : active[r] /\ expiry[r] = "past"}

\* A row the firewall does not enforce is over.  One it does is over once its
\* rules are removed, and is left alone when the settings forbid that.
Ask(t, q) ==
    /\ pc[t] = "idle"
    /\ Goto(t, "sweep")
    /\ req' = [req EXCEPT ![t] = q]
    /\ left' = [left EXCEPT ![t] =
                  {r \in Expired : enforcement[r] = "windows_firewall" /\ MayRemove}]
    /\ swept' = [swept EXCEPT ![t] = {r \in Expired : enforcement[r] # "windows_firewall"}]
    /\ UNCHANGED <<mode, fw, rowVars, cur, netshVars, foundVars>>
    /\ IF \E a \in Addresses : ~Raced(a) /\ Raced(a)' THEN GoesWrong ELSE UNCHANGED mishaps
    /\ doubt' = [a \in Addresses |-> doubt[a] \union IF Raced(a)' THEN Doubts ELSE {}]

SweepRow(t, r) ==
    /\ pc[t] = "sweep" /\ r \in left[t]
    /\ left' = [left EXCEPT ![t] = @ \ {r}]
    /\ cur' = [cur EXCEPT ![t] = r]
    /\ Calls(t, "remove")
    /\ UNCHANGED <<mode, fw, rowVars, req, swept, foundVars, faultVars>>

\* A row whose rules could not be removed stays active.
SweepRemoved(t) ==
    /\ Returned(t) /\ cur[t] # "none"
    /\ swept' = IF ok[t] THEN [swept EXCEPT ![t] = @ \union {cur[t]}] ELSE swept
    /\ cur' = [cur EXCEPT ![t] = "none"]
    /\ Goto(t, "sweep")
    /\ UNCHANGED <<mode, fw, rowVars, req, left, call, dir, foundVars, faultVars>>

\* Rows are set inactive.  Their label and time say nothing any more.
Lift(S) ==
    /\ active' = [r \in Rows |-> active[r] /\ r \notin S]
    /\ enforcement' = [r \in Rows |-> IF r \in S THEN "simulated" ELSE enforcement[r]]
    /\ expiry' = [r \in Rows |-> IF r \in S THEN "never" ELSE expiry[r]]

\* The commit, and what follows it: the list, a denial, or the request itself.
SweepCommit(t) ==
    /\ pc[t] = "sweep" /\ left[t] = {}
    /\ Lift(swept[t])
    /\ swept' = [swept EXCEPT ![t] = {}]
    /\ IF req[t].op = "list"
       THEN Done(t)
       ELSE Goto(t, "start") /\ UNCHANGED <<req, foundVars>>
    /\ UNCHANGED <<mode, fw, ip, left, cur, netshVars, faultVars>>

-----------------------------------------------------------------------------
(***************************************************************************)
(* The connector, a netsh command at a time.  One that fails may have been *)
(* carried out (ATDR waits 15 seconds for it), any other one was.          *)
(***************************************************************************)

Netsh(t, fails, carried, rules) ==
    /\ fails \/ carried
    /\ IF fails THEN GoesWrong ELSE UNCHANGED mishaps
    /\ fw' = IF carried THEN [fw EXCEPT ![Target(t)] = rules] ELSE fw
    /\ UNCHANGED <<mode, rowVars, pc, req, sweepVars, foundVars>>

\* On to the other direction, and from clearing to adding.
Advance(t) ==
    IF dir[t] = "in"
    THEN dir' = [dir EXCEPT ![t] = "out"] /\ UNCHANGED call
    ELSE /\ dir' = [dir EXCEPT ![t] = "in"]
         /\ call' = [call EXCEPT ![t] = IF @ = "clear" THEN "add" ELSE "none"]

DeleteRule(t, fails, carried) ==
    /\ pc[t] = "netsh" /\ call[t] \in {"clear", "undo", "remove"}
    /\ Netsh(t, fails, carried, fw[Target(t)] \ {dir[t]})
    /\ ok' = [ok EXCEPT ![t] = @ /\ ~Failed(t, fails)]
    /\ Doubt(Target(t), IF ~fails \/ call[t] = "clear" THEN {}
                        ELSE IF call[t] = "undo" THEN {"rules"} ELSE {"rows"})
    /\ Advance(t)

AddRule(t, fails, carried) ==
    /\ pc[t] = "netsh" /\ call[t] = "add"
    /\ Netsh(t, fails, carried, fw[Target(t)] \union {dir[t]})
    /\ ok' = [ok EXCEPT ![t] = ~fails]
    /\ Doubt(Target(t), IF fails THEN {"rows"} ELSE {})
    /\ IF fails THEN call' = Undone(t) /\ dir' = [dir EXCEPT ![t] = "in"] ELSE Advance(t)

-----------------------------------------------------------------------------
(***************************************************************************)
(* block_ip and unblock_ip.                                                *)
(***************************************************************************)

\* No other request is about its address, which has a row at most.
Alone(t) ==
    /\ \A u \in Threads : u # t => ~Deals(u, req[t].ip)
    /\ \A r, s \in Blocked(t) : r = s

Finds(t) == IF Blocked(t) = {} THEN {"none"} ELSE Blocked(t)

FindExisting(t) ==
    /\ Goto(t, "record")
    /\ UNCHANGED req
    /\ \E f \in Finds(t) :
          /\ found' = [found EXCEPT ![t] = f]
          /\ read' = IF f = "none" THEN read
                     ELSE [read EXCEPT ![t] = [enforcement |-> enforcement[f],
                                               expiry |-> expiry[f]]]

\* _execute_block: without a connector nothing is blocked.  A block that comes to
\* the firewall alone makes good what was before it: it sets all rules anew.
StartBlock(t) ==
    /\ pc[t] = "start" /\ req[t].op = "block"
    /\ CASE mode = "simulation" -> FindExisting(t) /\ UNCHANGED <<netshVars, doubt>>
         [] mode = "pending_connector" -> Done(t) /\ UNCHANGED <<netshVars, doubt>>
         [] OTHER -> /\ Calls(t, "clear") /\ UNCHANGED <<req, foundVars>>
                     /\ doubt' = IF Alone(t) THEN [doubt EXCEPT ![req[t].ip] = {}] ELSE doubt
    /\ UNCHANGED <<mode, fw, rowVars, sweepVars, mishaps>>

BlockApplied(t) ==
    /\ Returned(t) /\ cur[t] = "none" /\ req[t].op = "block"
    /\ IF ok[t] THEN FindExisting(t) ELSE Done(t)
    /\ UNCHANGED <<mode, fw, rowVars, sweepVars, call, dir, faultVars>>

\* A row that is updated gets the columns the session changed, and no others.
Changed(new, old, now) == IF new # old THEN new ELSE now

Free == {r \in Rows : ~active[r] /\ \A t \in Threads : ~Holds(t, r) /\ found[t] # r}

\* Its row said that the firewall enforces it.
Relabels(t) ==
    found[t] # "none" /\ read[t].enforcement = "windows_firewall" /\ Label = "simulated"

\* A block is for some minutes or for good, which nothing before this reads.
RecordBlock(t, timed) ==
    LET till == IF timed THEN "running" ELSE "never" IN
    /\ pc[t] = "record" /\ req[t].op = "block"
    /\ IF found[t] = "none"
       THEN /\ Free # {}
            /\ LET r == CHOOSE r \in Free : TRUE IN
               /\ ip' = [ip EXCEPT ![r] = req[t].ip]
               /\ active' = [active EXCEPT ![r] = TRUE]
               /\ enforcement' = [enforcement EXCEPT ![r] = Label]
               /\ expiry' = [expiry EXCEPT ![r] = till]
       ELSE IF ~active[found[t]] THEN UNCHANGED rowVars
       ELSE /\ enforcement' = [enforcement EXCEPT ![found[t]] =
                                 Changed(Label, read[t].enforcement, @)]
            /\ expiry' = [expiry EXCEPT ![found[t]] =
                            IF timed THEN till ELSE Changed(till, read[t].expiry, @)]
            /\ UNCHANGED <<ip, active>>
    /\ Doubt(req[t].ip, IF Relabels(t) THEN {"rules"} ELSE {})
    /\ Done(t)
    /\ UNCHANGED <<mode, fw, sweepVars, netshVars, mishaps>>

\* unblock_ip looks the row up first.  _execute_unblock refuses to mark a block
\* the firewall enforces as lifted when the settings keep it from the firewall.
FindBlocked(t) ==
    /\ pc[t] = "start" /\ req[t].op = "unblock"
    /\ \E f \in Finds(t) :
       \/ /\ mode = "windows_firewall"
          /\ found' = [found EXCEPT ![t] = f]
          /\ Calls(t, "remove")
          /\ UNCHANGED <<req, read>>
       \/ /\ mode = "simulation" /\ (f # "none" => enforcement[f] # "windows_firewall")
          /\ found' = [found EXCEPT ![t] = f]
          /\ Goto(t, "record")
          /\ UNCHANGED <<req, read, netshVars>>
       \/ /\ \/ mode = "pending_connector"
             \/ mode = "simulation" /\ f # "none" /\ enforcement[f] = "windows_firewall"
          /\ Done(t)
          /\ UNCHANGED netshVars
    /\ UNCHANGED <<mode, fw, rowVars, sweepVars, faultVars>>

UnblockApplied(t) ==
    /\ Returned(t) /\ cur[t] = "none" /\ req[t].op = "unblock"
    /\ Lift(IF ok[t] THEN {found[t]} ELSE {})
    /\ Done(t)
    /\ UNCHANGED <<mode, fw, ip, sweepVars, call, dir, faultVars>>

RecordUnblock(t) ==
    /\ pc[t] = "record" /\ req[t].op = "unblock"
    /\ Lift({found[t]})
    /\ Done(t)
    /\ UNCHANGED <<mode, fw, ip, sweepVars, netshVars, faultVars>>

-----------------------------------------------------------------------------
Step(t) ==
    \/ \E carried, fails \in BOOLEAN : DeleteRule(t, fails, carried) \/ AddRule(t, fails, carried)
    \/ \E r \in Rows : SweepRow(t, r)
    \/ SweepRemoved(t) \/ SweepCommit(t)
    \/ StartBlock(t) \/ BlockApplied(t)
    \/ \E timed \in BOOLEAN : RecordBlock(t, timed)
    \/ FindBlocked(t) \/ UnblockApplied(t) \/ RecordUnblock(t)

Expire(r) ==
    /\ active[r] /\ expiry[r] = "running"
    /\ expiry' = [expiry EXCEPT ![r] = "past"]
    /\ UNCHANGED <<mode, fw, ip, active, enforcement, pc, req, sweepVars, netshVars,
                   foundVars, faultVars>>

Quiet == \A t \in Threads : pc[t] = "idle"

\* ATDR is stopped, the settings are changed, and it is started again.
Switch(m) ==
    /\ Quiet /\ mode # m
    /\ GoesWrong
    /\ mode' = m
    /\ UNCHANGED <<fw, rowVars, pc, req, sweepVars, netshVars, foundVars, doubt>>

\* The backend dies: what was not committed is lost, the firewall is not.
Crash ==
    /\ ~Quiet
    /\ GoesWrong
    /\ doubt' = [a \in Addresses |->
                   doubt[a] \union IF \E t \in Threads : Deals(t, a) THEN Doubts ELSE {}]
    /\ pc' = [t \in Threads |-> "idle"]
    /\ req' = [t \in Threads |-> NoRequest]
    /\ left' = [t \in Threads |-> {}]
    /\ cur' = [t \in Threads |-> "none"]
    /\ swept' = [t \in Threads |-> {}]
    /\ call' = [t \in Threads |-> "none"]
    /\ dir' = [t \in Threads |-> "in"]
    /\ ok' = [t \in Threads |-> TRUE]
    /\ found' = [t \in Threads |-> "none"]
    /\ read' = [t \in Threads |-> NothingRead]
    /\ UNCHANGED <<mode, fw, rowVars>>

Next ==
    \/ \E t \in Threads : Step(t) \/ \E q \in Request : Ask(t, q)
    \/ \E r \in Rows : Expire(r)
    \/ \E m \in Modes : Switch(m)
    \/ Crash

Spec == Init /\ [][Next]_vars

\* The dashboard asks for the list every 30 seconds, and some request is served.
FairSpec ==
    /\ Spec
    /\ WF_vars(\E t \in Threads : Step(t) \/ \E q \in Request : Ask(t, q))

-----------------------------------------------------------------------------

\* The same, as far as the code sees to it: not when the address, since it was last
\* blocked alone, was blocked beside another request about it, a rule could not be
\* taken back after a failed block, its row was relabelled as simulated, or the
\* backend died in the middle of a request about it.
ListedWhileBlocked ==
    Quiet => \A a \in Addresses :
        "rules" \notin doubt[a] /\ fw[a] # {} => \E r \in Rows : active[r] /\ ip[r] = a

\* A row that says the firewall enforces it is enforced, in both directions: not
\* when its address, since it was last blocked alone, was blocked beside another
\* request about it, an addition or a removal failed, or the backend died in the
\* middle of a request about it.
ListedIsBlocked ==
    Quiet => \A r \in Rows :
        active[r] /\ enforcement[r] = "windows_firewall" /\ "rows" \notin doubt[ip[r]]
            => fw[ip[r]] = Directions

\* A block past its time is "lazily swept back to active=False": once the
\* settings let ATDR at the firewall it is lifted or was given more time, though
\* removals fail and ATDR dies between two steps.
ExpiredIsLifted ==
    <>[](mode = "windows_firewall") => \A r \in Rows : r \in Expired ~> r \notin Expired
=============================================================================
