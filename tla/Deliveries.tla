----------------------------- MODULE Deliveries -----------------------------
(***************************************************************************)
(* The notifications on their way out.  A row of notification_deliveries   *)
(* is one notification for one channel.  The worker's look sends whatever  *)
(* is due; a person's test and a report from outside the worker send their *)
(* own row at once.  All of them do it with deliver_pending, in processes  *)
(* of their own: claim the row, send, settle the row, each a transaction.  *)
(*                                                                         *)
(* A look compares every time with the moment it began, and writes that    *)
(* moment as claimed_at.  Times are kept as ages in ticks, which is all    *)
(* the comparisons need and lets time go on for ever; an age stops growing *)
(* where no comparison tells it from a greater one.                        *)
(*                                                                         *)
(* Its names are not those of Notices, what the same look writes down, so  *)
(* that NotificationProofs can prove about both.                           *)
(***************************************************************************)
EXTENDS Integers, Sequences, FiniteSets

CONSTANTS
    Senders,        \* worker processes, which look again and again
    Askers,         \* a request for a test, or a run of atdr.scripts.notify
    Tests,          \* the deliveries that are tests
    Count,          \* bound: number of deliveries
    ClaimExpires,   \* CLAIM_EXPIRES, in ticks
    RetryAfter,     \* RETRY_AFTER_MINUTES, in ticks
    LookAgain,      \* NOBODY_SIGNED_IN_LOOK_AGAIN, in ticks
    GiveUpAfter,    \* GIVE_UP_AFTER, in ticks
    MaxLook,        \* bound: the longest a look lasts
    MaxFaults,      \* bound: processes killed, failures that were none
    Answers         \* what a channel may do with a message

AnswerKinds == {"ok",       \* delivered
                "again",    \* failed, worth another try
                "unsure",   \* delivered, but it looked like a failure: a fault
                "never",    \* refused: only a changed setting can help
                "wait",     \* nobody is signed in to see it
                "off"}      \* the channel was switched off since

Deliveries == 1 .. Count
Procs      == Senders \union Askers

ASSUME DeliveryAssumption ==
    /\ Count \in Nat
    /\ Tests \subseteq Deliveries
    /\ ClaimExpires \in Nat /\ GiveUpAfter \in Nat /\ LookAgain \in Nat
    /\ MaxLook \in Nat /\ MaxFaults \in Nat
    /\ RetryAfter \in Seq(Nat) /\ RetryAfter # <<>>
    /\ Answers \subseteq AnswerKinds

\* "absent" before the row is inserted, "gone" after it is deleted.
RowStatus == {"absent", "pending", "sending", "sent", "failed", "gone"}

VARIABLES
    \* notification_deliveries
    dstat,
    attempts,       \* as far as RetryAfter tells them apart
    wait,           \* ticks to next_attempt_at; -MaxLook and below is NULL
    claimAge,       \* ticks since claimed_at
    age,            \* ticks since the notification was made
    \* a process: where it is, its moment, what it still has to send
    dpc, lookAge, todo, cur,
    snap,           \* the row as it read it after the claim
    res,            \* the answer of the channel
    own,            \* the delivery an asker asked for
    out,            \* how often people got it
    faults

rowVars  == <<dstat, attempts, wait, claimAge, age>>
procVars == <<dpc, lookAge, todo, cur, snap, res, own>>
deliveryVars == <<rowVars, procVars, out, faults>>

Pc      == {"idle", "claim", "read", "send", "settle"}
NoSnap  == [status |-> "absent", attempts |-> 0]
Snap    == [status : RowStatus, attempts : 0 .. Len(RetryAfter)]

DeliveryTypeOK ==
    /\ dstat \in [Deliveries -> RowStatus]
    /\ attempts \in [Deliveries -> 0 .. Len(RetryAfter)]
    /\ wait \in [Deliveries -> Int]
    /\ claimAge \in [Deliveries -> 0 .. ClaimExpires + MaxLook]
    /\ age \in [Deliveries -> 0 .. GiveUpAfter + MaxLook]
    /\ dpc \in [Procs -> Pc]
    /\ lookAge \in [Procs -> 0 .. MaxLook]
    /\ todo \in [Procs -> SUBSET Deliveries]
    /\ cur \in [Procs -> 0 .. Count]
    /\ snap \in [Procs -> Snap]
    /\ res \in [Procs -> AnswerKinds \union {"none"}]
    /\ own \in [Procs -> 0 .. Count]
    /\ out \in [Deliveries -> Nat]
    /\ faults \in 0 .. MaxFaults

DeliveryInit ==
    /\ dstat = [d \in Deliveries |-> "absent"]
    /\ attempts = [d \in Deliveries |-> 0]
    /\ wait = [d \in Deliveries |-> 0]
    /\ claimAge = [d \in Deliveries |-> 0]
    /\ age = [d \in Deliveries |-> 0]
    /\ dpc = [p \in Procs |-> "idle"]
    /\ lookAge = [p \in Procs |-> 0]
    /\ todo = [p \in Procs |-> {}]
    /\ cur = [p \in Procs |-> 0]
    /\ snap = [p \in Procs |-> NoSnap]
    /\ res = [p \in Procs |-> "none"]
    /\ own = [p \in Procs |-> 0]
    /\ out = [d \in Deliveries |-> 0]
    /\ faults = 0

-----------------------------------------------------------------------------
(***************************************************************************)
(* What deliver_pending reads and decides.                                 *)
(***************************************************************************)

Goto(p, s) == dpc' = [dpc EXCEPT ![p] = s]

\* Mutation: the tries are counted past the last of the retry times.
TriedOn(n) == n + 1

\* attempts + 1, as far as _retry_at tells the counts apart.
Tried(n) == IF n < Len(RetryAfter) THEN n + 1 ELSE n

ProcEnds(p) ==
    /\ Goto(p, "idle")
    /\ lookAge' = [lookAge EXCEPT ![p] = 0]
    /\ todo' = [todo EXCEPT ![p] = {}]
    /\ cur' = [cur EXCEPT ![p] = 0]
    /\ snap' = [snap EXCEPT ![p] = NoSnap]
    /\ res' = [res EXCEPT ![p] = "none"]
    /\ own' = [own EXCEPT ![p] = 0]

\* Mutations: the update that claims does not look whether the row is due
\* still; a claim never expires.
DueAnyway(p, d) == dstat[d] \in {"pending", "sending"}
DueNoRetake(p, d) == dstat[d] = "pending" /\ wait[d] + lookAge[p] <= 0

\* Due, seen from the moment p began to look.
Due(p, d) ==
    \/ dstat[d] = "pending" /\ wait[d] + lookAge[p] <= 0
    \/ dstat[d] = "sending" /\ claimAge[d] >= lookAge[p] + ClaimExpires

\* How long after the look's moment the next try comes.
NextTry(p) == IF res[p] = "wait" THEN LookAgain ELSE RetryAfter[snap[p].attempts]

Delivered(p) == res[p] = "ok"

GivesUp(p) == res[p] = "never" \/ age[cur[p]] >= lookAge[p] + GiveUpAfter

\* The status a look assigns to the row it sent.
Settled(p) == IF Delivered(p) THEN "sent" ELSE IF GivesUp(p) THEN "failed" ELSE "pending"

-----------------------------------------------------------------------------
(***************************************************************************)
(* A process begins: it writes down what is new, and takes the list of     *)
(* what is due.                                                            *)
(***************************************************************************)

MakeRows(S) ==
    /\ dstat' = [d \in Deliveries |-> IF d \in S THEN "pending" ELSE dstat[d]]
    /\ wait' = [d \in Deliveries |-> IF d \in S THEN -MaxLook ELSE wait[d]]

BeginLook(p, list, d) ==
    /\ Goto(p, "claim")
    /\ todo' = [todo EXCEPT ![p] = list]
    /\ own' = [own EXCEPT ![p] = d]
    /\ UNCHANGED <<attempts, claimAge, age, lookAge, cur, snap, res, out, faults>>

Look(w) ==
    /\ dpc[w] = "idle"
    /\ \E S \in SUBSET {d \in Deliveries \ Tests : dstat[d] = "absent"} :
          LET due == S \union {d \in Deliveries : Due(w, d)}
          IN due # {} /\ MakeRows(S) /\ BeginLook(w, due, 0)

\* send_test, report_problem: one row, and this row alone is sent.
Ask(a) ==
    /\ dpc[a] = "idle"
    /\ \E d \in Deliveries : dstat[d] = "absent" /\ MakeRows({d}) /\ BeginLook(a, {d}, d)

\* The row is claimed if it is due still.
Claim(p) ==
    /\ dpc[p] = "claim"
    /\ \E d \in todo[p] :
          /\ \A e \in todo[p] : d <= e
          /\ todo' = [todo EXCEPT ![p] = @ \ {d}]
          /\ IF Due(p, d)
             THEN /\ dstat' = [dstat EXCEPT ![d] = "sending"]
                  /\ claimAge' = [claimAge EXCEPT ![d] = lookAge[p]]
                  /\ attempts' = [attempts EXCEPT ![d] = Tried(@)]
                  /\ Goto(p, "read")
                  /\ cur' = [cur EXCEPT ![p] = d]
                  /\ UNCHANGED <<wait, age>>
             ELSE UNCHANGED <<rowVars, dpc, cur>>
    /\ UNCHANGED <<lookAge, snap, res, own, out, faults>>

\* The row of another process's failed test may have been deleted by now: the
\* look raises and is over.
ReadRow(p) ==
    /\ dpc[p] = "read"
    /\ IF dstat[cur[p]] = "gone"
       THEN ProcEnds(p)
       ELSE /\ snap' = [snap EXCEPT ![p] = [status |-> dstat[cur[p]],
                                            attempts |-> attempts[cur[p]]]]
            /\ Goto(p, "send")
            /\ UNCHANGED <<lookAge, todo, cur, res, own>>
    /\ UNCHANGED <<rowVars, out, faults>>

\* The channel was switched off: the row is deleted.
SwitchedOff(p) ==
    /\ dpc[p] = "send"
    /\ "off" \in Answers
    /\ dstat' = [dstat EXCEPT ![cur[p]] = "gone"]
    /\ Goto(p, "claim")
    /\ UNCHANGED <<attempts, wait, claimAge, age, lookAge, todo, cur, snap, res, own,
                   out, faults>>

Send(p) ==
    /\ dpc[p] = "send"
    /\ \E r \in Answers \ {"off"} :
          /\ res' = [res EXCEPT ![p] = r]
          /\ r = "unsure" => faults < MaxFaults
          /\ out' = IF r \in {"ok", "unsure"} THEN [out EXCEPT ![cur[p]] = @ + 1] ELSE out
          /\ faults' = faults + IF r = "unsure" THEN 1 ELSE 0
    /\ Goto(p, "settle")
    /\ UNCHANGED <<rowVars, lookAge, todo, cur, snap, own>>

\* Only the columns that differ from what was read are written; a row that is
\* gone cannot be, and the look raises.
Settle(p) ==
    LET d == cur[p]
    IN /\ dpc[p] = "settle"
       /\ IF dstat[d] = "gone"
          THEN ProcEnds(p) /\ UNCHANGED rowVars
          ELSE /\ dstat' = [dstat EXCEPT ![d] =
                              IF Settled(p) # snap[p].status THEN Settled(p) ELSE @]
               /\ wait' = [wait EXCEPT ![d] =
                             IF Settled(p) = "sent" THEN -MaxLook
                             ELSE IF Settled(p) = "pending" THEN NextTry(p) - lookAge[p]
                             ELSE @]
               /\ Goto(p, "claim")
               /\ UNCHANGED <<attempts, claimAge, age, lookAge, todo, cur, snap, res, own>>
       /\ UNCHANGED <<out, faults>>

\* The list is done, or the 45 seconds of a look are over: they are looked at
\* before each claim, so at least one row was tried.
Done(p) == dpc[p] = "claim" /\ (todo[p] = {} \/ cur[p] # 0)

LookEnds(p) ==
    /\ Done(p)
    /\ own[p] \notin Tests
    /\ ProcEnds(p)
    /\ UNCHANGED <<rowVars, out, faults>>

\* send_test: a test that this process did not deliver is deleted.
TestEnds(p) ==
    /\ Done(p)
    /\ own[p] \in Tests
    /\ dstat' = IF Delivered(p) THEN dstat ELSE [dstat EXCEPT ![own[p]] = "gone"]
    /\ ProcEnds(p)
    /\ UNCHANGED <<attempts, wait, claimAge, age, out, faults>>

Crash(p) ==
    /\ dpc[p] # "idle"
    /\ faults < MaxFaults
    /\ faults' = faults + 1
    /\ ProcEnds(p)
    /\ UNCHANGED <<rowVars, out>>

-----------------------------------------------------------------------------
Aged(n, last) == IF n < last THEN n + 1 ELSE n

DeliveryTick ==
    /\ \A p \in Procs : dpc[p] # "idle" => lookAge[p] < MaxLook
    /\ lookAge' = [p \in Procs |-> IF dpc[p] # "idle" THEN lookAge[p] + 1 ELSE 0]
    /\ claimAge' = [d \in Deliveries |->
                      IF dstat[d] = "sending" THEN Aged(claimAge[d], ClaimExpires + MaxLook)
                      ELSE claimAge[d]]
    /\ wait' = [d \in Deliveries |-> IF dstat[d] = "pending" /\ wait[d] > -MaxLook
                                     THEN wait[d] - 1 ELSE wait[d]]
    /\ age' = [d \in Deliveries |->
                 IF dstat[d] \in {"pending", "sending"}
                 THEN Aged(age[d], GiveUpAfter + MaxLook) ELSE age[d]]
    /\ UNCHANGED <<dstat, attempts, dpc, todo, cur, snap, res, own, out, faults>>

DeliveryStep(p) ==
    Claim(p) \/ ReadRow(p) \/ SwitchedOff(p) \/ Send(p) \/ Settle(p) \/ LookEnds(p) \/ TestEnds(p)

DeliveryNext ==
    \/ \E w \in Senders : Look(w)
    \/ \E a \in Askers : Ask(a)
    \/ \E p \in Procs : DeliveryStep(p) \/ Crash(p)
    \/ DeliveryTick

DeliverySpec == DeliveryInit /\ [][DeliveryNext]_deliveryVars

\* The worker looks every 30 seconds, a process gets on with its look, and
\* time passes.
FairDeliverySpec ==
    /\ DeliverySpec
    /\ \A w \in Senders : WF_deliveryVars(Look(w))
    /\ \A p \in Procs : WF_deliveryVars(DeliveryStep(p))
    /\ WF_deliveryVars(DeliveryTick)

-----------------------------------------------------------------------------
\* "Each delivery is claimed first, so two processes never send the same one":
\* no two processes are ever past the claim of one row, although rows are
\* taken up again from processes that died.  It needs a look to end before
\* its claims expire: claimed_at is the moment the look began.
Sending(p, d) == dpc[p] \in {"read", "send", "settle"} /\ cur[p] = d

OneSender ==
    \A p, q \in Procs, d \in Deliveries : Sending(p, d) /\ Sending(q, d) => p = q

\* Why it holds, the inductive invariant of NotificationProofs: a row in a
\* process's hands is gone, or bears the claim of that process, made at the
\* moment its look began; and it has been tried at least once.
Hands ==
    /\ \A p \in Procs : dpc[p] \in {"read", "send", "settle"} => cur[p] \in Deliveries
    /\ \A p \in Procs, d \in Deliveries : Sending(p, d) =>
          \/ dstat[d] = "gone"
          \/ dstat[d] = "sending" /\ claimAge[d] = lookAge[p]
    /\ \A p \in Procs : dpc[p] \in {"read", "send", "settle"} => attempts[cur[p]] >= 1
    /\ \A p \in Procs : dpc[p] \in {"send", "settle"} => snap[p].attempts >= 1

ClaimHeld == DeliveryTypeOK /\ Hands /\ OneSender

\* As long as nothing was killed and every failure was one, nobody gets a
\* notification twice, whoever else looks, and however often it is retried.
SentOnce == faults = 0 => \A d \in Deliveries : out[d] <= 1

\* No look that settles late puts back in the queue, or gives up, what another
\* one has sent; only the person's own test is deleted after it was sent.
SentIsFinal ==
    [][\A d \in Deliveries : dstat[d] = "sent" => dstat'[d] \in {"sent", "gone"}]_deliveryVars

\* Every notification ends: delivered, given up, or withdrawn, even when its
\* process is killed in the middle and its channel never works.
EveryDeliveryEnds ==
    \A d \in Deliveries : dstat[d] \in {"pending", "sending"} ~>
                          dstat[d] \in {"sent", "failed", "gone"}
=============================================================================
