# ATDR in TLA+

ATDR collects firewall logs, judges them, raises alerts, tells people about
them and can block addresses. It is a FastAPI backend, one or more worker
processes, a receiver of live logs and a desktop helper around one SQL database
(SQLite on one machine, PostgreSQL on several). Paths below are relative to the
repository root; `services/` is `atdr/app/services/`.

This directory holds TLA+ modules of the parts of ATDR where processes,
requests and crashes interleave, the TLC configurations that check them on
small instances, and TLAPS proofs of the properties that matter most.
`PROJECT.json` lists components, runs, mutants, the source lines of every
definition, findings, hazards and theorems.

## How to read and run it

    tlc -workers 2 -config import_chain.cfg ImportChainMC.tla
    tlapm ImportChainProofs.tla

Each run of `PROJECT.json` names its module and its cfg. Every module `X` models
code; `XMC` gives it small constants; `XProofs` proves theorems about it
(`NotificationProofs` about Notices and Deliveries).
A definition whose comment begins with "Mutation" is a plausible bug: swapped for
the definition it names it makes a property fail, which shows that the property
depends on the code. No action uses it.

## 1. Inventory

| component | state it keeps | operations | interacts through | correct when |
|---|---|---|---|---|
| Resumable import (`job_service`, `resumable_ingestion_service`, `operation_worker`) | `operation_jobs`, `ingestion_runs`, raw logs, the staged file | enqueue, claim, chunk, cancel, release, recover, write off, resume, complete, fail | rows of the database; requests, workers and housekeeping act on the same row | no line lost or stored twice, checkpoints true, one worker at a time, every held job ends |
| Staged uploads (`staging_service`, `staged_input_retention_service`) | files of a directory | stage, plan, delete, clean up after completion | jobs that name the file | an input stays while a job needs it |
| Other jobs of the queue (`job_dispatcher`) | `operation_jobs` | enqueue, run, retry | the same claim and lease | admission limits, one execution, retries bounded |
| Worker and its guard (`operation_worker`) | heartbeats, lock file | start, look for work, stop | heartbeats of the other workers | one worker on SQLite, each look survives failures |
| Delivery of notifications (`notification_service.deliver_pending`) | `notification_deliveries` | look, claim, send, settle, test | conditional update of the row; channels outside | one sender, nothing sent twice, everything ends |
| What becomes a notification (`notification_service`) | `notification_alerts`, `_conditions`, `_state` | begin, report alerts, track problems, daily summary | alerts, backup and worker state; its own earlier rows | an alert is news once, a problem told and told over, one summary a day |
| Desktop hand-over (`notification_channels`, `scripts/desktop_agent.ps1`) | files of a spool | leave, take, show, clear | renames of files | a message is shown at most once, a dead helper is noticed |
| Blocking (`response_service`, `windows_firewall_connector`) | `blocked_ips`, rules of the firewall | block, unblock, list; each sweeps first | netsh commands; several request threads | the list tells what the firewall does |
| Retention of the live feed (`retention_service`) | raw logs, hourly summaries, a cursor in memory | summarise, delete, prune, unlink evidence | detection marks and refers to logs; labels | counted before deleted, counted once, what is needed is kept |
| Automatic checks (`auto_detection_service`, `detection_service`) | marks on logs, `detection_runs`, alerts | what is due, batches of windows, commit | receiver stores, retention deletes, a person's run | every log judged with its evidence, one alert for a group |
| Live feed receiver (`syslog_service`) | a bounded queue, counts, its row of `ingestion_runs` | receive, take a batch, save, halve, give up, report, close | two threads; the database; the next receiver closes what the last left open | every line is stored or counted, once and in order; it ends when asked to |
| Alerts and their rebuild (`alert_service`, `alert_rebuild_service`) | `alerts`, `alert_evidence` | create, group, close, rebuild | detection, people | a rebuild is all or nothing and no news |
| Releases (`release_service`, the watcher, start and stop scripts) | the live copy's files, environment and database; marker, record, request | switch, back out, recover, check, start, stop | files of `.atdr_runtime`, one lock | nothing starts between two versions, no stored row is lost, everything comes back |
| Scheduled backups | files | make, verify, rotate | the running database | the last good copy survives |
| Reviews and labels, accounts, cases, watchlists | their rows | create, edit | one request, one transaction | locking of shared reviews, codes used once |
| Parsers, rules, models, assistant, acceptance tools, dashboards | none, or offline files | functions of their input | | numerical or presentational |

What is hard: nothing but the claim of a job and the recovery of leases locks
a row; nearly every other decision reads in one step and commits in another,
so the steps of requests, workers and housekeeping interleave freely. Workers and
the server may be killed between any two steps and nothing resumes by itself
but what the rows say. Leases, claims and limits are times. Calls to the
firewall and to channels happen outside of transactions, and may have worked
although they reported a failure. `PROJECT.json` "hazards" has each of these at
its line.

## 2. Modules

### ImportChain, with JobStatus and DurablePrefix

One staged upload, the job that imports it and the child jobs that resume it
(`Jobs`, job 1 is the upload). The columns of `operation_jobs` are functions
`status`, `token`, `lease`, `gen`, `ckpt`, `runOf`, `child`. A worker is a
program counter, its claim and what it last read; so is a person's session.
Each transaction of the code is a *Read* and a *Commit* action (`OpenRead`,
`OpenCommit`; `Loop`, `ChunkCommit`; `CompleteRead`, `CompleteCommit`;
`ResumeCheck`, `ResumeEnqueue`, `ResumeMark`; ...). SQLAlchemy writes only the
columns whose value differs from what the session read, which `Flushed` says, and
which matters: a stale session does not undo what it did not change. `details_json` is one column, and
so `DetailsFrom` writes it as a whole: with the mark of a resume (`child`) that the writer
had read (`seen[w].kid`), or without it.
`Claim` and `Recover` are one step each, because they select with FOR UPDATE
SKIP LOCKED on PostgreSQL and there is one worker on SQLite.

`JobStatus` is the tables and pure decisions of `job_service`. `DurablePrefix` is
the abstract specification: the stored lines are a prefix of the file, the prefix
grows, and completion is announced only when it is the file. The chain
implements it (`ImplementsDurablePrefix`).

Left out: blank lines and the request's limit (positions count lines that will be
stored); the window by file hash; back-pressure of enqueueing; the cleanup of
terminal jobs' rows; `lease_owner`, which changes with the token. Housekeeping
may plan between any two jobs (`scripts/cleanup_staged_inputs.py`).

### Deliveries

One row for one notification on one channel. A worker's look and a person's
test both run `deliver_pending`: claim, read back, send, settle, each a
transaction. Every comparison is with the moment the look began, so times are ages
in ticks: `claimAge`, `wait`, `age`, `lookAge`. The channel answers what it
likes: delivered, failed for now, failed for good, delivered although it
looked failed (counted as a fault), nobody there, switched off. The deletion of
notifications after 90 days is left out. `NotificationProofs` extends both modules of
the notification service, so Deliveries has names of its own (`DeliverySpec`,
`dpc`, ...) where Notices has one too; its `Senders` are the worker processes.

### Notices

What a look writes down up to its second commit: the notification for new
alerts, the problems of ATDR's own, the daily summary. Reading and writing are two
steps, so two workers' looks interleave, and how long a problem lasted is judged on what was read;
a primary key that exists already, or a row that is gone, makes the whole look raise (`Clash`). A closed alert's place is
reused, so alerts never run out. `untold` counts tellings minus tellings over,
as far as 2. No tick passes inside a look's transaction. The watcher script
reports its own rows, which have another source, and is left out.

### Blocks

Request threads with their own sessions, the table `blocked_ips`, and the
firewall as the set of directions in which an address is blocked. A request sweeps
first, and the sweep and the two connector calls are modelled netsh command by
netsh command, each of which may fail and may have been carried out nevertheless.
Requests interleave freely: the endpoints of `routers/response.py` run in a thread pool,
and nothing in `response_service` takes a lock. So a block beside another request about its
address (also beside a request for the list, whose sweep selected a row of it) may leave a
row without rules, a rule without a row or two rows. What the code does not vouch for any
more is remembered for each address in `doubt`, a history variable that no guard reads:
`"rows"` that a row may claim rules that are not there, `"rules"` that a rule may have lost
its row. It grows with such a race (`Raced`), a failed addition or removal, a failure of
taking an addition back, a row relabelled as simulated, and a death of the backend in a
request about the address; it is emptied when a block of the address comes to the firewall
with no other request about it and one row at most (`Alone`), since that sets all rules anew.
Inactive rows' places are reused. A request that is refused for a protected address or
a missing reason sweeps and then changes nothing, like a request for the list, and is
not modelled apart from it.

### LiveRetention

The logs of one source by the hour, with one named source address and logs
without one, the hourly summaries, the pass of a worker and its cursor
`through`, against detection that checks logs in any order and may make them
evidence, and people who label them. The database is part of the
state (`db`, `up`): SQLite with one worker and no foreign keys, PostgreSQL with
several and with them. The pass over old evidence takes a chunk per visit. The audit
trail's and jobs' retention are left out, and so is the removal of references.

### Releases

The live copy of ATDR: the files that `HEAD` names and those that are there, the
environment, the database with its backup, the marker of a release in progress, the
record of the version that runs, and from which version each part was started. `switch`
goes through `stop`, `end`, `files`, `env`, `data`, `ask`, `wait`, `watch`, `record`
and `unmark`, and the same steps lead back (`way`). Any step can fail, which turns a
release back, and the process or the machine can go down between any two, after which
`Recover` starts from the marker. The watcher, which checks and answers requests, and a
person start what is missing through one lock (`Lock`, `Launch`), which the code looks for and
then writes: with the fault "two_starts" both enter (`Enters`), and one of the two records is
`"overwritten"`. A start that left its work to another one (exit code 3) makes the release wait for
health (`LeftToAnother`). A part's death stands for everything a watcher restarts it for.
One release process is modelled: of two `release.cmd` at once both may pass the look for
the marker (`release_service.py:1100`) before either has written it (`:1144`), and what they then do to
one folder is left out. A part that two starts launched twice counts as one.

### Checks

`run_detection` as the automatic check, a button of the page and a rebuild of the alert
list run it: the logs that are due (`due_logs`), batches that are filled up to whole
windows, the neighbours a batch is judged with, the alert that takes a group, and one
commit of alerts, evidence and marks. `hands` is what a check has read and judged;
the feed, analysts and other checks act in between. A run fails (`Fails`) with the groups
committed that it had an alert for, or its process ends. `Matches` is the rule: it
counts logs of one window, or over three windows. One source and one rule; the instance
is shorter than the day within which an open alert takes more evidence.

### LiveFeed

The receiver of live logs: a thread that takes lines off the socket (`Receive`) into a
queue of `MaxPending`, and the saving thread (`Take`, `Batched`, `Save`, `GiveUp`,
`BatchEnds`, `Report`, `Again`, `Close`). A part of a batch that the database refuses is
halved down to single lines: `ends` is where the parts end and `at` how far the batch is
done with. An error that does not say busy may refuse any part (`Refused`), also one whose lines are all
good: then nothing of it is stored, and its single lines count as unstorable. A busy database is a `Save` that does not happen; when the receiver
is to stop, each part gives up after `STOPPING_BUSY_LIMIT_SECONDS`. The end of the
process forgets everything in memory, and the next start closes runs that were silent for
three reports. Left out: several sources, lines that are no records (they may repeat), a
second receiver on another port, and the moments of reports and audits.

### OperationQueue

The rest of the queue, whose imports ImportChain has in detail: requests that put work into
it (`SubmitLook` counts and looks for the key, `Insert` meets the index), cancel it, retry it and
write it off; worker processes, from `Start` behind the guard of SQLite through the passes of
their loop (`Recover`, `Claim`, the work, `CompleteRead`, `CompleteCommit`) to their end or death;
and the five kinds of job by what they do to the queue. An import renews its lease, looks at its
job and at the stop event between chunks (`Boundary`). A detection run and a report look at nothing
(`Carry`). An observation looks for its cancellation once, a monitoring cycle at the stop event
only (`ToldToStop`). On PostgreSQL recovery and claim are one step, with the rows locked; on SQLite
the read and the commit are two (`wsaw`). `done` counts how often a job's work was carried out.
`Settings` is a set of environments, of which a behaviour has one: the database, the clients, what
they ask for, faults and bounds, so that one run checks small instances that differ. A job is
named by its row's number; its token is the worker that claimed it, which never tells two of its
own claims apart because it forgets the earlier one first.

Left out: `start_job`, `complete_job` and `fail_job`, the rows of operations that run inside
one request; the deletion of old rows; the limit per user and whose key it is; the pause for a
backup, the `--once` mode and workers of other machines.

## 3. Runs

Bounds are named constants of the modules; a cfg gives them values and nothing else.

| run | instance | states | shows |
|---|---|---|---|
| `import_chain` | 2 workers, 1 person with all three operations, 2 jobs, 2 claims each, 2 lines in chunks of 1, repeats skipped; late leases and dropped requests | 2.0 M | the inductive invariant (with one worker per job and no evidence past a checkpoint), monotone checkpoints, the refinement |
| `import_well_timed` | 2 workers, a person who resumes, 3 jobs, 3 lines in chunks of 2; kills, failures, signals, housekeeping | 1.0 M | lines stored once, resumes take over, one active import, counters agree, the input stays |
| `operation_queue` | fairness; 2 workers, 6 settings: every kind of job on SQLite and on PostgreSQL; a detection run or a report and its retry; 2 clients with 3 imports at a limit of 1, with leases that run out or with a mishap; a report on SQLite with every fault; late leases, and 1 crash, failure or signal | 237 k | one job for a key, the limit and its overrun, evidence fails closed, one worker on SQLite, every job ends |
| `completed_is_cancelled` | 1 worker, 1 cancellation | violated | finding: a completed job becomes `cancel_requested` |
| `deliveries` | fairness; a worker and an asker, 2 deliveries of which 1 is a test, two retry times, 1 fault, all six answers | 243 k | claims held, sent once, sent is final, every delivery ends |
| `notices` | fairness; one worker with 2 alert places and a nap, or two workers at once with 1 place; 1 problem | 332 k | news once, told then over, naps do not count, one summary, every alert told or closed |
| `blocks` | fairness; 2 threads, 1 address, 2 rows, all modes, requests in any interleaving; any 3 of: a block that begins to race, a failed netsh command, a switch, a crash | 516 k | the list and the firewall agree but for addresses in doubt; a block that is alone ends the doubt; expired blocks are lifted |
| `unblocked_in_simulation` | 1 thread, 1 row, 2 switches | violated | finding: a rule without a row |
| `retention` | SQLite with one worker and PostgreSQL with two, 2 logs of which 1 has no address, 4 hours, 1 restart | 1.8 M | counted before deleted, counted once, needed is kept |
| `releases` | fairness; 3 versions, one with other packages, one with another schema as well; 2 moves, 2 failures, 2 cuts, 1 death | 519 k | the folder is whole at rest, nothing starts in between, early rows kept, releases end, everything comes back |
| `checks` | fairness; 4 logs in 3 windows, batches of 2, both patterns; any 2 of a press, work on an alert, a rebuild, a mishap | 520 k | no log twice evidence, found like all at once, every log checked |
| `live_feed` | fairness; 3 lines (new, doubled, unstorable), queue of 1, batches of 3, 2 runs, 1 kill | 814 k | every line counted once, counts match rows, order kept, the end accounts for all, it ends, no line waits for ever |

Why the bounds suffice to see the interesting cases. Import: two lines are two
chunks, so there is a state between the first checkpoint and the end; two workers are
the stale owner and the next; a row is claimed a second time where a signal
lets go of it (`import_well_timed`; without one no import comes back to the queue, so `import_chain` shows none); the
third job is a resume of a resume; 3 lines in chunks of 2 end in a short chunk. A lease that runs
out under a live worker includes the one of a dead worker, so `import_chain` needs no kills; that a
worker dies between two of its steps is in the other run.
OperationQueue: two workers are the one whose lease lapses and the one that recovers; two attempts
are a retry and its exhaustion; the limit of one is passed by two requests and not by three jobs.
`SkipRepeats` is TRUE in one run and FALSE in the other. Deliveries: a
claim can expire (2 ticks) while looks last 1; the second retry time is
the last. Notices: the burst limit, the pause between notifications and the
grace of a problem are all reached and exceeded, and the nap is longer than
NOT_LOOKING_AFTER. Blocks: two threads are all that a race needs, two rows are an active
row and a successor, or the two that racing blocks insert, and three mishaps are a race, what goes wrong in the block
that follows it, and a change of the settings. Retention: the fourth hour lets a summary grow old enough to be pruned while
a later log is still unsummarised. Releases: the second move starts from what the first left,
also put back; two cuts are one of the release and one of its recovery. Checks: four logs are
two batches whose windows touch, and the pattern over three windows reaches across
both. LiveFeed: a batch of three is halved into unequal parts; the queue of one overflows while
a batch is saved; the second run starts with what the first left open.

Deadlock is not checked: bounded claims, jobs, logs and hours run out, and a
system with nothing to do stands still.

## 4. Fairness

- *OperationQueue*: a worker that is off is started again where the guard lets it
  (`deploy/systemd/atdr-worker@.service.example:14`, Restart=on-failure), keeps
  looking for work and gets on with its steps; an import comes to the end of its file; leases nobody
  renews, retry delays and the heartbeats of the dead run out. People need not act. Crashes, failures and
  signals are bounded by the setting: a worker that is told to stop again and again before it
  recovers a lease would never get to it, and nothing in the code prevents that.
- *Deliveries*: workers look every 30 seconds and finish looks; time passes.
- *Notices*: the same, with strong fairness of the tick, since a look forbids time to
  pass while its transaction is open, again and again.
- *Blocks*: some request goes on or a new one comes (the dashboard asks for blocked addresses
  every 30 seconds, `frontend/src/hooks/useApiQueries.ts:931`). No thread is promised its turn.
- *Releases*: the process of a release goes on, the watcher checks every half minute and takes
  requests, and a start that has begun proceeds. Nobody need release or recover anything:
  `ComesBack` is about what happens once no marker is left.
- *Checks*: the worker looks every few seconds, a check that runs goes on, and a feed that has
  nothing to send counts as quiet after two minutes.
- *LiveFeed*: the saving thread goes on, and receiving ends after it was asked to. A save is not
  fair: the database may be busy for ever. `StopEnds` holds all the same; `EveryLineEnds` says
  that it assumes `[]<>(pc # "save")`.

## 5. Assumptions, and what breaks without them

Properties that hold under a named assumption say so in their comment or through
a constant. Each assumption is needed: to see a counterexample, change the constant.

| change | property that fails | what happens |
|---|---|---|
| `late_lease` in `import_well_timed` | `ImportedOnce`, `OneActiveImport` | a worker whose lease was recovered writes once more after a resume copied the checkpoint (`renew_job_lease` tests the row read before the chunk): one more chunk, or, when asked to stop, the row back to queued. What it writes of `details_json` is what it had read, without the mark of that resume (`resumable_ingestion_service.py:413-427`), so the job may be resumed a second time |
| `drop` there | `StoredOnce` of `ImportedOnce` | the server stops after the child was inserted and before the parent names it; the parent is resumed again |
| two `Admins` there | `OneActiveImport` | two resumes both find no other active job; the key that should keep them apart is random |
| a job that `Overtaken` names (drop it from `EveryJobEnds`) | `EveryJobEnds` | the finding of `completed_is_cancelled`: no lease, so nothing ever recovers it |
| `together` on SQLite (drop `OneAtATime`) | `OneWorker`, `EvidenceFailsClosed` | two workers look for each other before either has written its heartbeat (`operation_worker.py:617`, `:623`); both read the same queued row, both claim it, and a detection run is carried out twice |
| `slow` on SQLite (drop `OneAtATime`) | the same | nothing writes a heartbeat while a job other than an import runs, nor while a worker without a job makes its looks between two passes (retention, housekeeping, detection; `operation_worker.py:491-555`); after three intervals a second worker passes the guard |
| `ImportLimit` without the number of clients | `QueueSound` | the limit is counted before the row is inserted (`job_service.py:427`, `:388`) |
| cancellations or `late_lease` in `ImportLimit` (drop `Undisturbed`) | `QueueSound` | an import that was counted as gone comes back to the queue: SQLite commits a claim over a cancellation, and a graceful release or a late lease puts back a row that was cancelled or recovered meanwhile |
| `MaxLook` of `ClaimExpires` or more in `deliveries` | `OneSender` | `claimed_at` is the moment the look began, so a claim can be born expired |
| a fault in `SentOnce` (drop its condition) | `SentOnce` | killed between sending and settling, a process leaves a claim that expires and is sent again: delivery is at least once |
| two workers in `ToldOnce` (drop `Alone`) | `ToldOnce` | both read the condition or the summary's time, both write; no key stops them |
| two workers in `NapsDoNotCount` (drop `Alone`) | `NapsDoNotCount` | a look that began before another's ends after it and sets the moment a problem was last seen back; the nap it slept through is then counted as watched |
| a race without its `"rows"` (drop it from `Ask`) | `ListedIsBlocked` | a request for the list selects an expired enforced row (`response_service.py:174`); a block of its address sweeps that row and adds the rules again; the first request's `remove_block` (`:184`) takes them away; the block finds no active row and inserts one that says enforced (`:264`) |
| a race without its `"rules"` | `ListedWhileBlocked` | a sweep removes an expired row's rules; a block adds them again and gives the row, still active, more time; the sweep sets it inactive (`:190`) |
| a failed addition or removal without its `"rows"` | `ListedIsBlocked` | blocking again clears the rules first; when adding then fails the old row still says enforced. A removal that fails in one direction may have removed the other |
| a failed undo without its `"rules"` | `ListedWhileBlocked` | what a failed block added and could not take back has no row |
| a relabelled row without its `"rules"` | `ListedWhileBlocked` | the finding of `unblocked_in_simulation` |
| a death of the backend without either | the same two | it dies between the firewall and the commit |
| `label` on SQLite in `NeededIsKept` (drop `ForeignKeys`) | `NeededIsKept` | a label written between the select and the deletion of a chunk refers to a log that is gone |
| `Nameless` for two workers in `CountedOnce` | `CountedOnce` | NULL never equals NULL in the unique constraint |
| `half_checkout` in `releases` | `StartsWhole` | a checkout cut in the middle leaves `HEAD` old, so `back_out` sees nothing to put back and skips the forced checkout (`release_service.py:1208`), against `docs/OPERATIONS_RUNBOOK.md:413` |
| `half_record` there | `RestIsWhole` | the release ends between its record and the removal of its marker (`:1179`): recover puts the old version back under the new record |
| `late_lock` there | `StartsWhole`, `FolderSound` | a start looked for the marker before it took the lock, minutes before the release wrote it (`:1100`, `:1144`) |
| `slow_start` there | `StartsWhole` | a start takes longer than the 90 seconds `stop_system.ps1:24` waits for the lock |
| `two_starts` there | `StartsWhole`, `FolderSound` | two starts look for `start.lock` before either has written it (`system_common.ps1:845-861`), and both launch; a stop waits only for the one whose record is there, and the other goes on in the release |
| `stale_request` there | `StartsWhole` | the watcher answers a start that the release asked for while it is put back |
| `late_log`, `resumes` or `early_button` in `checks` | `LikeAllAtOnce` | a window is judged before its last log is there, and its marks keep it from being judged again with what came later |
| `two_at_once` there | `EvidenceOnce` | the lock of PostgreSQL has no counterpart on SQLite; a button and the worker both find a log unused, although `detection_service.py:760` says it is not needed there |
| `audit_at_stop` in `live_feed` | `EndsAccounted` | see below |
| `lost_connection` there | `EndsAccounted`, `RowsTold` | an error that is not "busy" leaves a report; a batch that was committed is halved because its answer was lost, and its lines are counted as duplicates or unstorable though stored |

Sentences of the documents and comments that fail in the same way:

- "A block is only ever recorded as `active`/`enforced` in the dashboard when the real
  firewall rule genuinely applied" (`docs/changes/T1_T20_RESPONSE_REAL_ENFORCEMENT.md:73`)
  and "an unblock that fails to remove a real rule never marks the row inactive" (`:78`): a
  block beside another request about its address breaks what both are for, with no failure
  at all (the first two rows about Blocks), and so do the failures of the next ones.
- "A stale worker cannot renew, complete, cancel, fail, or release a job after ownership
  changes" (V3_94, line 20) does not hold for a chunk whose transaction was under way; the
  same page's line 36 promises at-least-once only.
- "That no job still needs" (`services/housekeeping_service.py:8`) is true when housekeeping
  plans, and not when it deletes: with a closed resume window, a job queued in between loses
  its file.
- "Every line is accounted for" (`services/syslog_service.py:8`): the hourly audit row
  (`:514`) that is due while the receiver is to stop and the database is busy raises out of
  the loop. What waits in the queue is neither saved nor counted, and the run stays open until
  a start 30 seconds after its last report; the script restarts after 5.
- `services/retention_service.py:35` says of the cursor that "every live log up to this raw log
  id is deleted or kept for good". Of two logs past the limit, of which the later is checked
  first, the pass deletes the later and moves the cursor over the earlier, unchecked one
  (`:193`); checked in its turn, that one stays until the worker restarts. `LiveRetention` has
  the step, and no run asks about it.

Of the queue, read against `OperationQueue`, which has each of these steps:

- A monitoring cycle is said to be cooperatively cancellable
  (`docs/archive/governance/PRD_ATDR_THROUGH_V5_58.md:1281`), and `request_job_cancellation` takes the request. Its handler is given
  the worker's stop event and not a look at its job (`job_dispatcher.py:397`): it runs to its end, its
  completion is refused as a lost lease, and the job whose work is done becomes "cancelled" when the lease
  runs out. A stop of the worker during a cycle nobody cancelled raises inside the handler of its own
  exception (`operation_worker.py:341`) and ends the process.
- `fail_queued_job` accepts a job in `cancel_requested` and puts one that may be tried again back to
  `retry_wait` (`job_service.py:726`): the cancellation is forgotten.
- "Only report exports are automatically retried" (`job_service.py:718`) and "Recover only safe export work
  automatically" (`:900`) leave out observations and monitoring cycles, which `:40` retries as well.
- On SQLite a claim that was read before a cancellation commits after it, and a job that the person was told is
  cancelled runs. On PostgreSQL the claim holds a lock.

Two more weaknesses of releases were read and are outside of the model: the dashboard
files kept of an earlier release are never removed (`release_service.py:1226`, against `:1149`),
and a second restore writes over the database it set aside as "kept beside it, not deleted" (`:1012`).

## 6. Properties

Import. `IInv` contains `EvidenceUpToCheckpoint` (what a resume trusts is there),
`NoEvidencePastCheckpoint` (nothing is there that a resume does not know of) and
`OneWorkerPerJob` (even a worker whose lease lapsed is never joined by another,
because a recovered import is failed and not queued). `CompleteMeansStored`: neither run nor
job is complete early. `CheckpointNeverMovesBack`. `ImportedOnce` (`StoredOnce` and
`ResumeTakesOver`), `OneActiveImport`, `StagedInputKept` as in the table above; `RunRowsAgree`: a run that is
there counts the lines that are stored, however many jobs opened it.

OperationQueue. `QueueSound` (types, `OneJobPerKey` and `ImportLimit`); `EvidenceFailsClosed`: no
two workers at one job that is not safe to repeat, and no detection run carried out twice;
`OneWorker`: the guard of SQLite; `EveryJobEnds`: liveness.

Deliveries. `ClaimHeld` (inductive, with `OneSender` its consequence), `SentOnce`,
`SentIsFinal`, `EveryDeliveryEnds`.

Notices. `NewsSound` (types and `AlertIsNewsOnce`) for any workers; `ToldOnce` (`ToldThenOver` and
`OneSummaryADay`) and `NapsDoNotCount` for one; `EveryAlertTold`: liveness.

Blocks. `ListedWhileBlocked` (no rule without a row) and `ListedIsBlocked` (no row without
rules), for addresses not in doubt; `ExpiredIsLifted`: liveness, with doubt or without. That an
address has one active row holds for those addresses as well, and is part of what is proved.

LiveRetention. `DeletedIsCounted`, `CountedOnce` (for logs and workers as `OneCounts` says), `LogsSound` (types and `NeededIsKept`).

Releases. `FolderSound` (types and `RestIsWhole`), `EarlyIsKept`, the action property
`StartsWhole`, and `ReleaseEnds` and `ComesBack`: liveness.

Checks. `JudgedIsNew`, the inductive invariant, with `EvidenceOnce` in it; `LikeAllAtOnce`,
which compares what batches, moments and failures found with judging everything at once;
`EveryLogChecked`: liveness.

LiveFeed. `IInv`, the inductive invariant: `Accounted` (received = waiting + counted),
`PartsFit`, `LastCounts`, `ClosedAddsUp`. `RowsTold` compares a run's counts with the
table, `InOrder` is about the table alone, `EndsAccounted` is what the docstring promises;
`StopEnds` and `EveryLineEnds`: liveness.

## 7. Proofs

`ImportChainProofs` proves, for any number of workers, people, jobs and lines, any chunk size
and any set of faults, from `ImportAssumption` alone:

- `TypeCorrect`: Spec => []TypeOK;
- `Invariance`: Spec => []IInv, and from it `CheckpointsTrusted`, `NothingPastCheckpoints`,
  `CompletionHonest`, `MutualExclusion`, `CheckpointsMonotone`;
- `Refinement`: the chain implements `DurablePrefix`.

The argument. None of the safety properties is inductive. That stored evidence reaches up to
every checkpoint rests on each worker's position being its job's checkpoint while it writes
(`AtCheckpoint`), which rests on nobody else writing it (`OneWorkerPerJob`), which
rests on a job in somebody's hands never being back in the queue (`OutOfQueue`): a recovered or
written-off import is failed, and a resume is another row. A worker that lost its lease may go on
writing; what keeps that harmless to these properties is that it writes its own row's checkpoint
from its own position. `Remembered` says that what a session read earlier is still true: lines are
never unstored. `IInv` is the conjunction, split into control and evidence, and the step of each
action is proved for each part.

Under `WellTimed`, the assumptions of `import_well_timed` (neither "late_lease" nor "drop"
among the faults, people who only resume, one request at a time), and for any number of
workers, jobs and lines, it also proves `StoredByOne` (Spec => []ImportedOnce), `OneActive`
(Spec => []OneActiveImport), `InputStays` (Spec => []StagedInputKept) and `RowsCounted`
(Spec => []RunRowsAgree). Here the lease matters: while it cannot run out under a live worker,
a worker that imports has its job running (`HoldsIt`), so a job that has ended is never
written again, and no resume's mark is lost, since what a worker read of its job bears none
(`ReadUnmarked`) and is written while the job bears none. Of the jobs of the chain one is not resumed, and its checkpoint covers all that
was stored (`OneLast`), so the chunk that it stores next is new; a resume makes another one the
last, with the same checkpoint (`Resuming`). The file goes when the last job is complete, or
when housekeeping planned so for a chain that nobody can resume any more (`SweepsDone`), which
no request in flight can change. The last job also names the only run there is (`RunsNamed`),
so a resume takes the run over and no second one begins, and a worker that stores has read its
counter as it is (`RowsRead`): the new lines of a chunk are added to the count of the stored
ones. Crashes, failures, signals and the age of the file are among the faults throughout.

`NotificationProofs` proves of Deliveries `ClaimsHold` (DeliverySpec => []ClaimHeld), `SentByOne`
(one sender), `SentStays` (sent is final) and `SentOnlyOnce` (DeliverySpec => []SentOnce) for any
processes, deliveries, retry times and faults, from `DeliveryAssumption` and `Timely`: a look
ends before its claims expire. The invariant: a row in a process's hands is gone, or is being
sent and bears a claim exactly as old as that process's look; such a claim is not due to anybody
whose look is younger than CLAIM_EXPIRES. For `SentOnce` it adds that, without a fault, a
delivery that reached a person is settled as sent, is gone, or is in the hands of the process
that sent it and knows so (`SentKnown`).

Of Notices it proves, from `NoticeAssumption`, `NewsIsSound` (Spec => []NewsSound) for any
workers, alerts and problems, and for one worker `ToldOnceAlone` and `SleepIsNotWatching`. The
list and the marks on alerts are written in one transaction, whose clash with another's is
refused: `NewsKept` says they agree. A single worker's reading is current when it writes
(`ReadIsCurrent`), so a problem is told on a time it really lasted; `Watched` bounds that time
by the time the machine was awake.

`ChecksProofs` proves `JudgedStaysNew` (Spec => []JudgedIsNew) and `OneAlertPerLog` from
`CheckAssumption` and `OneAtATime`: "two_at_once" is not among the faults. `EvidenceOnce` alone
is not inductive: a check that commits needs what it has in hand to be evidence of nothing
(`NewInHand`), which was true when it judged and stays true because nobody else may write evidence
while it judges (`OneJudges`). Any number of logs, windows, alerts, presses and mishaps, every
other fault included. `FoundLikeAllAtOnce` (Spec => []LikeAllAtOnce) is proved without faults: a window is
then judged when all of it is there (`ScopesComplete`, `HandsFinal`), a check's batch is made of whole windows
with their neighbours, so the groups it finds are the ones judging everything would find (`JudgedRight`), and
a mark put on a log never hides a later one of its group.

`LiveFeedProofs` proves `Accounts` (Spec => []IInv) and `StoredInOrder` (Spec => []InOrder) for any
sizes of queue and batch, any number of lines, runs and kills, under every fault, and `NothingLeft`
(`EndsAccounted`) without faults. Counting rests on the parts of a batch fitting together up
to its end (`PartsFit`), so that halving neither loses nor doubles a line; a closed run adds up because
nothing waits when the last counts are taken (`LastCounts`). Order rests on `Order`: what waits
came after all that is stored, or (`AheadOrKnown`) is known to the table, which is how a part looks
that was committed without an answer and is tried again in halves. That the stored part of a batch makes
all of its texts known needs the first line of each text, so `Smallest` proves that a set of naturals
has a least element, from the library's well-foundedness of `<`. What a run tells is compared with the table by `TellInv`: a
line waits, and is saved, in the run that received it (`OfTheirRun`), and the saved count never passes the
rows, so `NoneInvented` holds under every fault; `AllTold` (Spec => []RowsTold) adds that a closed run tells of
all of them, as long as no answer to a commit is lost.

`OperationQueueProofs` proves `SingleWorker` (Spec => []OneWorker), `FailsClosed`
(Spec => []EvidenceFailsClosed), `KeysMakeOneJob` and `TypeCorrect` from `QueueAssumption`, for any workers,
clients, keys, jobs and settings. The guard sees heartbeats and not processes, so the invariant adds that a
worker past its start has one to show (`Shown`). That a job has one worker is not inductive either: it
rests on the row not being queued while somebody carries it out (`Closed`), which a recovery, a failure, a
graceful release and a cancellation by a stale session each leave true, and on who may put a row back
(`AtWork`: only an import is released, only what may be repeated is retried). `CarriedOnce` adds that a
detection run that is queued, or was read to be claimed, has not been carried out. `QueueStaysSound`
(Spec => []QueueSound) adds the limit, for settings that are `Undisturbed`: the imports that wait or that a
worker holds and the requests that were let past the look together stay within the limit and the number of
clients less one (`WithinLimit`), and a worker that holds a job has it running with its own claim, so that it
puts back no job that another import was let in for (`Calm`). The cardinalities move by one in a step, by the
library's facts on finite sets.

`LiveRetentionProofs` proves, from `RetentionAssumption`, `DeletedWasCounted` and `LogsCountedOnce`, and with
`NoLateEvidence` `LogsStaySound`. The invariant is about the order of hours: everything before the hour that a
pass is at, or that was summarised, is counted (`Covered`), and no log of such an hour comes any more; a pass
that summarises has chosen the whole hour. What a pass is about to delete must be free of evidence at
the commit: PostgreSQL's foreign keys see to it, and on SQLite (without foreign keys) such a log was checked
before the pass read it and becomes evidence only by being checked again, which `NoLateEvidence` leaves out
(`ChosenIsFree`). A log is counted once because a second row of its hour and address is refused (`RowStops`),
and with one worker because what was counted lies behind the hour that a pass is at (`Behind`).

`BlocksProofs` proves, from `BlockAssumption`, `BlocksKeep`, `ListedStaysBlocked` and `BlockedStaysListed` for any
threads, addresses, rows and mishaps, with requests in any interleaving. The invariant has a part that holds
always, what a thread holds at each step (`Orderly`), and one for each address that says less the more `doubt`
says (`Kept`). Of an address that is not wholly in doubt, one row is active, and it is the one that any thread holds
or found (`OneRow`, `Knows`): a block has no other request about the address beside it, and nothing else adds a row.
With no doubt about rows, an enforced row has both rules, or a thread that lifts it or sets them anew
(`Enforced`), and a block is recorded with both rules set (`AddsBoth`). With no doubt about rules, a rule has an
enforced row or a block at work (`Listed`), and what is set inactive has no rule left, as a block that did not
succeed leaves none (`LeavesNone`). The steps of a thread that deals with another address change none of it
(`Elsewhere`); those of one that deals with it leave what other threads hold, as they only take away (`StepKeeps`)
or are a block's, which is alone (`AloneKeeps`).

`ReleasesProofs` proves, from `ReleaseAssumption`, for any versions, environments, parts, rows and
starters, and any number of releases, failures and interruptions:

- `EarlyStays` (Spec => []EarlyIsKept), whatever of `FaultKinds` happens. What was stored before
  the stop is in the database until a backup is taken, and a backup is taken of the database as
  it is then; from there on it is in that backup (`EarlyInv`), which no later step replaces and
  which a put-back fills the database from.
- `StartsAreWhole` (Spec => StartsWhole) and `RestsWhole` (without a marker the folder is one
  version, and its own parts run that one or nothing), for releases that may also be cut off
  between their record and their marker (`Orderly`: no fault but `half_record`).
- `FolderStaysSound` (Spec => []FolderSound) without faults.

That the folder is whole at rest rests on what each step of a release finds: which of files,
environment and database are changed before it (`StepsDone`), that the marker holds the way back
(`WayBackKept`), and what a record says that was written before the marker went (`OnRecord`).
These do not depend on who starts what (`FolderInv`). Who starts what depends on them: while
something is being changed nobody holds the start lock, no start is asked for and nothing runs
(`Quiet`), and a start that found the folder free of a marker keeps the lock that a release
waits for, so it launches what it found (`FindsWhole`, `RunsHead`). The faults are the ways
around that lock and around the order of the steps; TLC shows that each one left out of a
hypothesis breaks the theorem (section 5; `FolderSound` fails with any of them).

With these, every invariant and every action property of the passing runs is the statement of a
theorem. Model-checked only: liveness and the fairness it needs, as TLAPS 1.4.5 has neither
ENABLED nor liveness rules here (`EveryJobEnds`, `EveryDeliveryEnds`, `EveryAlertTold`,
`ExpiredIsLifted`, `ReleaseEnds`, `ComesBack`, `EveryLogChecked`, `StopEnds`, `EveryLineEnds`);
that an assumption is needed, which takes a counterexample; and the two findings.

## 8. Not modelled, and why

Parsing, rules, scores, models and the assistant are functions without state between calls, or numerical.
Accounts rest on cryptography and single transactions. Acceptance tools and dashboards keep no state that
another part reads. The rest is planned below; each component's entry in `PROJECT.json` says where it stands.

## 9. Plan

1. *Composition*: LiveFeed, Checks and LiveRetention over the same logs, a log stored, judged, summarised and
   deleted in that order.
2. *DesktopHandover*: the spool, renames and timeouts, composed with the answers of Deliveries.
3. *Backups*, *Reviews*.
4. Proofs: that the part of a log's life that LiveFeed, Checks and LiveRetention each have
   adds up to one, once they are composed.

A run takes at most three minutes with two workers, and there are twelve: one for each module's safety and
liveness together where one instance serves both, and the findings. A later module's runs take the place of
those whose question another run answers.
