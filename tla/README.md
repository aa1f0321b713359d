# Verification of the contest management system

This directory holds TLA+ models of the services that run a programming
contest, the TLC configurations that check them on small instances, and TLAPS
proofs of the properties that matter most for instances of every size. The
models are translated from the Go code and the SQL under `src/`; `PROJECT.json`
maps every definition to the lines it stands for.

Contents: [the system](#1-the-system) ·
[what is modelled](#2-what-is-modelled) · [runs](#3-runs) ·
[fairness](#4-fairness) ·
[disagreements and observations](#5-where-the-code-surprises) ·
[proofs](#6-proofs) · [what is left out](#7-what-is-not-modelled) ·
[what remains](#8-what-remains-to-be-done).

To check everything: `tlc -config X.cfg M` for each run of `PROJECT.json`, and
`tlapm` on the eight modules of [section 6](#6-proofs).

## 1. The system

Contestants submit programs through the contest web server. The dispatcher
turns every submission into jobs, workers run the jobs in sandboxes, and the
dispatcher turns their results into scores, which go to the ranking servers.
The staff work in the administration web server. PostgreSQL holds everything
that must survive; Redis carries jobs, results and events as streams with
consumer groups, and the leases that keep one replica of a service active.

| Component | State | Operations | Interacts with |
|---|---|---|---|
| contest web server (`contestweb`) | submissions, tokens, questions; cached contest and participations | `storeSubmission`, `handleToken`, logins, pages | commits a row, *then* publishes an event |
| dispatcher, judging (`dispatcher`) | `submission_results`, `evaluations`, `executables`; cached `datasetInfo` | `advance`, `handleSubmissionResult`, `retryOrFail`, `Sweep`, `Invalidate` | one transaction per step; jobs enqueued *after* the commit; results acknowledged *after* the handling |
| dispatcher, task scores (`dispatcher`, `scoring`) | `participation_task_scores` | `aggregate`, `aggregateIfLive`, `reaggregate`, `reaggregateTask` | several goroutines at once: event loop, sweeper, result shards |
| job and result queues (`queue`) | four priority streams, the results and dispatch streams, their pending lists | `Enqueue`, `Next`, `Complete`, `Requeue`, `PublishResult`, `AckResults` | at-least-once delivery |
| worker (`worker`, `tasktypes`, `sandbox`) | the job and the boxes of each slot, a blob cache | `Execute`, `Complete` | reads jobs, publishes results |
| monitor (`monitor`) | none | `Check` | takes back jobs of dead and stuck workers |
| leases (`queue/lease.go`) | one Redis key per service | `TryAcquire`, `Renew`, `Release`; `AdoptPending` | dispatcher, monitor, ranking pusher, printing, backups |
| compilation cache | blob digests by the inputs of a compilation | lookup, `remember`, clear | `advance` and `Invalidate` |
| user tests, generated testcases | `user_test_results`, testcase jobs | a second state machine like that of results | queues |
| ranking pusher and web servers | numbered boards, per-server push state, open pages | full and delta pushes, event streams | lease, HTTP |
| score types, ranking (`scoring`, `ranking`) | none | `Compute`, `Skippable`, `Aggregate`, `Replay` | dispatcher, pages, pusher |
| contest rules (`contest`) | none | tokens, limits, timing | contest web server |
| administration web server (`adminweb`) | accounts, sessions, contests, tasks, users, questions, balloons, the audit log | forms and pages | database, events to the other servers |
| blob store | content-addressed blobs, their table, a collector | put, register, collect | everything that stores files |
| printing, backups, archives, upgrade | jobs and files | service loops and commands | lease, database |

The rest (statements, PDF, certificates, translation, package formats, flags,
metrics) formats or parses and keeps no shared state. `PROJECT.json` lists every
component with its status.

### What is hard about it

* **At-least-once delivery.** A job may run twice (a stuck worker goes on after
  the monitor took its job back), a result may be delivered twice (a crash
  before `AckResults`), a notification may be lost (it follows the commit).
* **Two stores.** A PostgreSQL commit and the Redis enqueue that follows it are
  not atomic; a file and the row that names it are not either.
* **Reevaluation during judging.** Jobs of an earlier generation finish after
  the row was reset; the generation number has to fence them off.
* **Stale copies.** The dispatcher judges with a cached dataset; the web servers
  admit a request by a cached contest, participation or administrator; a form
  saves the row its page loaded.
* **Derived state.** The task score is recomputed from rows that other
  transactions are changing; a board is pushed as differences.
* **Failover.** A lease expires by wall-clock time; its holder notices later.
* **Failing half-way.** Backups, restores, upgrades, imports and directories are
  sequences of steps, each of which may fail.

### What makes each component correct

* *Judging*: a row is scored only if it is fully judged; a system error is
  earned by real failures; nothing of an old generation enters a new one;
  finished rows are final; no work is lost; every submission is finished.
* *Task scores*: the settled score is the aggregate of the results; adjustments
  survive every recomputation.
* *Leases*: one replica at work; nothing acknowledged unhandled or stranded.
* *Contest web*: a session that was closed ends; submissions and tokens keep to
  the contestant's own time and to the limits.
* *Ranking*: a page never applies a change to another board; servers converge.
* *Staff*: references stay inside their task, contest or team whatever pages are
  open; nobody acts with rights long taken away; the last full administrator
  stays; every change is in the audit log.
* *Storage*: what a row refers to is there; a backup said to be good can be
  restored; the newest are kept; no log segment is recycled before it is safe.
* *Services*: a step is taken once and everything begun ends.

`PROJECT.json` lists under `hazards` the places where these can go wrong, each
at its line with the properties that would catch it. Some of them the code does
not exclude: a property then bounds what they do, or leaves out the histories in
which they happened, and a note says so; where nothing is left to say, the hazard
has no property, only its note.

## 2. What is modelled

| Module | What it is | Checked in run |
|---|---|---|
| `Judging` | the result rows of one dataset: dispatcher, queues, workers, monitor, administrators | `delivery`, `reevaluation`, `admin` |
| `SubmissionLife` | the abstract life of a submission, which `Judging` implements | `delivery` (`ImplementsLife`) |
| `TaskScore` | the stored score of one participation on one task under concurrent handlers | `task_scores`, `task_races` |
| `Lease` | the lease of a service and its consumer group | `operations` |
| `Registrar` | users, participations and the team of a contest: the staff's forms and the registration | `operations` |
| `Problems` | tasks, datasets, testcases, packages and clones in the staff's pages | `operations` |
| `Scoring` | score types, verdicts and the short-circuit against a full judging | `operations` |
| `Standings` | score modes, replay, ranks, medals, teams and the overview | `operations` |
| `Desk` | questions, announcements and messages | `operations` |
| `Floor` | balloons and appeals | `operations` |
| `RankingWeb`, `RankingPush` | boards, deltas and pages; the pusher that feeds them | `ranking`, `ranking_restart` |
| `ContestWindow`, `ContestWeb` | phases, limits and tokens; the servers with their caches | `contest` |
| `BlobStore`, `BlobCache` | the store with its collector; the cache of a worker | `storage` |
| `Backup` | backups with their lease and rotation; the archive of log segments | `storage` |
| `TestcaseJobs`, `CompileCache`, `Printing`, `Upgrade` | services beside the judging | `services` |
| `Checkers`, `Execution` | comparators and checkers; boxes, task types and verdicts | `services` |
| `Accounts` | administrators, sessions, second factors and the audit log | `office` |
| `BackupFile` | writing a backup to a file, and restoring it | `office` |
| `ContestSettings`, `ContestConfig` | settings of contests, by hand and from a directory | `office` |
| `ContestArchive` | the export and import of a contest | `office` |
| `Plagiarism` | the similarity report | `office` |
| `Feedback` | what contestants, leaders and the staff may read of a submission | `office` |
| `Intake` | taking a submission in | `office` |
| `MCJudging`, `MCTaskScore`, `MCContestWeb`, `MCOperations`, `MCServices`, `MCStorage`, `MCOffice` | instances for TLC; `MCJudging` holds the refinement mapping | |
| `JudgingProofs`, `TaskScoreProofs`, `OperationsProofs`, `ProblemsProofs`, `WebProofs`, `StorageProofs`, `ServicesProofs`, `Sums` | theorems and proofs | |

`MCOperations`, `MCServices`, `MCStorage` and `MCOffice` compose parts that share
no variable. A variable `moving` chooses at the start the part that a behaviour
moves; the others stay as they start. Nothing is lost by that: an interleaving
of parts that do not interact has no state that is not a combination of theirs,
and every property of these runs speaks of one part at a time.

### Judging

A row is the `submission_results` record of a submission on a dataset:
`exists`, `gen` (`generation`), `comp` (`compilation_outcome`), `eval`
(`evaluation_done`), `exes` (whether `executables` rows exist), `total`
(`testcases_total`), `scored` (`scored_at` is set), `err` (`system_error`) and
`enq`, which abstracts `jobs_enqueued_at` to never, recent, or older than the
sweeper's grace period. `evals` are the `evaluations` rows.

| Action | Code |
|---|---|
| `Submit` | `storeSubmission`: commit, then `submission` event, which may be lost |
| `newSubmission`, `Sweep` | event loop and sweeper; both call `advance`, one sub-action per case of its switch |
| `Elapse` | the grace period of a row passes |
| `HandleResultOf` | `handleSubmissionResult`, one sub-action per case: stale, load error, `retryOrFail`, compilation, `applyEvaluations` |
| `Deliver`, `Complete`, `Crash` | a slot of a worker |
| `CheckLost`, `CheckTimeout` | `monitor.Check` through `Requeue` |
| `AdminRequeue` | `RequeueByID` |
| `Invalidate` | `reeval.go`, levels compilation, evaluation and score |
| `AddTestcase`, `DeleteTestcase`, `ReloadDataset` | dataset editing and the dispatcher's cache of it |

Every change of a row is one transaction under `FOR UPDATE`, hence one action;
the enqueue after it is the `apply` conjunct, which may send any part of the
jobs. The acknowledgement is the `AckResults` conjunct, which may be missed.
Jobs and results are bags of messages: priorities and stream order decide only
which message is read first, and any may be. What a sandbox computes is a
choice: success, a failed compilation, or an error of the worker; `Execution`
looks inside. The compilation cache hits or misses at will; `CompileCache`
looks inside. The generation stamped on an evaluation, and `fails`, the failed
executions of the current generation, are history.

### TaskScore

`result` holds, for every dataset and submission, how far the result is; `task`
is the `participation_task_scores` row; `cache` and `loading` are the
dispatcher's cached datasets and the loads on their way; `tx` is what each
goroutine has read and not yet stored. A handler that aggregates is two steps:
the change of the result with the read of the other results, and the upsert
with the commit. Merging within each step is sound: nobody sees an uncommitted
result, and the upsert holds the task-score row until the commit. History:
`base` (the last aggregate stored), `given` (the adjustments), `raced` (an
aggregate was stored, or a dataset cached, that was stale by then).

### The operations: Lease, Registrar, Problems, Scoring, Standings, Desk, Floor

In `Lease`, `key` is the Redis key, `pending` the pending list of the group,
`batch` what a replica has read; `ExpireDead` is the time to live passing after
a holder died, `ExpirePaused` the same under a live holder that was suspended.

`Registrar` and `Problems` keep the tables the pages write (`roster`, `bank`)
and what every page of the staff holds between its steps. A handler loads the
rows it needs, decides on what it loaded, and writes in a later step, by a
statement of the name it has in `db/queries`; a statement that writes a whole
row writes what was loaded. A transaction that reads after it wrote (the import
of users, a registration that joins a team) is one step more before its commit.

`Scoring` judges one submission testcase by testcase, in any order of results,
and compares `Compute` and the verdict with those of a judging that skips
nothing. `Standings` keeps a history of submissions, scores and adjustments;
everything shown is computed from it and compared with what it should be. A
token is an event of its own, later than its submission: one played after the
cutoff counts in the frozen board at once, and only adds points there.

`Desk` reads a contestant's page query by query, then marks it as seen. `Floor`
computes the balloons from the solved tasks; runners act on the list their page
showed; appeals are counted, then stored.

### The contest: ContestWindow, ContestWeb, Intake, Feedback

`ContestWindow` has the pure rules: `Phase`, the limits, the token pool in the
closed form of the code. `ContestWeb` is one participation before several
servers: `row` is the database, `cache` what each server keeps and since when,
`req` the request of each browser from its admission (`withAuth`) over the
loading of the row to its end. `superseded` notes when each nonce ended. Time
moves in units; a row may take `MaxLoad` units to read. Conditions that only
refuse a request (a pause, a closed task, the limiter, an invalidated
submission) are left out: more is admitted than the servers admit.

`Intake` is `handleSubmit` up to the stored row: fields, an archive, outputs
completed from earlier submissions, the limits on sizes, the receipt; its forms
have no file of another language than the chosen one, and its datasets of outputs
ask for the completion. `Feedback`
is what is read of a result on two datasets while it is judged, by contestants,
their team, leaders of a delegation and the staff.

### Ranking

`RankingPush` computes the board of one contest and sends every server the rows
that changed, or the whole board; `RankingWeb` holds the boards by name, writes
them to disk, and broadcasts frames to pages, which apply a frame or reload.

### Storage and services

The storage modules are fine-grained: an action of `BlobCache` is what a thread
does between two points where another one can run; `BlobStore` has a request
store, register and refer in separate steps beside a collector that lists and
deletes; `Backup` takes every file and metadata operation as a step that may
fail; in the archive of log segments the command may die between any two.
`TestcaseJobs`, `CompileCache`, `Printing` and `Upgrade` are translated handler
by handler in the same way. In `Printing` the service may run with or without a
printer; without one it marks jobs as done and says so in their `status_text`
(`service.go:142`). The limits may be absent, and an unrestricted participation
has none. In `Execution` a program of `Batch` may leave no output file, a call for
a box may be cancelled while it is initialised, and a job may follow one whose
boxes failed.

### The office

`Accounts` has a request of an administrator step by step (the cached account,
the route's right, the handler's statements, the audit entry), on servers with
caches, the limiter of failed logins, and the chain of audit entries verified
page by page while entries are written. The log may have been altered before, in
the database itself: inside, or rewritten as another chain, of which a removed
tail is one case; `noted` is a head of the log that somebody wrote down. The
statement that marks a default password may fail. `BackupFile` writes the
tables of one snapshot and then the blobs; the restore reads member by member.
`ContestSettings` has pages that save whole rows beside pages that change
columns; `ContestConfig` applies a directory in several transactions.
`ContestArchive` exports and imports row by row with the references it rewrites
or defers; participants are deleted meanwhile, and the garbage collector takes
files that no row names. `Plagiarism` is the report as a function of the latest submissions.

## 3. Runs

Bounds are constants of the modules, marked *Bounds of the model* where they
are declared; each counts something the program does not limit.

| Run | Question | Instance |
|---|---|---|
| `delivery` | does one submission end judged on everything, or with an earned system error, living the life of `SubmissionLife`, whatever the queues do? | one submission, two testcases in a job each, two attempts, one crash or timeout, a sweep while two messages are outstanding |
| `reevaluation` | does nothing of an old generation enter a row, and is every submission finished? | both testcases in one job, a recompilation or reevaluation, a lost enqueue and a crash |
| `admin` | is every submission still finished when everything administrators do happens? | an imported submission, a replica that lacks its language, the short-circuit, an edited dataset, every level, a requeue |
| `task_scores` | does every change reach the task score? | two submissions, best of tokened and last, an adjustment and a token, an invalidation or a reevaluation; two datasets, a change of the live one, a restart, a failure or a lost event |
| `operations` | the lease, the staff, the scores, the standings, the desk and the floor | three replicas with two pauses and a crash; two of the staff with three requests, on users and on tasks; every score type on four testcases; three entrants with three events; two contestants with three messages; two solvers, two runners, an appellant with two tabs |
| `ranking` | does a page never mix two boards, and does the server converge? | one contest, two keys, one server and page, two changes, one fault |
| `contest` | do sessions end, and are time, limits and tokens kept? | one participation, two browsers, two servers, five sets of rules, one of them with a token maximum and an interval between tokens |
| `storage` | is what the database refers to safe? | two requests and two sweeps; two threads and two blobs in a cache for one; two servers and two backups; two segments with two faults |
| `services` | does each service do what it began, once? | one job and one user test; two rows of one program; three print jobs of a participation that may be unrestricted, with and without a printer; three versions; texts up to three characters; every task type on two testcases, and a job after one whose boxes failed |
| `office` | accounts, audit, backup file, settings, directories, archives, reports, what is read, what is taken in | two browsers on two servers with three requests; five audit entries, altered or not; two rows and two blobs; two organizers; two tasks in a directory applied three times; two importers |
| `task_races`, `ranking_restart` | expected violations, [section 5](#5-where-the-code-surprises) | two goroutines; two keys and a restart |

Why these instances are large enough. Rows of different submissions share no
state in `Judging` but the queues and the slots, whose order is arbitrary, so
one submission shows every interference there is: a job with its duplicate, a
generation with the next, a row with the sweeper. Two testcases are what it
takes to be partly evaluated; two attempts distinguish the first, a retry and
the last. Two submissions and two handlers are what it takes to overwrite an
aggregate; a third replica can take the lease while the first two are still at
work. In the staff's pages two requests overlap and a third sees what they
left. Where a theorem of section 6 states the property, size is no question.

`MCOffice` trims its parts with conjuncts on the next state (`AccountsPart`,
`BackupPart`, `SettingsPart`, `ConfigPart`, `ReportPart`, `IntakePart`), which
keep what happens apart in time from being combined: they are bounds, and each
says in its comment what it leaves in. The accounts are taken in three parts and
the settings in two for the same reason; every handler of the component moves in
one of them. `ExecutionPart` of `MCServices` gives a worker a second job only
after a failure of its boxes. `FloorPart` separates balloons and appeals, which share no table;
`WithinPart` of `MCTaskScore` gives each of its parts its own limits.

Deadlock is not checked: with every submission judged and every bound used up,
these systems rest.

`ScoredMeansJudged` is stated for datasets that are not edited, and its runs
have no edits: after a testcase is added, rows scored before keep their score
until somebody asks for a reevaluation, by design. `GenerationFence` and
`NoWorkLost` are checked where they hold; the observations below say where they
do not. `OneActive` speaks of the time before a holder was paused beyond the
time to live of its lease; `EveryChangeAggregated` of histories in which nothing
stale was stored (`raced`) and no event was lost or failed, which leaves what it
is about: that every change of what counts is followed by some aggregation.

For each property checked by a passing run, `PROJECT.json` names a mutant: a
definition next to the original (marked *Mutant*) with a plausible bug, under
which the property fails in the same run.

## 4. Fairness

* `Judging` (`FairSpec`): weak fairness of what runs in a loop as long as the
  services do: a slot reads and finishes jobs, the monitor takes back lost ones,
  the dispatcher handles results and sweeps each row, and reloads the dataset
  (its cache has a time to live), and time passes. No fairness of submitting, of
  notifications (they may be lost), of administrators, of crashes, nor of the
  outcome of a job: a job may fail every time. `EventuallyFinished` therefore
  rests on the sweeper and the attempt limit alone.
* `Lease`: live replicas go on trying, renewing, reading, handling and
  acknowledging; a key whose holder is gone expires. A dead replica need not be
  restarted. Pauses are bounded in number: `LeaseSettles` says that a split ends
  once they do, and that what a dead replica had read is taken over.
* `RankingPush`: the pusher resynchronises and flushes and its requests end; a
  page need not exist. `Converges` is about the server's board.
* Services: results are handled and rows swept, as in `Judging`; the printing
  service serves; nothing is assumed of stops and failures, which are bounded.
* Storage: threads go on; a backup's steps are taken or fail; the archive
  command is called again for a segment until it succeeds, which PostgreSQL does
  for ever. That command may fail in many ways, so it has strong fairness:
  PostgreSQL goes on calling it between failures.

`MCOperations`, `MCServices` and `MCStorage` restate a fairness condition with
`moving` where the action would be enabled in a part that does not move.

## 5. Where the code surprises

Two disagreements are runs that expect a violation, with the quoted line in
`PROJECT.json`.

* `task_races`: two submissions of a contestant scored at once; the second
  upsert stores an aggregate that lacks the first (`judging.go:568`).
* `ranking_restart`: the numbers of a board start over when another process
  becomes the pusher; a page that lost its stream and finds its number again
  takes the next update as if it had missed nothing (`pusher.go:389`).

What else was met while modelling. No run asserts these; the properties are
stated so that they say what does hold.

*Judging.* A rescore keeps the generation, so a late failed duplicate still
matches the row and marks it as just enqueued: the sweeper passes over it for a
grace period (`NoWorkLost` fails when `Levels` contains `"score"`, and for rows
imported unfinished, whose archive carries no jobs). A reevaluation that keeps
the executables keeps `testcases_total` (`reeval.go:22`, `judging.go:449`).
Error results reach `retryOrFail` before the check for duplicates, so a failing
duplicate can end a compiled row as a system error (`judging.go:327`,
`dispatcher.go:7`); each failure is one real execution, and `SystemErrorEarned`
counts those. An imported row caught in the middle of its evaluation is
recompiled without deleting its evaluations (`judging.go:290`). An event whose
handler failed is acknowledged, and the sweeper does not repeat an aggregation
(`dispatcher.go:171`). A recompilation clears the compilation cache before it
invalidates the rows (`reeval.go:98`).

*Leases.* A holder paused beyond the time to live works beside the new one until
its next renewal; row locks and generations keep that harmless for judging.

*Contest web.* Two presses of the start button both write, and a row read before
a reset may be written back (`participations.go:205`). The limits are checked
before the row is stored, so requests at once pass together. A cached nonce can
refuse the newest session for a while; a login whose `BumpLoginNonce` failed
leaves the others open. A message written while a page is marked as read may
count as seen. Of two archive entries with one base name the first wins; an
output merged from an earlier submission lives on when that one is invalidated.

*Feedback.* A submission of a delegation is shown without regard to its
invalidation; the leaders' scores open "after" by the contest's stop alone
(`delegation.go:12`); the overview shows the full score even with tokens on
(`dashboard.go:91`), starts from zero so that a negative total shows as zero,
and takes the first ICPC solver by the clock where the ranking takes minutes.

*Scores.* Rounding at low precision can make a partial submission Accepted;
failures of `GroupThreshold` with an outcome of one or more are called WA; a
public testcase may show as skipped. A team merge with equal minutes takes the
attempts of whoever ranks first; under `max_tokened_last` an unscored last
submission hides the untokened score; `Compute` of ICPC includes adjustments
and `Replay` does not.

*Staff pages.* `handleDatasetDelete` checks the live dataset it loaded, so a
dataset made live meanwhile may go, and the task is left without one. Whole-row
saves write back a contest, number or parameters changed meanwhile. A move from
a stale list pulls a removed task back. A rejection races an approval; the size
of a team is not checked by an import and is exceeded by transactions that
overlap; an import creates accounts without a password when the users it was to
update vanish. Score parameters are validated against testcases read before.

*Desk and floor.* A second answer overwrites the first; a message to a team may
reach part of it; balloons kept by the code of a team appear again when a member
joins one, and two runners may carry the same one; a reconnected stream does not
refresh the page (`sse.go:87`).

*User tests.* When the language of a run disappears, the sweep or the start of the
run ends it with a system error and does not tell the testcase job that waits for
it, which waits for ever (`usertests.go:94`).

*Accounts.* A default password "must be replaced before anything else", says
`auth.go:94`; when the statement that marks the account fails, the login logs it
and goes on, and that session opens every page (`auth.go:97`). `DefaultReplaced`
leaves out the requests of an account that was not marked when they were
admitted. Two full administrators may remove each other at the same time
(`system.go:484`); `FullAdminRemains` speaks of requests that did not overlap. A
failing later statement of `handleAdminUpdate` leaves the change
unaudited and the cache undropped; an entry is lost, with a log line, when its
author was deleted meanwhile; the token of a pending second factor is not bound
to the password. `cmdAdminPassword` writes back the role it read.

*Audit log.* `Verify` finds an entry that was changed, and one that is missing
before others. It does not notice the removal of the last entries, nor a chain
computed anew after a change (`verify.go:54`): that takes the head somebody wrote
down, as the comment on `HeadSeq` says. `VerifyRight` states both halves.

*Settings, directories, archives.* The whole-row save of the settings form loses
a concurrent extension; a directory is applied in separate transactions, so a
change from A to B and back leaves what was written between; the dispatcher is
not told when `Apply` fails half-way; edits by hand of a tagged dataset are not
detected. Anonymized users of different installations are merged by number; a
name taken after `checkNames` ends the import by the unique constraint. An
import leaves a file alone that the store has (`import.go:276`), without
registering it again: if no row named it, it may be collected before the import
commits, and the rows then name a file that is gone (`FilesTravel` leaves out
these files and no others).

*Blobs and the cache.* The grace period does not protect content stored again
long after it was first recorded (`tracked.go:47`): a request that stores it
between listing and deletion loses it, unless its reference is there first.
`BlobsKept` leaves out the rows whose content was taken or listed when they were
committed, and no others; which requests that can befall is part of it.
Readers can evict each other's blobs for ever; a cancelled leader fails its
waiters; an insertion after a deletion leaves a stale entry, which costs an
attempt of a later `OpenFile`.

*Backups and upgrades.* The rotation counts failed backups, so enough failures
delete every good one; an interrupted deletion leaves an entry without an
archive; a cancelled context leaves copies off site. A restore does not repair a
blob whose file went bad in the store and reports success; a forced one that
fails after `DROP SCHEMA` leaves the queues undrained. An interrupt cancels the
context the rollback of an upgrade needs, so the services stay stopped
(`upgrade.go:10`); what is written between backup and stop is lost by it.

*Printing.* A failed `FinishPrintJob` leaves "printing" until a restart, after
which the document is printed again: `PrintedOnce` allows one copy for each
record that was lost. A job is done without a printer. A failed job that is
queued again passes the limits by; so do the jobs of a participation while it is
unrestricted, which are part of its usage once it no longer is.

*Ranking.* A deleted or renamed contest's board stays on the servers until they
are told; a delta does not update the key's hash; pages may see what is frozen
during the moment between freeze and push.

*Execution.* `Interactive` gives the wall-clock verdict even when the interactor
failed, where `Communication` blames the manager; `TwoSteps` applies the limits
to each step.

## 6. Proofs

The theorems below hold for every value of the constants that satisfies the
assumptions named in the modules (`JudgingAssumption`, `WebAssumption`,
`DeskAssumption` and so on). Those say that bounds are natural numbers, that
what is counted is finite, and that a model value such as "no row" is not a row;
TLC evaluates each of them on the runs' instances. Every theorem is proved along
the same argument: an inductive invariant, in named parts, holds initially and
is preserved by each action, one step of the proof per action; the property
follows from it. TLC agreed with the invariants on the runs' instances before
they were proved.

| Theorem | Property | Inductive invariant, and why it is needed |
|---|---|---|
| `JudgingProofs!TypeCorrect` | `TypeOK` | itself; the messages in the queues are typed with the rows |
| `SystemErrorsEarned` | `SystemErrorEarned` | `AttemptsInv`: a message of attempt *n* exists only after *n* - 1 failures of that job in that generation |
| `GenerationsFenced` | `GenerationFence` | `FenceInv`: a message never carries a generation the row has not reached, and what it carries of the current one was computed in it |
| `FinishedRowsFinal` | `FinishedIsFinal` | `FinalInv`: a row is scored or in error only when it exists and is compiled; each handler's guards then leave it alone |
| `ScoresJudged` | `ScoredMeansJudged` | `JudgedInv`: the testcases a row counts are those it has evaluations or jobs of |
| `WorkKept` | `NoWorkLost` | `WorkInv`: of each job an unfinished row waits for, a message is under way, or the row is due for the sweeper |
| `LifeImplemented` | `ImplementsLife` | `LifeInv`, which adds to `JudgedInv` what the abstract state remembers; every step maps to a step of `SubmissionLife` or a stutter |
| `TaskScoreProofs!AdjustmentsKept` | `AdjustmentKept` | `ScoreInv`: what a handler has read is no newer than the rows, and the adjustment it holds is the stored one |
| `ChangesAggregated` | `EveryChangeAggregated` | the same: a change that no handler is bound to aggregate is already in the stored score |
| `WebProofs!SessionsEndInTime` | `SessionsSound` | `SessionInv` (`Shape`, `Requested`, `CacheInTime`, `RequestsInTime`, `Current`): what a server or a request holds is a row that was true at a known time |
| `PhasesInOrderAlways` | `PhaseOrder` | the same, with the window of the contest in each of its orders |
| `OwnTimeKept` | `OwnTime`, part of `LimitsKept` | `OwnInv`: starting and extra time of every copy are ones the row had, so what they admit lies in the time the row gives |
| `RankingKept` | `PagesFaithful` | `RankingInv`: every number the pusher gave out is of one board of the contest, to which everything that bears it agrees (`OneBoard`, see below) |
| `OperationsProofs!OneActiveUntilPaused` | `OneActive` | who works holds the key, as long as nobody was paused past its time to live |
| `MessagesKept` | `NoneLost` | itself |
| `DeskAndFloorSound` | `ContestFloorSound` | `DeskInv` (`DeskShape`, `DeskTimes`, `Addressed`, `PagesRead`, `UnshownLater`, `PrivateKept`) relates a half-read page to what was written since; `FloorInv` (`BalloonShape`, `SolvesApart`, `Carried`, `AppealShape`, `AppealsBounded`) the runners' lists and the tabs' counts to the tables |
| `ProblemsProofs!ProblemsKept` | `ProblemsSound`, part of `StaffSound` | `ProblemsInv` (`BankShape`, `IdsUnused`, `Owned`, `Allowed`, `SettingsFit` and the three parts): ids are never given twice, so a dataset a form still holds is of the task it was loaded with, or gone |
| `OperationsProofs!RosterKept` | `RosterSound`, part of `StaffSound` | `RosterInv` (`RosterShape`, `UsersInv`, `PartsInv`): what a handler found before its transaction, against the rows and the history |
| `StaffKept` | `StaffSound` | conjunction of the two, for the composition `MCOperations` |
| `StorageProofs!SegmentsSafe` | `ArchivedSafe` | `WalInv`: a segment about to be reported is off site |
| `ReferencedBlobsKept` | `BlobsKept` | `StoreInv`: a collector's list and a request's progress, against the time of each record. The rows left out are those whose content the collector had taken or listed when they were committed |
| `BackupsKept` | `BackupsSound` | `BackupInv`: names are taken in order, one backup is being written, what the rotation is about to delete is not among the newest |
| `CacheKept` | `CacheSound` | `CacheInv`: index, files, downloads and waiters agree wherever the lock is free |
| `StorageSafe` | all of the storage run | conjunction of the four, for the composition `MCStorage` |
| `ServicesProofs!RecompilationsFresh` | `RecompiledFresh` | `CompileInv`: what is about to be stored or remembered was compiled after the last clearing |
| `UpgradesSound` | `UpgradeSound` | `UpgradeInv`, one part for each stage of the command |
| `JobsMoveOn` | `JobsSound` | `JobsInv`: each job's messages against its attempts and its row |
| `PrintsAccounted` | `PrintsSound` | `PrintInv`: the copies of each job against its row, the outcome about to be recorded and the records lost; the sum of a contestant's pages under the limit, if there is one, but for the jobs that did not ask for it |
| `ServicesSafe` | all safety of the services run but `WorkSound` | conjunction of the four, for `MCServices` |

`RankingKept` deserves a word, since a board travels far: it is in the pusher's
memory, in a request under way or given up, in a server, in the file it writes,
in a frame and in a page, and none of these knows of the others. They have only
a number in common. `RankingInv` says that for each number up to the last one
given out there is one board *b*, made of rows the contest had at one moment,
such that a board, a file or a request of that number is *b*; a delta or a frame
that starts from that number turns the rows of *b* into those of its own number;
and a page that has the number has the rows of *b* but for those it has yet to
reveal. No step looks at a history for that: the number is enough. It is also
why the theorem, like the property, ends where the numbers start over, when
another process becomes the pusher (section 5). The model value `None` must be
no board, no row and no state (`RankingWebAssumption`, `RankingPushAssumption`).

`Sums` has the facts about the sums and maxima of the community modules the
proofs need. They are recursive functions; what they compute is proved by
induction on the size of the set, through the smallest counterexample.

### Hypotheses

Four theorems say less than "for every constant", and each for a reason that is
a fact about the code (section 5), not about the proof:

* `GenerationsFenced` assumes `Unfinished = {}`: no row is imported in the
  middle of its judging. An archive carries the rows and no jobs, and such a row
  may be recompiled while evaluations of before are there.
* `ScoresJudged`, `WorkKept` and `LifeImplemented` assume `MaxEdits = 0`: a
  testcase added later is not in the scores of before, by design.
* `WorkKept` also assumes `Unfinished = {}` and `"score" \notin Levels`: a
  rescore keeps the generation, so that a failed duplicate of before counts.
* `LifeImplemented` assumes `Imported = {}`, because an abstract submission is
  born unjudged.

### What stays with TLC, and why

* Liveness: `EventuallyFinished`, `LeaseSettles`, `StorageSettles`,
  `ServicesSettle` and `Converges`, which need fairness and `ENABLED`.
* `LimitsKept` beyond `OwnTime`: the tokens earned and the submissions counted
  are folds over sequences, whose theorems take an operator as a parameter,
  which the provers cannot instantiate. For the same reason `ScoresSound` (what
  the score types and the standings compute) and `WorkSound` (what comparators
  and task types do) are checked over bounded inputs.
* The properties of `MCOffice`: its modules use set maps over tuples, which the
  proof system does not elaborate.
* `MCOperations`, `MCServices` and `MCOffice` type invariants: conjunctions over
  parts of which some are in the lists above. Those of the parts that are proved
  are among the theorems.

## 7. What is not modelled

`PROJECT.json` gives the status of every component with a note. In short:

* **Formats and presentation**: statements, PDF, certificates, highlighting,
  translation, feeds, exports to other formats, logos and pictures, metrics,
  events. They are functions of what they are given, and no property above
  depends on their wording. Package formats are modelled as the entries they
  yield.
* **Process set-up**: flags, configuration, warm-up, draining, the worker
  toolchains, heartbeats as messages. A worker is alive or not; the monitor's
  decision is an action guarded by that.
* **Redis and PostgreSQL themselves**: a transaction is one step where the code
  takes row locks or reads before it writes, and a step per statement where it
  does not; a stream is a bag with pending entries, because the order of
  delivery is not relied upon. Base backups of the database server are external.
* **Cryptography**: a token, a hash or a signature is right or not; collisions
  do not happen.
* **Parts of modelled servers**: logout, automatic login and impersonation of
  contestants, and the rate limiter's fallback inside a process; the renumbering
  of examples; the cloning of contests with several tasks; the closing of a task
  by hand; sites. Extra time only grows in the model, as the forms of the staff
  are used during a contest.
* **The sandbox**: what a program does in a box is an arbitrary outcome.

Times are units on a clock; expiry, grace periods and the time of a request are
parameters. Numbers that the code never lets grow large are unbounded naturals.

## 8. What remains to be done

* Theorems for the properties of the office, whose parts are independent of each
  other; `MCOffice` would first have to be split, or its set maps over tuples
  rewritten.
* A refinement of a page by the board it follows, with the delay of its frames.
* A refinement for the task score: an abstract score that follows every change,
  implemented when no stale aggregate is stored.
* Contests of several tasks in the cloning and in the import of archives.
