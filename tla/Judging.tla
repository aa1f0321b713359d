------------------------------ MODULE Judging ------------------------------
(***************************************************************************)
(* The judging pipeline of the contest management system: the dispatcher   *)
(* (internal/dispatcher), the job and result queues (internal/queue), the  *)
(* workers (internal/worker) and the monitor (internal/monitor), seen from *)
(* the result rows of one dataset.                                         *)
(*                                                                         *)
(* A row is the submission_results record of a submission on the dataset.  *)
(* Every change of a row is one PostgreSQL transaction that locks it (FOR  *)
(* UPDATE); the jobs the transaction asks for are enqueued after the       *)
(* commit, so a dispatcher that dies in between loses any part of them.    *)
(* Jobs and results are at-least-once messages, kept in bags because the   *)
(* same job may be queued twice.                                           *)
(*                                                                         *)
(* Two things are history, not program state: the generation stamped on    *)
(* each stored evaluation, and fails, the failed or taken back executions  *)
(* of the current generation (saturating at MaxAttempts).                  *)
(***************************************************************************)
EXTENDS Integers, FiniteSets, Bags

CONSTANTS
    Submissions,      \* the submissions judged on the dataset
    Imported,         \* those an archive import brought in
    Unfinished,       \* the imported ones the archive caught being evaluated
    Misconfigured,    \* those whose language some dispatcher replica lacks
    Testcases,        \* every testcase id the dataset may hold
    FirstTestcases,   \* the testcases the dataset starts with
    Slots,            \* the sandbox slots of all the workers
    MaxAttempts,      \* attempts per job before a system error
    TestcasesPerJob,  \* testcases grouped in one evaluation job
    ShortCircuit,     \* does the dataset skip settled testcases?
    ScoreTypeValid,   \* do the score type parameters parse?
    Levels,           \* the levels of reevaluation administrators ask for
    \* Bounds of the model
    MaxInvalidations, \* reevaluations an administrator asks for
    MaxRequeues,      \* attempt up to which an administrator requeues a job
    MaxOutstanding,   \* messages of one row beyond which it is not swept again
    MaxDrops,         \* lost enqueues, notifications and reports
    MaxCrashes,       \* stuck or crashed workers, unacknowledged results and events
    MaxEdits          \* testcases added to or deleted from the dataset

ASSUME JudgingAssumption ==
    /\ Imported \in SUBSET Submissions
    /\ Unfinished \in SUBSET Imported
    /\ Misconfigured \in SUBSET Submissions
    /\ Testcases \in SUBSET Nat /\ IsFiniteSet(Testcases)
    /\ FirstTestcases \in SUBSET Testcases
    /\ MaxAttempts \in Nat \ {0}
    /\ TestcasesPerJob \in Nat \ {0}
    /\ ShortCircuit \in BOOLEAN
    /\ ScoreTypeValid \in BOOLEAN
    /\ Levels \in SUBSET {"compilation", "evaluation", "score"}
    /\ \A bound \in {MaxInvalidations, MaxRequeues, MaxOutstanding,
                     MaxDrops, MaxCrashes, MaxEdits} : bound \in Nat

VARIABLES
    submitted,   \* the submissions stored by the contest web server
    notices,     \* those with a "submission" event in the dispatch stream
    row,         \* the submission_results rows
    evals,       \* the evaluations of each row: testcase -> generation
    waiting,     \* the bag of jobs no worker has read yet
    slot,        \* what each slot runs, and whether it still owns the entry
    lost,        \* the bag of pending jobs that nobody runs any more
    results,     \* the bag of unacknowledged results
    testcases,   \* the testcases of the dataset in the database
    cached,      \* those of the dispatcher's datasetInfo
    fails,       \* failed executions of each row's current generation
    invalidations, drops, crashes, edits \* how much of each bound is used

dbVars == <<submitted, row, evals, testcases>>
queueVars == <<notices, waiting, slot, lost, results>>
countVars == <<invalidations, drops, crashes, edits>>
vars == <<dbVars, queueVars, cached, fails, countVars>>

(***************************************************************************)
(* Types.                                                                  *)
(***************************************************************************)
NoEval == -1
NoEvals == [t \in Testcases |-> NoEval]

Kinds == {"compile", "evaluate"}

Row == [exists : BOOLEAN, gen : Nat, comp : {"none", "ok", "fail"},
        eval : BOOLEAN, exes : BOOLEAN, total : Nat, scored : BOOLEAN,
        err : {"none", "load", "score"} \cup Kinds,
        enq : {"never", "recent", "stale"}]

Job == [kind : Kinds, sub : Submissions, gen : Nat, attempt : Nat,
        tcs : SUBSET Testcases]

Result == [kind : Kinds, sub : Submissions, gen : Nat, attempt : Nat,
           tcs : SUBSET Testcases, out : {"ok", "fail", "error", "lost"}]

Idle == [busy |-> FALSE]
Running == [busy : {TRUE}, job : Job, owned : BOOLEAN]

NewRow == [exists |-> FALSE, gen |-> 0, comp |-> "none", eval |-> FALSE,
           exes |-> FALSE, total |-> 0, scored |-> FALSE, err |-> "none",
           enq |-> "never"]

\* An archive carries the result rows and the evaluations as they are, but
\* not the executables ("compiled again when needed").
ImportedRow(s) ==
    [NewRow EXCEPT !.exists = TRUE, !.comp = "ok", !.total = Cardinality(FirstTestcases),
                   !.eval = s \notin Unfinished, !.scored = s \notin Unfinished,
                   !.enq = "recent"]

\* The evaluations of an imported row: all of them, or some if unfinished.
ImportedEvals(s) ==
    {[t \in Testcases |-> IF t \in done THEN 0 ELSE NoEval] :
        done \in IF s \in Unfinished THEN SUBSET FirstTestcases \ {FirstTestcases}
                                     ELSE {FirstTestcases}}

Init ==
    /\ submitted = Imported
    /\ notices = {}
    /\ row = [s \in Submissions |-> IF s \in Imported THEN ImportedRow(s) ELSE NewRow]
    /\ evals \in [Submissions -> UNION {ImportedEvals(s) : s \in Imported} \cup {NoEvals}]
    /\ \A s \in Submissions :
         evals[s] \in IF s \in Imported THEN ImportedEvals(s) ELSE {NoEvals}
    /\ waiting = EmptyBag
    /\ slot = [w \in Slots |-> Idle]
    /\ lost = EmptyBag
    /\ results = EmptyBag
    /\ testcases = FirstTestcases
    /\ cached = FirstTestcases
    /\ fails = [s \in Submissions |-> 0]
    /\ invalidations = 0 /\ drops = 0 /\ crashes = 0 /\ edits = 0

(***************************************************************************)
(* Jobs, and the effects of a transaction.                                 *)
(***************************************************************************)
Finished(s) == row[s].scored \/ row[s].err # "none"

Evaluated(ev) == {t \in Testcases : ev[t] # NoEval}

compileJob(s, attempt) ==
    [kind |-> "compile", sub |-> s, gen |-> row[s].gen, attempt |-> attempt, tcs |-> {}]

\* ids in groups of TestcasesPerJob, in order.
Groups(ids) ==
    LET rank(t) == Cardinality({u \in ids : u < t})
    IN  {{u \in ids : rank(u) \div TestcasesPerJob = rank(t) \div TestcasesPerJob} : t \in ids}

\* jobTestcases drops the ids the cached dataset does not know.
evaluateJobs(s, attempt, ids) ==
    {[kind |-> "evaluate", sub |-> s, gen |-> row[s].gen, attempt |-> attempt, tcs |-> g]
        : g \in Groups(ids \cap cached)}

\* apply, after the commit: every job is enqueued, or only some of them
\* (a crash or a Redis error; EnqueueMany is a plain pipeline).
apply(jobs) ==
    \/ /\ waiting' = waiting (+) SetToBag(jobs)
       /\ UNCHANGED drops
    \/ /\ drops < MaxDrops
       /\ \E sent \in SUBSET jobs \ {jobs} : waiting' = waiting (+) SetToBag(sent)
       /\ drops' = drops + 1

NoJobs == UNCHANGED <<waiting, drops>>

SetRow(s, r) == row' = [row EXCEPT ![s] = r]

systemError(r, what) == [r EXCEPT !.err = what]

\* scoreResult, and SetEvaluationDone that always precedes it but in a rescore.
scoreResult(r) ==
    IF ScoreTypeValid THEN [r EXCEPT !.eval = TRUE, !.scored = TRUE]
                      ELSE systemError([r EXCEPT !.eval = TRUE], "score")

\* Mutant: the number of testcases is one short.
compiledOneShort(r, ok) ==
    [r EXCEPT !.comp = IF ok THEN "ok" ELSE "fail", !.total = Cardinality(cached) - 1,
              !.scored = ~ok, !.exes = ok, !.enq = "recent"]

\* applyCompilation of a compilation with the given success.
compiled(r, ok) ==
    LET c == [r EXCEPT !.comp = IF ok THEN "ok" ELSE "fail",
                       !.total = Cardinality(cached)]
    IN  CASE ~ok          -> [c EXCEPT !.scored = TRUE]
          [] ok /\ cached = {} -> scoreResult([c EXCEPT !.exes = TRUE])
          [] OTHER        -> [c EXCEPT !.exes = TRUE, !.enq = "recent"]

applyCompilation(s, r, ok) ==
    /\ SetRow(s, compiled(r, ok))
    /\ IF ok THEN apply(evaluateJobs(s, 0, cached)) ELSE NoJobs
    /\ UNCHANGED <<evals, fails>>

\* InvalidateSubmissionResult.
invalidated(r, level) ==
    [r EXCEPT !.gen = IF level = "score" THEN @ ELSE @ + 1,
              !.comp = IF level = "compilation" THEN "none" ELSE @,
              !.eval = IF level = "score" THEN @ ELSE FALSE,
              !.scored = FALSE, !.err = "none", !.enq = "never"]

Fail(s, gen) ==
    fails' = IF row[s].gen = gen /\ fails[s] < MaxAttempts
             THEN [fails EXCEPT ![s] = @ + 1] ELSE fails

(***************************************************************************)
(* The contest web server stores a submission, then notifies.              *)
(***************************************************************************)
\* Mutant: notifies though the transaction did not commit.
SubmitUnstored(s) ==
    /\ s \notin submitted
    /\ notices' = notices \cup {s}
    /\ UNCHANGED <<dbVars, waiting, slot, lost, results, cached, fails, countVars>>

Submit(s) ==
    /\ s \notin submitted
    /\ submitted' = submitted \cup {s}
    /\ \/ notices' = notices \cup {s} /\ UNCHANGED drops
       \/ drops < MaxDrops /\ drops' = drops + 1 /\ UNCHANGED notices
    /\ UNCHANGED <<row, evals, testcases, waiting, slot, lost, results,
                   cached, fails, invalidations, crashes, edits>>

(***************************************************************************)
(* The dispatcher.  advance creates the row if needed and enqueues the     *)
(* stage that is missing; one action per case of its switch.               *)
(***************************************************************************)
advanceFinished(s, r) ==
    Finished(s) /\ SetRow(s, r) /\ NoJobs /\ UNCHANGED <<evals, fails>>

advanceLoadError(s, r) ==
    /\ ~Finished(s) /\ s \in Misconfigured
    /\ SetRow(s, systemError(r, "load"))
    /\ NoJobs /\ UNCHANGED <<evals, fails>>

advanceCompile(s, r) ==
    /\ ~Finished(s) /\ r.comp = "none"
    /\ SetRow(s, [r EXCEPT !.enq = "recent"])
    /\ apply({compileJob(s, 0)})
    /\ UNCHANGED <<evals, fails>>

\* The compilation cache holds the executables of the same inputs; what it
\* holds does not depend on this row.
advanceCacheHit(s, r) ==
    /\ ~Finished(s) /\ r.comp = "none"
    /\ applyCompilation(s, [r EXCEPT !.enq = "recent"], TRUE)

advanceCompilationFailed(s, r) ==
    /\ ~Finished(s) /\ r.comp = "fail"
    /\ SetRow(s, [r EXCEPT !.scored = TRUE])
    /\ NoJobs /\ UNCHANGED <<evals, fails>>

\* The submissions are programs: one of outputs alone needs no executables.
advanceEvaluate(s, r) ==
    LET missing == cached \ Evaluated(evals[s])
    IN  /\ ~Finished(s) /\ r.comp = "ok" /\ ~r.eval /\ missing # {}
        /\ \/ /\ r.exes
              /\ SetRow(s, [r EXCEPT !.enq = "recent"])
              /\ apply(evaluateJobs(s, 0, missing))
              /\ UNCHANGED fails
           \/ /\ ~r.exes   \* executables vanished: recompile, at the next sweep
              /\ SetRow(s, invalidated(r, "compilation"))
              /\ fails' = [fails EXCEPT ![s] = 0]
              /\ NoJobs
        /\ UNCHANGED evals

\* Mutant: scores without looking for missing testcases.
advanceScoreEarly(s, r) ==
    /\ ~Finished(s) /\ r.comp = "ok"
    /\ SetRow(s, scoreResult(r))
    /\ NoJobs /\ UNCHANGED <<evals, fails>>

advanceScore(s, r) ==
    /\ ~Finished(s) /\ r.comp = "ok"
    /\ r.eval \/ cached \subseteq Evaluated(evals[s])
    /\ SetRow(s, scoreResult(r))
    /\ NoJobs /\ UNCHANGED <<evals, fails>>

advance(s) ==
    LET r == [row[s] EXCEPT !.exists = TRUE]
    IN  /\ \/ advanceFinished(s, r)
           \/ advanceLoadError(s, r)
           \/ advanceCompile(s, r)
           \/ advanceCacheHit(s, r)
           \/ advanceCompilationFailed(s, r)
           \/ advanceEvaluate(s, r)
           \/ advanceScore(s, r)
        /\ UNCHANGED <<submitted, testcases, slot, lost, results, cached,
                       invalidations, edits>>

\* The event loop acknowledges the event whatever advance returned; a crash
\* before AckEvents leaves it pending, and it is handled again.
newSubmission(s) ==
    /\ s \in notices
    /\ advance(s)
    /\ \/ notices' = notices \ {s} /\ UNCHANGED crashes
       \/ crashes < MaxCrashes /\ crashes' = crashes + 1 /\ UNCHANGED notices

\* Mutant: rows enqueued long ago are not picked up.
SweepNewOnly(s) ==
    /\ s \in submitted /\ ~Finished(s)
    /\ ~row[s].exists \/ row[s].enq = "never"
    /\ advance(s)
    /\ UNCHANGED <<notices, crashes>>

\* Sweep: rows that are missing, never enqueued, or enqueued too long ago.
Sweep(s) ==
    /\ s \in submitted /\ ~Finished(s)
    /\ ~row[s].exists \/ row[s].enq \in {"never", "stale"}
    /\ advance(s)
    /\ UNCHANGED <<notices, crashes>>

\* StaleAfter passes since the jobs of a row were enqueued.
Elapse(s) ==
    /\ row[s].exists /\ ~Finished(s) /\ row[s].enq = "recent"
    /\ BagCardinality(waiting) + BagCardinality(lost) + BagCardinality(results)
         + Cardinality({w \in Slots : slot[w].busy}) < MaxOutstanding
    /\ SetRow(s, [row[s] EXCEPT !.enq = "stale"])
    /\ UNCHANGED <<submitted, evals, testcases, queueVars, cached, fails, countVars>>

(***************************************************************************)
(* The dispatcher applies a result: one action per case of                 *)
(* handleSubmissionResult.  A crash before AckResults leaves the result    *)
(* pending, and it is delivered again.                                     *)
(***************************************************************************)
AckResults(m) ==
    \/ results' = results (-) SetToBag({m}) /\ UNCHANGED crashes
    \/ crashes < MaxCrashes /\ crashes' = crashes + 1 /\ UNCHANGED results

\* Mutant: no check that the row is unfinished.
CurrentEvenFinished(m) == row[m.sub].exists /\ row[m.sub].gen = m.gen

Current(m) ==
    row[m.sub].exists /\ row[m.sub].gen = m.gen /\ ~Finished(m.sub)

Failed(m) == m.out \in {"error", "lost"}

resultStale(m) ==
    /\ \/ ~Current(m)
       \/ /\ ~Failed(m) /\ m.kind = "compile"
          /\ row[m.sub].comp # "none"
       \/ /\ ~Failed(m) /\ m.kind = "evaluate"
          /\ row[m.sub].comp # "ok" \/ row[m.sub].eval
    /\ NoJobs /\ UNCHANGED <<row, evals, fails>>

resultLoadError(m) ==
    /\ Current(m) /\ m.sub \in Misconfigured
    /\ SetRow(m.sub, systemError(row[m.sub], "load"))
    /\ NoJobs /\ UNCHANGED <<evals, fails>>

retryOrFail(m) ==
    /\ Current(m) /\ Failed(m)
    /\ \/ /\ m.attempt + 1 >= MaxAttempts
          /\ SetRow(m.sub, systemError(row[m.sub], m.kind))
          /\ NoJobs
       \/ /\ m.attempt + 1 < MaxAttempts
          /\ SetRow(m.sub, [row[m.sub] EXCEPT !.enq = "recent"])
          /\ apply(IF m.kind = "compile" THEN {compileJob(m.sub, m.attempt + 1)}
                   ELSE evaluateJobs(m.sub, m.attempt + 1, m.tcs))
    /\ UNCHANGED <<evals, fails>>

\* Mutant: a compilation is applied whatever the row already holds.
resultCompilationAgain(m) ==
    /\ Current(m) /\ ~Failed(m) /\ m.kind = "compile"
    /\ applyCompilation(m.sub, row[m.sub], m.out = "ok")

resultCompilation(m) ==
    /\ Current(m) /\ ~Failed(m) /\ m.kind = "compile"
    /\ row[m.sub].comp = "none"
    /\ applyCompilation(m.sub, row[m.sub], m.out = "ok")

\* applyEvaluations.  The foreign key refuses an evaluation of a testcase
\* the cache still knows and the database does not: the transaction fails
\* and the result stays pending until the dataset is loaded again.  The
\* short-circuit also marks some testcases that can no longer change the
\* score.
applyEvaluations(m) ==
    LET s == m.sub
        arrived == m.tcs \cap cached
    IN  /\ Current(m) /\ ~Failed(m) /\ m.kind = "evaluate"
        /\ row[s].comp = "ok" /\ ~row[s].eval
        /\ \E skipped \in IF ShortCircuit
                          THEN SUBSET (cached \ (arrived \cup Evaluated(evals[s])))
                          ELSE {{}} :
             LET stored == arrived \cup skipped
                 ev == [t \in Testcases |-> IF t \in stored THEN m.gen ELSE evals[s][t]]
             IN  /\ stored \subseteq testcases
                 /\ evals' = [evals EXCEPT ![s] = ev]
                 /\ SetRow(s, IF Cardinality(Evaluated(ev)) < row[s].total
                              THEN row[s] ELSE scoreResult(row[s]))
        /\ NoJobs /\ UNCHANGED fails

handleSubmissionResult(m) ==
    /\ \/ resultStale(m)
       \/ resultLoadError(m)
       \/ retryOrFail(m)
       \/ resultCompilation(m)
       \/ applyEvaluations(m)
    /\ AckResults(m)
    /\ UNCHANGED <<submitted, testcases, notices, slot, lost, cached,
                   invalidations, edits>>

HandleResultOf(s) == \E m \in BagToSet(results) : m.sub = s /\ handleSubmissionResult(m)

(***************************************************************************)
(* The workers.                                                            *)
(***************************************************************************)
Deliver(w) ==
    /\ ~slot[w].busy
    /\ \E j \in BagToSet(waiting) :
         /\ waiting' = waiting (-) SetToBag({j})
         /\ slot' = [slot EXCEPT ![w] = [busy |-> TRUE, job |-> j, owned |-> TRUE]]
    /\ UNCHANGED <<dbVars, notices, lost, results, cached, fails, countVars>>

\* Mutant: a result counts the attempt it is about.
ForJobNextAttempt(j, out) == [kind |-> j.kind, sub |-> j.sub, gen |-> j.gen,
                              attempt |-> j.attempt + 1, tcs |-> j.tcs, out |-> out]

ForJob(j, out) == [kind |-> j.kind, sub |-> j.sub, gen |-> j.gen,
                   attempt |-> j.attempt, tcs |-> j.tcs, out |-> out]

\* Execute and Complete: the result is published and the job acknowledged
\* in one MULTI/EXEC (a no-op acknowledgement if the job was taken back).
Complete(w) ==
    /\ slot[w].busy
    /\ \E out \in {"ok", "error"} \cup (IF slot[w].job.kind = "compile" THEN {"fail"} ELSE {}) :
         /\ results' = results (+) SetToBag({ForJob(slot[w].job, out)})
         /\ IF out = "error" THEN Fail(slot[w].job.sub, slot[w].job.gen) ELSE UNCHANGED fails
    /\ slot' = [slot EXCEPT ![w] = Idle]
    /\ UNCHANGED <<dbVars, notices, waiting, lost, cached, countVars>>

\* Mutant: jobs are acknowledged when they are read.
CrashAcknowledged(w) ==
    /\ slot[w].busy /\ crashes < MaxCrashes
    /\ crashes' = crashes + 1
    /\ slot' = [slot EXCEPT ![w] = Idle]
    /\ UNCHANGED <<dbVars, notices, waiting, lost, results, cached, fails,
                   invalidations, drops, edits>>

\* A worker dies, or Complete fails: the job stays pending.
Crash(w) ==
    /\ slot[w].busy /\ crashes < MaxCrashes
    /\ crashes' = crashes + 1
    /\ lost' = IF slot[w].owned THEN lost (+) SetToBag({slot[w].job}) ELSE lost
    /\ slot' = [slot EXCEPT ![w] = Idle]
    /\ UNCHANGED <<dbVars, notices, waiting, results, cached, fails,
                   invalidations, drops, edits>>

(***************************************************************************)
(* The monitor takes back the pending jobs of dead workers and those that  *)
(* exceed JobTimeout on a live one (which goes on and publishes its result *)
(* too), and an administrator those he chooses.                            *)
(***************************************************************************)
TakeLost(j) ==
    /\ j \in BagToSet(lost)
    /\ lost' = lost (-) SetToBag({j})
    /\ UNCHANGED slot

TakeRunning(w, j) ==
    /\ slot[w].busy /\ slot[w].owned /\ slot[w].job = j
    /\ slot' = [slot EXCEPT ![w].owned = FALSE]
    /\ UNCHANGED lost

Requeue(j) ==
    LET k == [j EXCEPT !.attempt = @ + 1]
    IN  /\ \/ /\ k.attempt < MaxAttempts
              /\ waiting' = waiting (+) SetToBag({k})
              /\ UNCHANGED <<results, drops>>
           \/ /\ k.attempt >= MaxAttempts
              /\ results' = results (+) SetToBag({ForJob(k, "lost")})
              /\ UNCHANGED <<waiting, drops>>
           \/ /\ k.attempt >= MaxAttempts /\ drops < MaxDrops  \* dies before PublishResult
              /\ drops' = drops + 1
              /\ UNCHANGED <<waiting, results>>
        /\ Fail(j.sub, j.gen)
        /\ UNCHANGED <<dbVars, notices, cached, invalidations, edits>>

CheckLost ==
    /\ \E j \in BagToSet(lost) : TakeLost(j) /\ Requeue(j)
    /\ UNCHANGED crashes

CheckTimeout(w) ==
    /\ slot[w].busy /\ crashes < MaxCrashes
    /\ TakeRunning(w, slot[w].job) /\ Requeue(slot[w].job)
    /\ crashes' = crashes + 1

\* RequeueByID has no attempt limit (the bound is the model's).
RequeueByID(j) ==
    /\ j.attempt < MaxRequeues
    /\ waiting' = waiting (+) SetToBag({[j EXCEPT !.attempt = @ + 1]})
    /\ Fail(j.sub, j.gen)
    /\ UNCHANGED <<dbVars, notices, results, cached, countVars>>

AdminRequeue ==
    \/ \E j \in BagToSet(lost) : TakeLost(j) /\ RequeueByID(j)
    \/ \E w \in Slots : slot[w].busy /\ TakeRunning(w, slot[w].job) /\ RequeueByID(slot[w].job)

(***************************************************************************)
(* Administrators reevaluate a submission or edit the dataset, and the     *)
(* dispatcher loads the dataset again (a dataset_changed event or the      *)
(* cache's time to live).                                                  *)
(***************************************************************************)
\* Mutant: the evaluations are left behind.
InvalidateRowOnly(s, level) ==
    /\ row[s].exists /\ invalidations < MaxInvalidations
    /\ invalidations' = invalidations + 1
    /\ SetRow(s, [invalidated(row[s], level) EXCEPT
                    !.exes = IF level = "compilation" THEN FALSE ELSE @])
    /\ fails' = IF level = "score" THEN fails ELSE [fails EXCEPT ![s] = 0]
    /\ UNCHANGED <<submitted, evals, testcases, queueVars, cached, drops, crashes, edits>>

Invalidate(s, level) ==
    /\ row[s].exists /\ invalidations < MaxInvalidations
    /\ invalidations' = invalidations + 1
    /\ SetRow(s, [invalidated(row[s], level) EXCEPT
                    !.exes = IF level = "compilation" THEN FALSE ELSE @])
    /\ evals' = IF level = "score" THEN evals
                ELSE [evals EXCEPT ![s] = NoEvals]
    /\ fails' = IF level = "score" THEN fails ELSE [fails EXCEPT ![s] = 0]
    /\ UNCHANGED <<submitted, testcases, queueVars, cached, drops, crashes, edits>>

AddTestcase(t) ==
    /\ t \notin testcases /\ edits < MaxEdits
    /\ edits' = edits + 1
    /\ testcases' = testcases \cup {t}
    /\ UNCHANGED <<submitted, row, evals, queueVars, cached, fails,
                   invalidations, drops, crashes>>

\* The evaluations of the testcase go with it (ON DELETE CASCADE).
DeleteTestcase(t) ==
    /\ t \in testcases /\ edits < MaxEdits
    /\ edits' = edits + 1
    /\ testcases' = testcases \ {t}
    /\ evals' = [s \in Submissions |-> [evals[s] EXCEPT ![t] = NoEval]]
    /\ UNCHANGED <<submitted, row, queueVars, cached, fails,
                   invalidations, drops, crashes>>

ReloadDataset ==
    /\ cached # testcases
    /\ cached' = testcases
    /\ UNCHANGED <<dbVars, queueVars, fails, countVars>>

Next ==
    \/ \E s \in Submissions : Submit(s)
    \/ \E s \in Submissions : newSubmission(s)
    \/ \E s \in Submissions : Sweep(s)
    \/ \E s \in Submissions : Elapse(s)
    \/ \E s \in Submissions : HandleResultOf(s)
    \/ \E w \in Slots : Deliver(w)
    \/ \E w \in Slots : Complete(w)
    \/ \E w \in Slots : Crash(w)
    \/ CheckLost
    \/ \E w \in Slots : CheckTimeout(w)
    \/ AdminRequeue
    \/ \E s \in Submissions, level \in Levels : Invalidate(s, level)
    \/ \E t \in Testcases : AddTestcase(t)
    \/ \E t \in Testcases : DeleteTestcase(t)
    \/ ReloadDataset

Spec == Init /\ [][Next]_vars

(***************************************************************************)
(* The services that keep running: a slot takes jobs and finishes them,    *)
(* the monitor takes back lost jobs, the dispatcher handles results and    *)
(* sweeps, and time passes.                                                *)
(***************************************************************************)
Fairness ==
    /\ \A w \in Slots : WF_vars(Deliver(w)) /\ WF_vars(Complete(w))
    /\ WF_vars(CheckLost)
    /\ WF_vars(ReloadDataset)
    /\ \A s \in Submissions :
         WF_vars(HandleResultOf(s)) /\ WF_vars(Sweep(s)) /\ WF_vars(Elapse(s))

FairSpec == Spec /\ Fairness

(***************************************************************************)
(* Properties.                                                             *)
(***************************************************************************)
\* Every variable has its type: the rows the dispatcher writes, and the
\* jobs and results the queues carry.
TypeOK ==
    /\ submitted \in SUBSET Submissions
    /\ notices \in SUBSET submitted
    /\ row \in [Submissions -> Row]
    /\ evals \in [Submissions -> [Testcases -> Nat \cup {NoEval}]]
    /\ IsABag(waiting) /\ BagToSet(waiting) \subseteq Job
    /\ slot \in [Slots -> {Idle} \cup Running]
    /\ IsABag(lost) /\ BagToSet(lost) \subseteq Job
    /\ IsABag(results) /\ BagToSet(results) \subseteq Result
    /\ testcases \in SUBSET Testcases /\ cached \in SUBSET Testcases
    /\ fails \in [Submissions -> 0 .. MaxAttempts]
    /\ invalidations \in Nat /\ drops \in Nat /\ crashes \in Nat /\ edits \in Nat

\* The generation check of handleSubmissionResult is a fence: whatever is
\* still running or queued when a row is invalidated, every evaluation
\* stored in a row was made for the row's current generation.
GenerationFence ==
    \A s \in Submissions, t \in Testcases : evals[s][t] \in {NoEval, row[s].gen}

\* While the dataset is not edited, a row is scored only after a failed
\* compilation or when every testcase of the dataset has an evaluation,
\* whatever was duplicated, lost, retried or reordered on the way.
ScoredMeansJudged ==
    \A s \in Submissions :
        row[s].scored => \/ row[s].comp = "fail"
                         \/ /\ row[s].comp = "ok" /\ row[s].eval
                            /\ testcases \subseteq Evaluated(evals[s])

\* A row ends with a job failure only if MaxAttempts executions of its
\* current generation really failed or were taken back: one failure whose
\* job or result was delivered again does not count as two, and failures of
\* earlier generations count for nothing.
SystemErrorEarned ==
    \A s \in Submissions : row[s].err \in Kinds => fails[s] >= MaxAttempts

Jobs == BagToSet(waiting) \cup BagToSet(lost)
          \cup {slot[w].job : w \in {v \in Slots : slot[v].busy}}

Outstanding == Jobs \cup BagToSet(results)

\* The work an unfinished row waits for: its compilation, or an evaluation
\* of each testcase it has none for.
Covered(s) ==
    LET pending == {m \in Outstanding : m.sub = s /\ m.gen = row[s].gen}
    IN  CASE row[s].comp = "none" -> \E m \in pending : m.kind = "compile"
          [] row[s].comp = "ok" /\ ~row[s].eval ->
               \A t \in testcases \ Evaluated(evals[s]) :
                 \E m \in pending : m.kind = "evaluate" /\ t \in m.tcs
          [] OTHER -> FALSE

\* Complete, Requeue and the redelivery of results lose no work: until an
\* enqueue or a report is lost, every unfinished row that the sweeper will
\* not pick up has jobs or results in the queues for everything it lacks.
\* A crash of a worker or of the dispatcher between a commit and its
\* acknowledgement is not enough to strand a row.
NoWorkLost ==
    drops = 0 =>
        \A s \in Submissions :
            row[s].exists /\ ~Finished(s) /\ row[s].enq = "recent" => Covered(s)

\* A finished row is final: late, duplicated and stale results never change
\* it or its evaluations (those of a deleted testcase go with it); only a
\* reevaluation reopens it.
FinishedIsFinal ==
    [][\A s \in Submissions : Finished(s) =>
          \/ row'[s] = row[s] /\ (evals'[s] = evals[s] \/ edits' > edits)
          \/ ~Finished(s)' /\ row'[s].enq = "never" /\ invalidations' > invalidations]_vars

\* Every submission is eventually scored or reported as a system error,
\* even if its notification or its jobs are lost.
EventuallyFinished ==
    \A s \in Submissions : s \in submitted ~> Finished(s)

=============================================================================
