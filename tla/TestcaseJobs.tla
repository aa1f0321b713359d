---------------------------- MODULE TestcaseJobs ----------------------------
(***************************************************************************)
(* User tests and testcase jobs (internal/dispatcher/usertests.go and      *)
(* testcasejobs.go, internal/adminweb/testcasegen.go).                     *)
(*                                                                         *)
(* A run is a user test: one of a contestant, or a step of a testcase job, *)
(* which first has a generator write the input (step "input") and then a   *)
(* reference solution the output (step "output").  The job moves on in the *)
(* transaction that stores the result of its run.                          *)
(*                                                                         *)
(* Jobs and results are at-least-once messages, as in module Judging.  The *)
(* count solved is history: the solution runs a job was given.             *)
(***************************************************************************)
EXTENDS Integers, FiniteSets, Bags

CONSTANTS
    Tests,           \* the user tests of contestants
    Jobs,            \* the testcase jobs of administrators
    Fragile,         \* the tests and jobs in a language that may be removed
    MaxAttempts,     \* attempts per run before a system error
    \* Bounds of the model
    MaxStarted,      \* user tests and testcase jobs that are started
    MaxOutstanding,  \* messages of one run beyond which it is not swept again
    MaxDrops,        \* lost notifications and enqueues
    MaxWorkerFaults  \* dead or slow workers, unacknowledged results

ASSUME TestcaseJobsAssumption ==
    /\ Tests \cap Jobs = {}
    /\ Fragile \in SUBSET (Tests \cup Jobs)
    /\ MaxAttempts \in Nat \ {0}
    /\ \A bound \in {MaxStarted, MaxOutstanding, MaxDrops, MaxWorkerFaults} : bound \in Nat

Steps == {"input", "output"}
Runs == (Tests \X {"test"}) \cup (Jobs \X Steps)

VARIABLES
    run,         \* the user_test_results row of each run
    asked,       \* the runs whose start is still to be handled
    job,         \* the testcase_jobs rows
    configured,  \* does the dispatcher know the language of Fragile?
    messages,    \* the bag of jobs in the queue or on a worker
    results,     \* the bag of unacknowledged results
    solved,      \* the solution runs created for each job
    drops, workerFaults

jobVars == <<run, asked, job, configured, messages, results, solved,
             drops, workerFaults>>

\* "created": the user test has no result row yet; "recent" and "stale":
\* unfinished, by the age of jobs_enqueued_at; "done" and "error" are
\* completed.
RunState == {"absent", "created", "recent", "stale", "done", "error"}

JobState == {"none", "input", "output", "failed", "stored", "cleared"}

Job == [state : JobState, out : {"solution", "empty"}]

Message == [run : Runs, attempt : Nat, owned : BOOLEAN]

\* How an execution ends: the job itself fails (or the monitor gives it
\* up); the program runs well and writes something; or it does not (no
\* compilation, a bad exit status or no output: runEnd.failure).
Outcome == {"error", "ok", "bad"}

Result == [run : Runs, attempt : Nat, out : Outcome]

Completed(r) == run[r] \in {"done", "error"}
Unfinished(r) == run[r] \in {"recent", "stale"}

HasLanguage(r) == configured \/ r[1] \notin Fragile

JobsInit ==
    /\ run = [r \in Runs |-> "absent"]
    /\ asked = {}
    /\ job = [j \in Jobs |-> [state |-> "none", out |-> "empty"]]
    /\ configured = TRUE
    /\ messages = EmptyBag
    /\ results = EmptyBag
    /\ solved = [j \in Jobs |-> 0]
    /\ drops = 0 /\ workerFaults = 0

(***************************************************************************)
(* The web servers store a run and notify the dispatcher (the notice may   *)
(* be lost).                                                               *)
(***************************************************************************)
Create(r) == run' = [run EXCEPT ![r] = "created"]

\* Mutant: the notice carries the id of the owner for that of the run.
NotifyOwner(r) ==
    \/ asked' = asked \cup {r[1]} /\ UNCHANGED drops
    \/ drops < MaxDrops /\ drops' = drops + 1 /\ UNCHANGED asked

Notify(r) ==
    \/ asked' = asked \cup {r} /\ UNCHANGED drops
    \/ drops < MaxDrops /\ drops' = drops + 1 /\ UNCHANGED asked

Started == {r \in Runs : run[r] # "absent"}

SubmitUserTest(t) ==
    LET r == <<t, "test">>
    IN  /\ run[r] = "absent" /\ Cardinality(Started) < MaxStarted
        /\ Create(r) /\ Notify(r)
        /\ UNCHANGED <<job, configured, messages, results, solved, workerFaults>>

\* A typed input goes to the solution at once; parameters go to the
\* generator, and its input to the solution or to an empty output.
startTestcaseJobs(j) ==
    /\ job[j].state = "none" /\ Cardinality(Started) < MaxStarted
    /\ \E step \in Steps, out \in {"solution", "empty"} :
         /\ step = "output" => out = "solution"
         /\ job' = [job EXCEPT ![j] = [state |-> step, out |-> out]]
         /\ solved' = [solved EXCEPT ![j] = IF step = "output" THEN 1 ELSE 0]
         /\ Create(<<j, step>>) /\ Notify(<<j, step>>)
    /\ UNCHANGED <<configured, messages, results, workerFaults>>

handleTestcaseJobsClear(j) ==
    /\ job[j].state = "failed"
    /\ job' = [job EXCEPT ![j].state = "cleared"]
    /\ UNCHANGED <<run, asked, configured, messages, results, solved, drops, workerFaults>>

\* A dispatcher takes over whose configuration lacks a language.
RemoveLanguage ==
    /\ configured /\ Fragile # {}
    /\ configured' = FALSE
    /\ UNCHANGED <<run, asked, job, messages, results, solved, drops, workerFaults>>

(***************************************************************************)
(* The dispatcher starts a run: from an event, from apply, or in a sweep.  *)
(***************************************************************************)
Enqueue(r, attempt) ==
    \/ /\ messages' = messages (+)
            SetToBag({[run |-> r, attempt |-> attempt, owned |-> TRUE]})
       /\ UNCHANGED drops
    \/ drops < MaxDrops /\ drops' = drops + 1 /\ UNCHANGED messages

\* Without its language the run ends with a system error.  Nothing tells the
\* testcase job that waits for it, which stays as it is.
advanceUserTest(r) ==
    /\ \/ Completed(r) /\ UNCHANGED <<run, messages, drops>>
       \/ /\ ~Completed(r) /\ ~HasLanguage(r)
          /\ run' = [run EXCEPT ![r] = "error"]
          /\ UNCHANGED <<messages, drops>>
       \/ /\ ~Completed(r) /\ HasLanguage(r)
          /\ run' = [run EXCEPT ![r] = "recent"]
          /\ Enqueue(r, 0)
    /\ UNCHANGED <<job, configured, results, solved, workerFaults>>

newUserTest(r) ==
    /\ r \in asked
    /\ asked' = asked \ {r}
    /\ advanceUserTest(r)

\* Mutant: runs without a result row are left to their notice.
sweepStaleOnly(r) ==
    /\ run[r] = "stale"
    /\ advanceUserTest(r)
    /\ UNCHANGED asked

sweepUserTests(r) ==
    /\ run[r] \in {"created", "stale"}
    /\ advanceUserTest(r)
    /\ UNCHANGED asked

(***************************************************************************)
(* The dispatcher applies a result, and moves the testcase job that waits  *)
(* for the run.                                                            *)
(***************************************************************************)
Failed(m) == m.out = "error"

Retried(m) == Failed(m) /\ m.attempt + 1 < MaxAttempts

\* Mutant: a late result is applied again.
CurrentAlways(m) == run[m.run] # "absent"

Current(m) == Unfinished(m.run)

\* LockTestcaseJobByUserTest.
Waits(j, r) == job[j].state \in Steps /\ r = <<j, job[j].state>>

SetJob(j, state) == job' = [job EXCEPT ![j].state = state]

Stay == UNCHANGED <<job, solved, asked>>

\* testcaseJobStep: out is how the run ended, run is how its row ends.
testcaseJobStep(r, out, end) ==
    LET waiting == {j \in Jobs : Waits(j, r)}
        ended == [run EXCEPT ![r] = end]
    IN  \/ /\ waiting = {}
           /\ run' = ended /\ UNCHANGED drops /\ Stay
        \/ \E j \in waiting :
             \/ /\ out # "ok"
                /\ run' = ended /\ SetJob(j, "failed")
                /\ UNCHANGED <<solved, asked, drops>>
             \/ /\ out = "ok" /\ job[j].state = "input" /\ job[j].out = "solution"
                /\ run' = ended /\ SetJob(j, "failed")  \* the solution was deleted
                /\ UNCHANGED <<solved, asked, drops>>
             \/ /\ out = "ok" /\ job[j].state = "input" /\ job[j].out = "solution"
                /\ run' = [ended EXCEPT ![<<j, "output">>] = "created"]
                /\ SetJob(j, "output")
                /\ solved' = [solved EXCEPT ![j] = @ + 1]
                /\ Notify(<<j, "output">>)
             \/ /\ out = "ok" /\ (job[j].state = "input" => job[j].out = "empty")
                /\ run' = ended /\ SetJob(j, "stored")
                /\ UNCHANGED <<solved, asked, drops>>

AckResults(m) ==
    \/ results' = results (-) SetToBag({m}) /\ UNCHANGED workerFaults
    \/ workerFaults < MaxWorkerFaults /\ workerFaults' = workerFaults + 1 /\ UNCHANGED results

resultStale(m) ==
    /\ ~Current(m)
    /\ UNCHANGED <<run, messages, drops>> /\ Stay

\* Without the language the transaction fails and the result stays pending.
resultRetry(m) ==
    /\ Current(m) /\ Retried(m) /\ HasLanguage(m.run)
    /\ run' = [run EXCEPT ![m.run] = "recent"]
    /\ Enqueue(m.run, m.attempt + 1) /\ Stay

\* Mutant: a run that is given up leaves its job waiting.
resultGivenUpAlone(m) ==
    /\ Current(m) /\ Failed(m) /\ ~Retried(m)
    /\ run' = [run EXCEPT ![m.run] = "error"]
    /\ UNCHANGED <<messages, drops>> /\ Stay

resultGivenUp(m) ==
    /\ Current(m) /\ Failed(m) /\ ~Retried(m)
    /\ testcaseJobStep(m.run, "error", "error")
    /\ UNCHANGED messages

resultEnded(m) ==
    /\ Current(m) /\ ~Failed(m)
    /\ testcaseJobStep(m.run, m.out, "done")
    /\ UNCHANGED messages

handleUserTestResult(m) ==
    /\ \/ resultStale(m)
       \/ resultRetry(m)
       \/ resultGivenUp(m)
       \/ resultEnded(m)
    /\ AckResults(m)
    /\ UNCHANGED configured

HandleResultOf(r) ==
    \E m \in BagToSet(results) : m.run = r /\ handleUserTestResult(m)

\* StaleAfter passes since the job of a run was enqueued (the bound is on
\* what the next sweep adds, which is nothing without the language).
Elapse(r) ==
    /\ run[r] = "recent"
    /\ HasLanguage(r) => BagCardinality(messages) + BagCardinality(results) < MaxOutstanding
    /\ run' = [run EXCEPT ![r] = "stale"]
    /\ UNCHANGED <<asked, job, configured, messages, results, solved, drops, workerFaults>>

(***************************************************************************)
(* The workers and the monitor.                                            *)
(***************************************************************************)
Publish(m, out) ==
    results' = results (+) SetToBag({[run |-> m.run, attempt |-> m.attempt, out |-> out]})

Complete(m) ==
    /\ \E out \in Outcome : Publish(m, out)
    /\ messages' = messages (-) SetToBag({m})
    /\ UNCHANGED <<run, asked, job, configured, solved, drops, workerFaults>>

CompleteOf(r) == \E m \in BagToSet(messages) : m.run = r /\ Complete(m)

\* The worker of m is dead, or slow and publishes its result too.
Requeue(m) ==
    LET k == [m EXCEPT !.attempt = @ + 1]
        slow == SetToBag({[m EXCEPT !.owned = FALSE]})
    IN  /\ m.owned /\ workerFaults < MaxWorkerFaults
        /\ workerFaults' = workerFaults + 1
        /\ \E left \in {EmptyBag, slow} :
             \/ /\ k.attempt < MaxAttempts
                /\ messages' = (messages (-) SetToBag({m})) (+) SetToBag({k}) (+) left
                /\ UNCHANGED results
             \/ /\ k.attempt >= MaxAttempts
                /\ messages' = (messages (-) SetToBag({m})) (+) left
                /\ Publish(k, "error")
        /\ UNCHANGED <<run, asked, job, configured, solved, drops>>

JobsNext ==
    \/ \E t \in Tests : SubmitUserTest(t)
    \/ \E j \in Jobs : startTestcaseJobs(j)
    \/ \E j \in Jobs : handleTestcaseJobsClear(j)
    \/ RemoveLanguage
    \/ \E r \in Runs : newUserTest(r)
    \/ \E r \in Runs : sweepUserTests(r)
    \/ \E r \in Runs : Elapse(r)
    \/ \E r \in Runs : HandleResultOf(r)
    \/ \E r \in Runs : CompleteOf(r)
    \/ \E m \in BagToSet(messages) : Requeue(m)

JobsSpec == JobsInit /\ [][JobsNext]_jobVars

\* The dispatcher sweeps and handles results, and the workers go on.
JobsFairness ==
    \A r \in Runs :
        /\ WF_jobVars(sweepUserTests(r)) /\ WF_jobVars(Elapse(r))
        /\ WF_jobVars(HandleResultOf(r)) /\ WF_jobVars(CompleteOf(r))

JobsFairSpec == JobsSpec /\ JobsFairness

(***************************************************************************)
(* Properties.                                                             *)
(***************************************************************************)
\* Every variable has its type.
JobsTypeOK ==
    /\ run \in [Runs -> RunState]
    /\ asked \in SUBSET Runs
    /\ job \in [Jobs -> Job]
    /\ configured \in BOOLEAN
    /\ IsABag(messages) /\ BagToSet(messages) \subseteq Message
    /\ IsABag(results) /\ BagToSet(results) \subseteq Result
    /\ solved \in [Jobs -> Nat]
    /\ drops \in Nat /\ workerFaults \in Nat

\* A crash, a duplicated result or a lost start never repeats a step: a job
\* gets one solution run at most, its solution runs only after the
\* generator has ended, and a stored testcase comes from runs that ended.
StepsOnce ==
    \A j \in Jobs :
        /\ solved[j] <= 1
        /\ run[<<j, "output">>] # "absent" => run[<<j, "input">>] \in {"absent", "done"}
        /\ job[j].state = "stored" =>
             /\ \E s \in Steps : run[<<j, s>>] = "done"
             /\ \A s \in Steps : run[<<j, s>>] \in {"absent", "done"}

\* "When a run ends, the job moves on in the same transaction" (the head of
\* testcasejobs.go): no job is left waiting for a run that ended, but for one
\* whose language was removed while it ran.
JobMovesOn ==
    \A j \in Jobs : job[j].state \in Steps /\ Completed(<<j, job[j].state>>) =>
        j \in Fragile /\ ~configured /\ run[<<j, job[j].state>>] = "error"

\* Every run ends, also one whose language is removed while it runs.
RunsEnd == \A r \in Runs : run[r] # "absent" ~> Completed(r)

\* Whatever is delivered twice, lost or given up, a testcase job takes each of
\* its steps once, and is never left behind by the run it waits for.
JobsSound == StepsOnce /\ JobMovesOn

=============================================================================
