----------------------------- MODULE TaskScore -----------------------------
(***************************************************************************)
(* The stored score of one participation on one task                       *)
(* (participation_task_scores), which the dispatcher recomputes from the   *)
(* results of the participation's submissions on the live dataset whenever *)
(* one of them is taken or scored, and after the events that change what   *)
(* counts: a token, an invalidated submission, a manual adjustment, a new  *)
(* live dataset.                                                           *)
(*                                                                         *)
(* A transaction of the dispatcher locks the result it changes, not the    *)
(* task score: it reads the results as they are committed (READ COMMITTED) *)
(* with its own change, and later stores the aggregate and commits.  Reads *)
(* and commits of several goroutines interleave: the event loop, the       *)
(* sweeper, and the shards that handle the results of disjoint submissions.*)
(*                                                                         *)
(* base, given and raced are history: the last aggregate stored, the sum   *)
(* of the adjustments, and whether something stale was ever stored.        *)
(***************************************************************************)
EXTENDS Integers, FiniteSets, FiniteSetsExt

CONSTANTS
    Submissions,   \* numbered in the order they are made
    Official,      \* those made during the contest
    Datasets,      \* of the task; all of them judge every submission
    FirstLive,     \* the live one at the start
    NoDataset,     \* no dataset: nothing is cached
    Subtasks,
    Outcomes,      \* the outcomes of a submission: functions from Subtasks to points
    ScoreMode,     \* "max", "max_subtask", "max_tokened_last" or "last"
    Shards,        \* the goroutines that handle results
    \* Bounds of the model
    Adjustments,   \* the points an administrator may give, at most once
    MaxChanges,    \* tokens, invalidations, reevaluations, new live datasets
    MaxRestarts,   \* restarts of the dispatcher
    MaxFailures,   \* events whose handler meets a database error
    MaxLosses      \* events that are lost before they are queued

ASSUME TaskScoreAssumption ==
    /\ Submissions \in SUBSET (Nat \ {0}) /\ IsFiniteSet(Submissions)
    /\ Official \in SUBSET Submissions
    /\ FirstLive \in Datasets /\ NoDataset \notin Datasets
    /\ IsFiniteSet(Subtasks) /\ Outcomes \in SUBSET [Subtasks -> Nat]
    /\ ScoreMode \in {"max", "max_subtask", "max_tokened_last", "last"}
    /\ Adjustments \in SUBSET Int
    /\ MaxChanges \in Nat /\ MaxRestarts \in Nat /\ MaxFailures \in Nat /\ MaxLosses \in Nat

VARIABLES
    stored,      \* the submissions in the database
    result,      \* their result on each dataset
    invalid,     \* the invalidated submissions
    tokened,     \* those a token was played on
    active,      \* the live dataset of the task
    task,        \* the participation_task_scores row
    cache,       \* the live dataset each cached datasetInfo remembers
    loading,     \* loads of a datasetInfo on their way to the cache
    events,      \* the events the dispatcher has not read
    tx,          \* what each goroutine is about to store
    base, given, raced,
    changes, restarts, failures, losses

dbVars == <<stored, result, invalid, tokened, active, task>>
historyVars == <<base, given, raced>>
vars == <<dbVars, cache, loading, events, tx, historyVars, changes, restarts, failures, losses>>

Goroutines == {"events", "sweep"} \cup Shards

\* A result: how far it is, and what advance goes by.
Result == [state : {"absent", "new", "judging", "scored", "error"},
           comp : {"none", "ok", "fail"}, eval : BOOLEAN, points : [Subtasks -> Nat]]

NoPoints == [i \in Subtasks |-> 0]
NoResult == [state |-> "absent", comp |-> "none", eval |-> FALSE, points |-> NoPoints]

Event == [kind : {"submission", "reaggregate", "dataset_changed"}, sub : Submissions \cup {0}]

Aggregate == [score : Nat, pending : Nat]

Idle == [busy |-> FALSE]

\* An open handler: the result it changes (if any), the aggregate it read
\* and the event it handles (if any).
Open == [busy : {TRUE}, sub : Submissions \cup {0}, ds : Datasets, row : Result,
         agg : Aggregate, events : SUBSET Event]

(***************************************************************************)
(* The aggregate.                                                          *)
(***************************************************************************)
Points(points) == MapThenSumSet(LAMBDA i : points[i], Subtasks)

Best(values) == Max(values \cup {0})

\* Mutant: pending is counted over all the submissions, invalidated ones too.
aggregateAllScored(rows) ==
    [pending |-> Cardinality((stored \cap Official) \ invalid)
                   - Cardinality({s \in stored : rows[s].state = "scored"}),
     score |-> Best({Points(rows[s].points) : s \in stored})]

\* scoring.Aggregate of the submissions that count, given those a token was
\* played on and the results on one dataset.
Aggregated(counted, played, rows) ==
    LET scored == {s \in counted : rows[s].state = "scored"}
        compiled == {s \in scored : rows[s].comp # "fail"}
        lastOrTokened == {s \in scored : s \in played \/ \A u \in counted : u <= s}
        score(subs) == Best({Points(rows[s].points) : s \in subs})
    IN  [pending |-> Cardinality(counted \ scored),
         score |->
           CASE ScoreMode = "max_subtask" ->
                  Points([i \in Subtasks |-> Best({rows[s].points[i] : s \in scored})])
             [] ScoreMode = "max_tokened_last" -> score(lastOrTokened)
             [] ScoreMode = "last" -> score({s \in compiled : \A u \in compiled : u <= s})
             [] OTHER -> score(scored)]

\* It is given the rows of ListTaskSubmissionsForScore.
aggregate(rows) == Aggregated((stored \cap Official) \ invalid, tokened, rows)

Init ==
    /\ stored = {}
    /\ result = [d \in Datasets |-> [s \in Submissions |-> NoResult]]
    /\ invalid = {} /\ tokened = {}
    /\ active = FirstLive
    /\ task = [score |-> 0, pending |-> 0, adjustment |-> 0]
    /\ cache = [d \in Datasets |-> NoDataset]
    /\ loading = {}
    /\ events = {}
    /\ tx = [p \in Goroutines |-> Idle]
    /\ base = 0 /\ given = 0 /\ raced = FALSE
    /\ changes = 0 /\ restarts = 0 /\ failures = 0 /\ losses = 0

(***************************************************************************)
(* The cache of datasets.  A load reads the task first and enters the      *)
(* cache later; entries expire.                                            *)
(***************************************************************************)
\* Mutant: the live dataset is never looked up again.
liveAtStart(d) == d = FirstLive

live(d) == cache[d] = d

Load(d) ==
    /\ cache[d] = NoDataset
    /\ loading' = loading \cup {<<d, active>>}
    /\ UNCHANGED <<dbVars, cache, events, tx, historyVars, changes, restarts, failures, losses>>

Loaded ==
    /\ \E l \in loading :
         /\ cache' = [cache EXCEPT ![l[1]] = l[2]]
         /\ loading' = loading \ {l}
         /\ raced' = (raced \/ l[2] # active)
    /\ UNCHANGED <<dbVars, events, tx, base, given, changes, restarts, failures, losses>>

Expire(d) ==
    /\ cache[d] # NoDataset
    /\ cache' = [cache EXCEPT ![d] = NoDataset]
    /\ UNCHANGED <<dbVars, loading, events, tx, historyVars, changes, restarts, failures, losses>>

(***************************************************************************)
(* Handlers.                                                               *)
(***************************************************************************)
\* LockSubmissionResult waits while another transaction holds the row.
Unlocked(s, d) == \A p \in Goroutines : tx[p].busy => <<tx[p].sub, tx[p].ds>> # <<s, d>>

\* A transaction changes a result and reads the aggregate.
read(p, s, d, r, evs) ==
    tx' = [tx EXCEPT ![p] = [busy |-> TRUE, sub |-> s, ds |-> d, row |-> r,
                             agg |-> aggregate([result[d] EXCEPT ![s] = r]), events |-> evs]]

\* Mutant: the adjustment is not added.
upsertPlain(agg) == task' = [task EXCEPT !.score = agg.score, !.pending = agg.pending]

\* UpsertParticipationTaskScore adds the adjustment of the stored row.
upsert(agg) ==
    task' = [task EXCEPT !.score = agg.score + task.adjustment, !.pending = agg.pending]

\* Only the result changes.
write(s, d, r) ==
    /\ result' = [result EXCEPT ![d][s] = r]
    /\ UNCHANGED tx

\* aggregateIfLive: with the aggregate or without it, as the cache says.
writeIfLive(p, s, d, r, evs) ==
    IF live(d) THEN read(p, s, d, r, evs) /\ UNCHANGED result
               ELSE write(s, d, r)

\* scoreResult: the points the score type computes, or a system error.
scored(r, o) == [r EXCEPT !.state = "scored", !.eval = TRUE, !.points = o]

\* advance of an unfinished result.  The cases that do not aggregate: the
\* compilation cache has the executables, jobs to evaluate, a system error.
advance(p, s, d, evs) ==
    LET r == result[d][s]
        taken == [r EXCEPT !.state = "judging"]
    IN  /\ Unlocked(s, d) /\ cache[d] # NoDataset
        /\ r.state \in {"absent", "new", "judging"}
        /\ \/ r.comp = "none" /\ writeIfLive(p, s, d, taken, evs)
           \/ r.comp = "none" /\ write(s, d, [taken EXCEPT !.comp = "ok"])
           \/ r.comp = "fail" /\ writeIfLive(p, s, d, [r EXCEPT !.state = "scored"], evs)
           \/ r.comp = "ok" /\ ~r.eval /\ write(s, d, taken)
           \/ r.comp = "ok" /\ r.eval /\ \E o \in Outcomes : writeIfLive(p, s, d, scored(r, o), evs)
           \/ write(s, d, [r EXCEPT !.state = "error"])

\* The event of a submission: advance on every dataset that lacks a result.
newSubmission(s) ==
    LET e == [kind |-> "submission", sub |-> s]
    IN  /\ e \in events /\ ~tx["events"].busy
        /\ \/ /\ \E d \in Datasets :
                   result[d][s].state = "absent" /\ advance("events", s, d, {})
              /\ UNCHANGED events
           \/ /\ \A d \in Datasets : result[d][s].state # "absent"
              /\ events' = events \ {e}
              /\ UNCHANGED <<result, tx>>
        /\ UNCHANGED <<stored, invalid, tokened, active, task, cache, loading,
                       historyVars, changes, restarts, failures, losses>>

Sweep(s, d) ==
    /\ s \in stored /\ ~tx["sweep"].busy
    /\ advance("sweep", s, d, {})
    /\ UNCHANGED <<stored, invalid, tokened, active, task, cache, loading, events,
                   historyVars, changes, restarts, failures, losses>>

\* handleSubmissionResult: the last evaluation, a compilation that failed
\* or not, or the last attempt of a job that fails.
handleSubmissionResult(p, s, d) ==
    LET r == result[d][s]
    IN  /\ ~tx[p].busy /\ Unlocked(s, d) /\ cache[d] # NoDataset
        /\ r.state = "judging"
        /\ \/ r.comp = "ok" /\ ~r.eval /\ \E o \in Outcomes : writeIfLive(p, s, d, scored(r, o), {})
           \/ r.comp = "none" /\ writeIfLive(p, s, d, [r EXCEPT !.state = "scored", !.comp = "fail"], {})
           \/ r.comp = "none" /\ write(s, d, [r EXCEPT !.comp = "ok"])
           \/ write(s, d, [r EXCEPT !.state = "error"])
        /\ UNCHANGED <<stored, invalid, tokened, active, task, cache, loading, events,
                       historyVars, changes, restarts, failures, losses>>

\* reaggregate and reaggregateTask read outside of a transaction, on the
\* live dataset; a changed dataset drops the cache first.
reaggregate(e) ==
    /\ e \in events /\ ~tx["events"].busy
    /\ e.kind \in {"reaggregate", "dataset_changed"}
    /\ cache' = IF e.kind = "dataset_changed" THEN [d \in Datasets |-> NoDataset] ELSE cache
    /\ events' = events \ {e}
    /\ tx' = [tx EXCEPT !["events"] =
                [busy |-> TRUE, sub |-> 0, ds |-> active, row |-> NoResult,
                 agg |-> aggregate(result[active]), events |-> {e}]]
    /\ UNCHANGED <<dbVars, loading, historyVars, changes, restarts, failures, losses>>

\* A handler that fails is logged, and its event acknowledged.
handleEventError(e) ==
    /\ e \in events /\ ~tx["events"].busy /\ failures < MaxFailures
    /\ failures' = failures + 1
    /\ cache' = IF e.kind = "dataset_changed" THEN [d \in Datasets |-> NoDataset] ELSE cache
    /\ events' = events \ {e}
    /\ UNCHANGED <<dbVars, loading, tx, historyVars, changes, restarts, losses>>

\* The aggregate is stored, and the transaction commits.
Commit(p) ==
    LET t == tx[p]
        rows(d) == IF t.sub # 0 /\ d = t.ds THEN [result[d] EXCEPT ![t.sub] = t.row] ELSE result[d]
    IN  /\ t.busy
        /\ result' = [d \in Datasets |-> rows(d)]
        /\ upsert(t.agg)
        /\ base' = t.agg.score
        /\ raced' = (raced \/ t.ds # active \/ t.agg # aggregate(rows(t.ds)))
        /\ tx' = [tx EXCEPT ![p] = Idle]
        /\ UNCHANGED <<stored, invalid, tokened, active, cache, loading, events, given,
                       changes, restarts, failures, losses>>

\* The dispatcher dies: open transactions roll back, the events it was
\* handling and the results are delivered again.
Restart ==
    /\ restarts < MaxRestarts
    /\ restarts' = restarts + 1
    /\ events' = events \cup UNION {tx[p].events : p \in {q \in Goroutines : tx[q].busy}}
    /\ tx' = [p \in Goroutines |-> Idle]
    /\ cache' = [d \in Datasets |-> NoDataset]
    /\ loading' = {}
    /\ UNCHANGED <<dbVars, historyVars, changes, failures, losses>>

(***************************************************************************)
(* The web servers.                                                        *)
(***************************************************************************)
\* Notify may fail, which is logged.
Notify(e) ==
    \/ events' = events \cup {e} /\ UNCHANGED losses
    \/ losses < MaxLosses /\ losses' = losses + 1 /\ UNCHANGED events

storeSubmission(s) ==
    /\ s \notin stored /\ \A u \in Submissions : u < s => u \in stored
    /\ stored' = stored \cup {s}
    /\ Notify([kind |-> "submission", sub |-> s])
    /\ UNCHANGED <<result, invalid, tokened, active, task, cache, loading, tx,
                   historyVars, changes, restarts, failures>>

Changed == changes < MaxChanges /\ changes' = changes + 1

\* Mutant: the dispatcher is not told.
submissionUncounted(s) == UNCHANGED <<events, losses>>

submissionCounted(s) == Notify([kind |-> "reaggregate", sub |-> s])

handleToken(s) ==
    /\ s \in (stored \cap Official) \ (invalid \cup tokened)
    /\ Changed
    /\ tokened' = tokened \cup {s}
    /\ submissionCounted(s)
    /\ UNCHANGED <<stored, result, invalid, active, task, cache, loading, tx,
                   historyVars, restarts, failures>>

handleSubmissionInvalidate(s) ==
    /\ s \in stored /\ Changed
    /\ invalid' = invalid \cup {s}
    /\ submissionCounted(s)
    /\ UNCHANGED <<stored, result, tokened, active, task, cache, loading, tx,
                   historyVars, restarts, failures>>

handleSubmissionRestore(s) ==
    /\ s \in invalid
    /\ invalid' = invalid \ {s}
    /\ submissionCounted(s)
    /\ UNCHANGED <<stored, result, tokened, active, task, cache, loading, tx,
                   historyVars, changes, restarts, failures>>

\* The points reach the stored score at once, if nobody is storing it.
handleScoreAdjust(points) ==
    /\ given = 0
    /\ task' = [task EXCEPT !.score = @ + points, !.adjustment = @ + points]
    /\ given' = points
    /\ Notify([kind |-> "reaggregate", sub |-> 0])
    /\ UNCHANGED <<stored, result, invalid, tokened, active, cache, loading, tx,
                   base, raced, changes, restarts, failures>>

\* A reevaluation.  A new score of an unfinished result changes nothing.
Invalidate(s, d, level) ==
    /\ result[d][s].state # "absent" /\ Unlocked(s, d) /\ Changed
    /\ result' = [result EXCEPT ![d][s] =
         [state |-> IF level = "score" /\ @.state = "judging" THEN @.state ELSE "new",
          comp |-> IF level = "compilation" THEN "none" ELSE @.comp,
          eval |-> level = "score" /\ @.eval,
          points |-> NoPoints]]
    /\ UNCHANGED <<stored, invalid, tokened, active, task, cache, loading, events, tx,
                   historyVars, restarts, failures, losses>>

ChangeLiveDataset(d) ==
    /\ d # active /\ Changed
    /\ active' = d
    /\ Notify([kind |-> "dataset_changed", sub |-> 0])
    /\ UNCHANGED <<stored, result, invalid, tokened, task, cache, loading, tx,
                   historyVars, restarts, failures>>

Next ==
    \/ \E d \in Datasets : Load(d) \/ Expire(d) \/ ChangeLiveDataset(d)
    \/ Loaded
    \/ \E s \in Submissions : \/ newSubmission(s)
                              \/ storeSubmission(s)
                              \/ handleToken(s)
                              \/ handleSubmissionInvalidate(s)
                              \/ handleSubmissionRestore(s)
    \/ \E s \in Submissions, d \in Datasets :
         \/ Sweep(s, d)
         \/ \E p \in Shards : handleSubmissionResult(p, s, d)
         \/ \E level \in {"compilation", "evaluation", "score"} : Invalidate(s, d, level)
    \/ \E e \in events : reaggregate(e) \/ handleEventError(e)
    \/ \E p \in Goroutines : Commit(p)
    \/ \E points \in Adjustments : handleScoreAdjust(points)
    \/ Restart

Spec == Init /\ [][Next]_vars

(***************************************************************************)
(* Properties.                                                             *)
(***************************************************************************)
\* Every variable has its type.
TypeOK ==
    /\ stored \in SUBSET Submissions
    /\ result \in [Datasets -> [Submissions -> Result]]
    /\ invalid \in SUBSET stored /\ tokened \in SUBSET stored
    /\ active \in Datasets
    /\ task \in [score : Int, pending : Nat, adjustment : Int]
    /\ cache \in [Datasets -> Datasets \cup {NoDataset}]
    /\ loading \in SUBSET (Datasets \X Datasets)
    /\ events \in SUBSET Event
    /\ tx \in [Goroutines -> {Idle} \cup Open]
    /\ base \in Nat /\ given \in Int /\ raced \in BOOLEAN
    /\ changes \in Nat /\ restarts \in Nat /\ failures \in Nat /\ losses \in Nat

\* "A rejudge, an invalidation or a new dataset never loses it": the stored
\* score is an aggregate plus the adjustments, even when an adjustment is
\* made between the read and the commit of a handler.
AdjustmentKept == task.score = base + given /\ task.adjustment = given

\* Nothing is left to do: no event, no open handler, and every result on
\* the live dataset is scored.
Settled ==
    /\ events = {}
    /\ \A p \in Goroutines : ~tx[p].busy
    /\ \A s \in stored : result[active][s].state = "scored"

\* The task score is exactly the aggregate of the results on the live
\* dataset, with nothing pending.
Exact == task = [score |-> aggregate(result[active]).score + given, pending |-> 0,
                 adjustment |-> given]

\* Every change of what counts is followed by an aggregation: unless a
\* handler stored an aggregate that was stale by then, a stale dataset
\* entered the cache, or an event was lost or its handler failed, the
\* settled task score is exact.
EveryChangeAggregated == Settled /\ ~raced /\ failures = 0 /\ losses = 0 => Exact

\* The settled task score is the aggregate of the results, whatever the
\* interleaving of the goroutines.
TaskScoreExact == Settled /\ failures = 0 /\ losses = 0 => Exact

=============================================================================
