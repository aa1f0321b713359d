-------------------------- MODULE TaskScoreProofs --------------------------
(***************************************************************************)
(* The stored score of a participation on a task, for any number of        *)
(* submissions, datasets, subtasks and goroutines: no adjustment is lost,  *)
(* and every change of what counts is followed by an aggregation.          *)
(***************************************************************************)
EXTENDS TaskScore, Sums

(***************************************************************************)
(* Types.                                                                  *)
(***************************************************************************)
\* The greatest of some naturals, or zero.
LEMMA BestNat ==
    ASSUME NEW V \in SUBSET Nat, IsFiniteSet(V)
    PROVE  Best(V) \in Nat
<1>1. V \cup {0} \in SUBSET Nat /\ V \cup {0} # {}
  OBVIOUS
<1>2. IsFiniteSet(V \cup {0})
  BY FS_AddElement
<1>3. Max(V \cup {0}) \in V \cup {0}
  BY <1>1, <1>2, MaxNat
<1> QED
  BY <1>1, <1>3 DEF Best

\* The points of all the subtasks.
LEMMA PointsNat ==
    ASSUME NEW points \in [Subtasks -> Nat]
    PROVE  Points(points) \in Nat
<1>1. Points(points) = SumOver(points, Subtasks)
  BY Zenon DEF Points, SumOver
<1>2. IsFiniteSet(Subtasks)
  BY TaskScoreAssumption
<1> QED
  BY <1>1, <1>2, TotalNat

\* The best score of some submissions.
LEMMA BestScoreNat ==
    ASSUME NEW rows \in [Submissions -> Result], NEW subs \in SUBSET Submissions
    PROVE  Best({Points(rows[s].points) : s \in subs}) \in Nat
<1>1. \A s \in Submissions : rows[s].points \in [Subtasks -> Nat]
  BY DEF Result
<1>2. {Points(rows[s].points) : s \in subs} \in SUBSET Nat
  BY <1>1, PointsNat
<1>3. IsFiniteSet(subs)
  BY FS_Subset, TaskScoreAssumption
<1>4. IsFiniteSet({Points(rows[s].points) : s \in subs})
  <2> DEFINE f == [s \in subs |-> Points(rows[s].points)]
  <2>1. {Points(rows[s].points) : s \in subs} = {f[s] : s \in subs}
    OBVIOUS
  <2>2. IsFiniteSet({f[s] : s \in subs})
    BY <1>3, ImageFinite, Zenon
  <2> QED
    BY <2>1, <2>2, Zenon
<1> QED
  BY <1>2, <1>4, BestNat

\* An aggregate of results is an aggregate.
LEMMA AggregatedType ==
    ASSUME NEW rows \in [Submissions -> Result], NEW counted \in SUBSET Submissions, NEW played
    PROVE  Aggregated(counted, played, rows) \in Aggregate
<1> DEFINE done == {s \in counted : rows[s].state = "scored"}
           compiled == {s \in done : rows[s].comp # "fail"}
           lastOrTokened == {s \in done : s \in played \/ \A u \in counted : u <= s}
           last == {s \in compiled : \A u \in compiled : u <= s}
           tally(subs) == Best({Points(rows[s].points) : s \in subs})
           bests == [i \in Subtasks |-> Best({rows[s].points[i] : s \in done})]
<1>1. done \in SUBSET Submissions
  OBVIOUS
<1>2. IsFiniteSet(counted \ done) /\ IsFiniteSet(done)
  BY FS_Subset, TaskScoreAssumption
<1>3. Cardinality(counted \ done) \in Nat
  BY <1>2, FS_CardinalityType
<1>4. Points(bests) \in Nat
  <2>1. \A s \in Submissions : rows[s].points \in [Subtasks -> Nat]
    BY DEF Result
  <2>2. ASSUME NEW i \in Subtasks PROVE Best({rows[s].points[i] : s \in done}) \in Nat
    <3>1. {rows[s].points[i] : s \in done} \in SUBSET Nat
      BY <2>1
    <3>2. IsFiniteSet({rows[s].points[i] : s \in done})
      <4>0. PICK f : f = [s \in done |-> rows[s].points[i]]
        OBVIOUS
      <4> HIDE DEF done
      <4>1. {rows[s].points[i] : s \in done} = {f[s] : s \in done}
        BY <4>0
      <4>2. IsFiniteSet({f[s] : s \in done})
        BY <1>2, ImageFinite, Zenon
      <4> QED
        BY <4>1, <4>2, Zenon
    <3> QED
      BY <3>1, <3>2, BestNat
  <2>3. bests \in [Subtasks -> Nat]
    BY <2>2
  <2> QED
    BY <2>3, PointsNat
<1>5. tally(lastOrTokened) \in Nat /\ tally(last) \in Nat /\ tally(done) \in Nat
  BY <1>1, BestScoreNat
<1> DEFINE total == CASE ScoreMode = "max_subtask" -> Points(bests)
                      [] ScoreMode = "max_tokened_last" -> tally(lastOrTokened)
                      [] ScoreMode = "last" -> tally(last)
                      [] OTHER -> tally(done)
<1>6. Aggregated(counted, played, rows)
        = [pending |-> Cardinality(counted \ done), score |-> total]
  BY Zenon DEF Aggregated
<1> HIDE DEF done, compiled, lastOrTokened, last, tally, bests
<1>7. total \in Nat
  BY <1>4, <1>5
<1> QED
  BY <1>3, <1>6, <1>7 DEF Aggregate

\* What a handler reads is an aggregate.
LEMMA aggregateType ==
    ASSUME TypeOK, NEW rows \in [Submissions -> Result]
    PROVE  aggregate(rows) \in Aggregate
<1>1. (stored \cap Official) \ invalid \in SUBSET Submissions
  BY DEF TypeOK
<1> QED
  BY <1>1, AggregatedType DEF aggregate

\* A result that is not there has the type of results.
LEMMA NoResultType == NoResult \in Result
  BY DEF NoResult, NoPoints, Result

\* A handler leaves the results and the open transactions typed.
ResultsTyped ==
    /\ result \in [Datasets -> [Submissions -> Result]]
    /\ tx \in [Goroutines -> {Idle} \cup Open]

\* A result written keeps the types.
LEMMA writeType ==
    ASSUME TypeOK, NEW s \in Submissions, NEW d \in Datasets, NEW r \in Result, write(s, d, r)
    PROVE  ResultsTyped'
  BY DEF TypeOK, write, ResultsTyped

\* A transaction opened keeps them.
LEMMA readType ==
    ASSUME TypeOK, NEW p \in Goroutines, NEW s \in Submissions, NEW d \in Datasets, NEW r \in Result,
           NEW evs \in SUBSET Event, read(p, s, d, r, evs)
    PROVE  tx' \in [Goroutines -> {Idle} \cup Open]
<1> DEFINE rows == [result[d] EXCEPT ![s] = r]
<1>1. rows \in [Submissions -> Result]
  BY DEF TypeOK
<1>2. aggregate(rows) \in Aggregate
  BY <1>1, aggregateType
<1>3. [busy |-> TRUE, sub |-> s, ds |-> d, row |-> r, agg |-> aggregate(rows), events |-> evs] \in Open
  BY <1>2 DEF Open
<1> HIDE DEF rows
<1>4. tx' = [tx EXCEPT ![p] = [busy |-> TRUE, sub |-> s, ds |-> d, row |-> r,
                               agg |-> aggregate(rows), events |-> evs]]
  BY DEF read, rows
<1> QED
  BY <1>3, <1>4 DEF TypeOK

\* So does a result written with its aggregate.
LEMMA writeIfLiveType ==
    ASSUME TypeOK, NEW p \in Goroutines, NEW s \in Submissions, NEW d \in Datasets, NEW r \in Result,
           NEW evs \in SUBSET Event, writeIfLive(p, s, d, r, evs)
    PROVE  ResultsTyped'
<1>1. CASE live(d)
  <2>1. read(p, s, d, r, evs) /\ UNCHANGED result
    BY <1>1 DEF writeIfLive
  <2> QED
    BY <2>1, readType DEF TypeOK, ResultsTyped
<1>2. CASE ~live(d)
  BY <1>2, writeType DEF writeIfLive
<1> QED
  BY <1>1, <1>2

\* The results the handlers write are results.
LEMMA ResultTypes ==
    ASSUME NEW r \in Result
    PROVE  /\ \A st \in {"absent", "new", "judging", "scored", "error"} : [r EXCEPT !.state = st] \in Result
           /\ [r EXCEPT !.comp = "ok"] \in Result
           /\ [[r EXCEPT !.state = "judging"] EXCEPT !.comp = "ok"] \in Result
           /\ [r EXCEPT !.state = "scored", !.comp = "fail"] \in Result
           /\ \A o \in Outcomes : scored(r, o) \in Result
<1>1. Outcomes \subseteq [Subtasks -> Nat]
  BY TaskScoreAssumption
<1>2. \A o \in Outcomes : scored(r, o) \in Result
  BY <1>1 DEF scored, Result
<1>3. \A st \in {"absent", "new", "judging", "scored", "error"} : [r EXCEPT !.state = st] \in Result
  BY DEF Result
<1> QED
  BY <1>2, <1>3 DEF Result

\* So does a submission advanced.
LEMMA advanceType ==
    ASSUME TypeOK, NEW p \in Goroutines, NEW s \in Submissions, NEW d \in Datasets,
           NEW evs \in SUBSET Event, advance(p, s, d, evs)
    PROVE  ResultsTyped'
<1>1. PICK r : r = result[d][s]
  OBVIOUS
<1>2. r \in Result
  BY <1>1 DEF TypeOK
<1>3. \E q \in Result : write(s, d, q) \/ writeIfLive(p, s, d, q, evs)
  BY <1>1, <1>2, ResultTypes DEF advance
<1> QED
  BY <1>3, writeType, writeIfLiveType

\* The types hold at first.
LEMMA InitType == Init => TypeOK
<1> SUFFICES ASSUME Init PROVE TypeOK
  OBVIOUS
<1>1. result \in [Datasets -> [Submissions -> Result]]
  BY NoResultType DEF Init
<1>2. task \in [score : Int, pending : Nat, adjustment : Int]
  BY DEF Init
<1>3. tx \in [Goroutines -> {Idle} \cup Open]
  BY DEF Init
<1>4. cache \in [Datasets -> Datasets \cup {NoDataset}] /\ active \in Datasets
  BY TaskScoreAssumption DEF Init
<1> QED
  BY <1>1, <1>2, <1>3, <1>4 DEF Init, TypeOK

\* The events the web servers send.
LEMMA NotifyType ==
    ASSUME TypeOK, NEW e \in Event, Notify(e)
    PROVE  events' \in SUBSET Event /\ losses' \in Nat /\ losses' >= losses
  BY DEF TypeOK, Notify

\* Storing an aggregate.
LEMMA CommitType ==
    ASSUME TypeOK, NEW p \in Goroutines, Commit(p)
    PROVE  TypeOK'
<1>1. PICK t : t = tx[p]
  OBVIOUS
<1>2. t \in Open
  BY <1>1 DEF Commit, TypeOK, Idle
<1>3. t.agg \in Aggregate /\ t.agg.score \in Nat /\ t.agg.pending \in Nat
  BY <1>2 DEF Open, Aggregate
<1>4. result' \in [Datasets -> [Submissions -> Result]]
  BY <1>1, <1>2 DEF Commit, TypeOK, Open
<1>5. task' = [task EXCEPT !.score = t.agg.score + task.adjustment, !.pending = t.agg.pending]
  BY <1>1 DEF Commit, upsert
<1>6. task' \in [score : Int, pending : Nat, adjustment : Int]
  <2>1. task \in [score : Int, pending : Nat, adjustment : Int]
    BY DEF TypeOK
  <2>2. t.agg.score + task.adjustment \in Int
    BY <1>3, <2>1
  <2> QED
    BY <1>3, <1>5, <2>1, <2>2
<1>7. base' \in Nat /\ tx' \in [Goroutines -> {Idle} \cup Open]
  BY <1>1, <1>3 DEF Commit, TypeOK
<1>8. raced' \in BOOLEAN
  BY Zenon DEF Commit
<1> QED
  BY <1>4, <1>6, <1>7, <1>8 DEF Commit, TypeOK

\* So does an event of the ranking handled.
LEMMA reaggregateType ==
    ASSUME TypeOK, NEW e \in events, reaggregate(e)
    PROVE  TypeOK'
<1>1. aggregate(result[active]) \in Aggregate
  BY aggregateType DEF TypeOK
<1>2. e \in Event
  BY DEF TypeOK
<1>3. [busy |-> TRUE, sub |-> 0, ds |-> active, row |-> NoResult,
       agg |-> aggregate(result[active]), events |-> {e}] \in Open
  BY <1>1, <1>2, NoResultType DEF Open, TypeOK
<1>4. tx' \in [Goroutines -> {Idle} \cup Open]
  BY <1>3 DEF reaggregate, TypeOK
<1>5. cache' \in [Datasets -> Datasets \cup {NoDataset}]
  BY DEF reaggregate, TypeOK
<1> QED
  BY <1>4, <1>5 DEF reaggregate, TypeOK, dbVars, historyVars

\* Every step keeps the types.
LEMMA TypeStep == TypeOK /\ [Next]_vars => TypeOK'
<1> SUFFICES ASSUME TypeOK, [Next]_vars PROVE TypeOK'
  OBVIOUS
<1> USE DEF dbVars, historyVars
<1>1. ASSUME NEW d \in Datasets, Load(d) PROVE TypeOK'
  BY <1>1 DEF Load, TypeOK
<1>2. ASSUME NEW d \in Datasets, Expire(d) PROVE TypeOK'
  BY <1>2 DEF Expire, TypeOK
<1>3. ASSUME NEW d \in Datasets, ChangeLiveDataset(d) PROVE TypeOK'
  <2>1. [kind |-> "dataset_changed", sub |-> 0] \in Event
    BY DEF Event
  <2> QED
    BY <1>3, <2>1, NotifyType DEF ChangeLiveDataset, Changed, TypeOK
<1>4. CASE Loaded
  <2>1. PICK l \in loading : /\ cache' = [cache EXCEPT ![l[1]] = l[2]]
                             /\ loading' = loading \ {l}
                             /\ raced' = (raced \/ l[2] # active)
    BY <1>4 DEF Loaded
  <2>2. l[1] \in Datasets /\ l[2] \in Datasets
    BY <2>1 DEF TypeOK
  <2>3. raced' \in BOOLEAN
    BY <2>1, Zenon
  <2> QED
    BY <1>4, <2>1, <2>2, <2>3 DEF Loaded, TypeOK
<1>5. ASSUME NEW s \in Submissions, newSubmission(s) PROVE TypeOK'
  <2>1. events' \in SUBSET Event
    BY <1>5 DEF newSubmission, TypeOK
  <2>2. ResultsTyped'
    <3>1. ASSUME NEW d \in Datasets, advance("events", s, d, {}) PROVE ResultsTyped'
      BY <3>1, advanceType DEF Goroutines
    <3>2. CASE UNCHANGED <<result, tx>>
      BY <3>2 DEF TypeOK, ResultsTyped
    <3> QED
      BY <1>5, <3>1, <3>2 DEF newSubmission
  <2> QED
    BY <1>5, <2>1, <2>2 DEF newSubmission, TypeOK, ResultsTyped
<1>6. ASSUME NEW s \in Submissions, storeSubmission(s) PROVE TypeOK'
  <2>1. [kind |-> "submission", sub |-> s] \in Event
    BY DEF Event
  <2> QED
    BY <1>6, <2>1, NotifyType DEF storeSubmission, TypeOK
<1>7. ASSUME NEW s \in Submissions PROVE [kind |-> "reaggregate", sub |-> s] \in Event
  BY DEF Event
<1>8. ASSUME NEW s \in Submissions, handleToken(s) PROVE TypeOK'
  BY <1>7, <1>8, NotifyType DEF handleToken, submissionCounted, Changed, TypeOK
<1>9. ASSUME NEW s \in Submissions, handleSubmissionInvalidate(s) PROVE TypeOK'
  BY <1>7, <1>9, NotifyType DEF handleSubmissionInvalidate, submissionCounted, Changed, TypeOK
<1>10. ASSUME NEW s \in Submissions, handleSubmissionRestore(s) PROVE TypeOK'
  BY <1>7, <1>10, NotifyType DEF handleSubmissionRestore, submissionCounted, TypeOK
<1>11. ASSUME NEW s \in Submissions, NEW d \in Datasets, Sweep(s, d) PROVE TypeOK'
  <2>1. ResultsTyped'
    BY <1>11, advanceType DEF Sweep, Goroutines
  <2> QED
    BY <1>11, <2>1 DEF Sweep, TypeOK, ResultsTyped
<1>12. ASSUME NEW s \in Submissions, NEW d \in Datasets, NEW p \in Shards,
              handleSubmissionResult(p, s, d)
       PROVE  TypeOK'
  <2>1. PICK r : r = result[d][s]
    OBVIOUS
  <2>2. r \in Result
    BY <2>1 DEF TypeOK
  <2>3. \E q \in Result : write(s, d, q) \/ writeIfLive(p, s, d, q, {})
    BY <1>12, <2>1, <2>2, ResultTypes DEF handleSubmissionResult
  <2>4. ResultsTyped'
    <3>1. p \in Goroutines
      BY <1>12 DEF Goroutines
    <3>2. PICK q \in Result : write(s, d, q) \/ writeIfLive(p, s, d, q, {})
      BY <2>3
    <3>3. CASE write(s, d, q)
      BY <3>3, writeType
    <3>4. CASE writeIfLive(p, s, d, q, {})
      BY <3>1, <3>4, writeIfLiveType
    <3> QED
      BY <3>2, <3>3, <3>4
  <2> QED
    BY <1>12, <2>4 DEF handleSubmissionResult, TypeOK, ResultsTyped
<1>13. ASSUME NEW s \in Submissions, NEW d \in Datasets,
              NEW level \in {"compilation", "evaluation", "score"}, Invalidate(s, d, level)
       PROVE  TypeOK'
  <2>1. PICK r \in Result : r = result[d][s]
    BY DEF TypeOK
  <2> DEFINE q == [state |-> IF level = "score" /\ r.state = "judging" THEN r.state ELSE "new",
                   comp |-> IF level = "compilation" THEN "none" ELSE r.comp,
                   eval |-> level = "score" /\ r.eval,
                   points |-> NoPoints]
  <2>2. q \in Result
    <3>1. (level = "score" /\ r.eval) \in BOOLEAN
      BY Zenon
    <3>2. NoPoints \in [Subtasks -> Nat]
      BY DEF NoPoints
    <3> QED
      BY <3>1, <3>2 DEF Result
  <2>3. result' = [result EXCEPT ![d][s] = q]
    BY <1>13, <2>1 DEF Invalidate, TypeOK
  <2> HIDE DEF q
  <2>4. result' \in [Datasets -> [Submissions -> Result]]
    BY <2>2, <2>3 DEF TypeOK
  <2> QED
    BY <1>13, <2>4 DEF Invalidate, Changed, TypeOK
<1>14. ASSUME NEW e \in events, reaggregate(e) PROVE TypeOK'
  BY <1>14, reaggregateType
<1>15. ASSUME NEW e \in events, handleEventError(e) PROVE TypeOK'
  BY <1>15 DEF handleEventError, TypeOK
<1>16. ASSUME NEW p \in Goroutines, Commit(p) PROVE TypeOK'
  BY <1>16, CommitType
<1>17. ASSUME NEW points \in Adjustments, handleScoreAdjust(points) PROVE TypeOK'
  <2>1. [kind |-> "reaggregate", sub |-> 0] \in Event
    BY DEF Event
  <2>2. points \in Int
    BY TaskScoreAssumption
  <2>3. events' \in SUBSET Event /\ losses' \in Nat
    BY <1>17, <2>1, NotifyType DEF handleScoreAdjust
  <2>4. task' \in [score : Int, pending : Nat, adjustment : Int]
    <3>1. task \in [score : Int, pending : Nat, adjustment : Int]
      BY DEF TypeOK
    <3>2. task' = [task EXCEPT !.score = task.score + points, !.adjustment = task.adjustment + points]
      BY <1>17, <3>1 DEF handleScoreAdjust
    <3>3. task.score + points \in Int /\ task.adjustment + points \in Int
      BY <2>2, <3>1
    <3> QED
      BY <3>1, <3>2, <3>3
  <2> QED
    BY <1>17, <2>2, <2>3, <2>4 DEF handleScoreAdjust, TypeOK
<1>18. CASE Restart
  <2>1. \A p \in Goroutines : tx[p].busy => tx[p].events \in SUBSET Event
    <3> SUFFICES ASSUME NEW p \in Goroutines, tx[p].busy PROVE tx[p].events \in SUBSET Event
      OBVIOUS
    <3>1. tx[p] \in {Idle} \cup Open
      BY DEF TypeOK
    <3>2. tx[p] # Idle
      BY DEF Idle
    <3> QED
      BY <3>1, <3>2 DEF Open
  <2> QED
    BY <1>18, <2>1 DEF Restart, TypeOK
<1>19. CASE UNCHANGED vars
  BY <1>19 DEF vars, TypeOK
<1> QED
  BY <1>1, <1>2, <1>3, <1>4, <1>5, <1>6, <1>8, <1>9, <1>10, <1>11, <1>12, <1>13, <1>14, <1>15,
     <1>16, <1>17, <1>18, <1>19 DEF Next

(***************************************************************************)
(* The inductive invariant.                                                *)
(***************************************************************************)
\* Only submissions that were made have results, events and transactions.
KnownSubmissions ==
    /\ \A d \in Datasets, s \in Submissions : result[d][s].state # "absent" => s \in stored
    /\ \A e \in events : e.kind = "submission" => e.sub \in stored
    /\ \A p \in Goroutines : tx[p].busy /\ tx[p].sub # 0 => tx[p].sub \in stored

\* Only the event loop handles events in more than one step, and they are not
\* those of submissions.
HandledEvents ==
    \A p \in Goroutines : tx[p].busy =>
        \A e \in tx[p].events : p = "events" /\ e.kind # "submission"

\* Nothing stale was stored or cached, and no event was lost.
Careful == ~raced /\ failures = 0 /\ losses = 0

\* An aggregation of everything is still to come.
AggregationDue ==
    \/ \E e \in events : e.kind # "submission"
    \/ tx["events"].busy /\ tx["events"].events # {}

\* The cache knows the live dataset, until it is told of a new one.
CacheFresh ==
    Careful => \/ \E e \in events : e.kind = "dataset_changed"
               \/ \A d \in Datasets : cache[d] \in {NoDataset, active}

\* The live results are all scored.
AllScored == \A s \in stored : result[active][s].state = "scored"

\* A score that was not computed from the live results as they are is about
\* to be computed again, or a result is missing and will bring it about.
AggregateStored ==
    Careful /\ ~AggregationDue /\ AllScored =>
        /\ task.score = aggregate(result[active]).score + given
        /\ task.pending = aggregate(result[active]).pending

ScoreInv ==
    TypeOK /\ AdjustmentKept /\ KnownSubmissions /\ HandledEvents /\ CacheFresh /\ AggregateStored

(***************************************************************************)
(* The invariant at the start.                                             *)
(***************************************************************************)
\* Without submissions the aggregate is nothing.
LEMMA NothingCounted ==
    ASSUME NEW played, NEW rows
    PROVE  /\ Aggregated({}, played, rows).score = 0
           /\ Aggregated({}, played, rows).pending = 0
<1>1. Best({}) = 0
  <2>1. IsFiniteSet({0})
    BY FS_Singleton
  <2>2. Max({0}) \in {0}
    BY <2>1, MaxNat
  <2> QED
    BY <2>2 DEF Best
<1>2. Points([i \in Subtasks |-> 0]) = 0
  <2>1. PICK f : f = [i \in Subtasks |-> 0]
    OBVIOUS
  <2>2. SumOver(f, Subtasks) = 0
    BY <2>1, TotalZero, TaskScoreAssumption
  <2> QED
    <3>1. Points(f) = SumOver(f, Subtasks)
      BY Zenon DEF Points, SumOver
    <3> QED
      BY <2>1, <2>2, <3>1
<1>3. Cardinality({}) = 0
  BY FS_EmptySet
<1> DEFINE done == {s \in {} : rows[s].state = "scored"}
           compiled == {s \in done : rows[s].comp # "fail"}
           lastOrTokened == {s \in done : s \in played \/ \A u \in {} : u <= s}
           last == {s \in compiled : \A u \in compiled : u <= s}
           tally(subs) == Best({Points(rows[s].points) : s \in subs})
           bests == [i \in Subtasks |-> Best({rows[s].points[i] : s \in done})]
           total == CASE ScoreMode = "max_subtask" -> Points(bests)
                      [] ScoreMode = "max_tokened_last" -> tally(lastOrTokened)
                      [] ScoreMode = "last" -> tally(last)
                      [] OTHER -> tally(done)
<1>4. Aggregated({}, played, rows) = [pending |-> Cardinality({} \ done), score |-> total]
  BY Zenon DEF Aggregated
<1>5. done = {} /\ lastOrTokened = {} /\ last = {} /\ {} \ done = {}
  OBVIOUS
<1>6. tally({}) = 0
  <2>1. {Points(rows[s].points) : s \in {}} = {}
    OBVIOUS
  <2> QED
    BY <1>1, <2>1, Zenon
<1>7. bests = [i \in Subtasks |-> 0]
  <2>1. \A i \in Subtasks : {rows[s].points[i] : s \in done} = {}
    BY <1>5
  <2> HIDE DEF done
  <2>2. \A i \in Subtasks : Best({rows[s].points[i] : s \in done}) = 0
    BY <1>1, <2>1, Zenon
  <2> QED
    BY <2>2
<1> HIDE DEF done, compiled, lastOrTokened, last, tally, bests
<1>8. total = 0
  BY <1>2, <1>5, <1>6, <1>7
<1> QED
  BY <1>3, <1>4, <1>5, <1>8

\* Nothing is stored, read or changed at first.
LEMMA InitScore == Init => ScoreInv
<1> SUFFICES ASSUME Init PROVE ScoreInv
  OBVIOUS
<1>1. AdjustmentKept
  BY DEF Init, AdjustmentKept
<1>2. KnownSubmissions
  BY TaskScoreAssumption DEF Init, KnownSubmissions, NoResult, Idle
<1>3. HandledEvents
  BY DEF Init, HandledEvents, Idle
<1>4. CacheFresh
  BY DEF Init, CacheFresh
<1>5. AggregateStored
  <2>1. (stored \cap Official) \ invalid = {}
    BY DEF Init
  <2>2. aggregate(result[active]) = Aggregated({}, tokened, result[active])
    BY <2>1 DEF aggregate
  <2>3. task.score = 0 /\ task.pending = 0 /\ given = 0
    BY DEF Init
  <2> QED
    BY <2>2, <2>3, NothingCounted DEF AggregateStored
<1> QED
  BY <1>1, <1>2, <1>3, <1>4, <1>5, InitType DEF ScoreInv

(***************************************************************************)
(* The invariant at every step.                                            *)
(***************************************************************************)
\* The points of a result are written with its score.
LEMMA scoredState == \A r \in Result, o \in Outcomes : scored(r, o) \in Result /\ scored(r, o).state = "scored"
<1>1. \A r \in Result, o \in Outcomes : scored(r, o) \in Result
  BY ResultTypes
<1>2. \A r \in Result, o \in Outcomes : scored(r, o).state = "scored"
  BY DEF scored, Result
<1> QED
  BY <1>1, <1>2

\* What a goroutine does with a result: it writes it at once, or opens a
\* transaction that will.
Handled(p, s, d) ==
    \E r \in Result :
       /\ r.state # "absent" /\ cache[d] # NoDataset
       /\ \/ write(s, d, r) /\ (r.state = "scored" => cache[d] # d)
          \/ read(p, s, d, r, {}) /\ UNCHANGED result

\* A result of a live dataset is written with a read of what to aggregate.
LEMMA writeIfLiveHandled ==
    ASSUME NEW p, NEW s, NEW d, NEW r \in Result, r.state # "absent", cache[d] # NoDataset,
           writeIfLive(p, s, d, r, {})
    PROVE  Handled(p, s, d)
  BY DEF writeIfLive, Handled, live

\* A result that is not scored needs no aggregate.
LEMMA writeHandled ==
    ASSUME NEW p, NEW s, NEW d, NEW r \in Result, r.state \notin {"absent", "scored"},
           cache[d] # NoDataset, write(s, d, r)
    PROVE  Handled(p, s, d)
  BY DEF Handled

\* What advancing a submission writes is one or the other.
LEMMA advanceHandled ==
    ASSUME TypeOK, NEW p \in Goroutines, NEW s \in Submissions, NEW d \in Datasets,
           advance(p, s, d, {})
    PROVE  Handled(p, s, d)
<1>1. PICK r \in Result : r = result[d][s]
  BY DEF TypeOK
<1>2. r.state \in {"absent", "new", "judging"} /\ cache[d] # NoDataset
  BY <1>1 DEF advance
<1> DEFINE taken == [r EXCEPT !.state = "judging"]
<1>3. taken \in Result /\ taken.state = "judging"
  BY DEF Result
<1>4. [taken EXCEPT !.comp = "ok"] \in Result /\ [taken EXCEPT !.comp = "ok"].state = "judging"
  BY DEF Result
<1>5. [r EXCEPT !.state = "scored"] \in Result /\ [r EXCEPT !.state = "scored"].state = "scored"
  BY DEF Result
<1>6. [r EXCEPT !.state = "error"] \in Result /\ [r EXCEPT !.state = "error"].state = "error"
  BY DEF Result
<1>7. \A o \in Outcomes : scored(r, o) \in Result /\ scored(r, o).state = "scored"
  BY scoredState
<1>8. \/ writeIfLive(p, s, d, taken, {})
      \/ write(s, d, [taken EXCEPT !.comp = "ok"])
      \/ writeIfLive(p, s, d, [r EXCEPT !.state = "scored"], {})
      \/ write(s, d, taken)
      \/ \E o \in Outcomes : writeIfLive(p, s, d, scored(r, o), {})
      \/ write(s, d, [r EXCEPT !.state = "error"])
  BY <1>1 DEF advance
<1> HIDE DEF taken
<1> QED
  BY <1>2, <1>3, <1>4, <1>5, <1>6, <1>7, <1>8, writeIfLiveHandled, writeHandled

\* So is a result handled.
LEMMA resultHandled ==
    ASSUME TypeOK, NEW p \in Shards, NEW s \in Submissions, NEW d \in Datasets,
           handleSubmissionResult(p, s, d)
    PROVE  Handled(p, s, d)
<1>1. PICK r \in Result : r = result[d][s]
  BY DEF TypeOK
<1>2. cache[d] # NoDataset /\ r.state = "judging"
  BY <1>1 DEF handleSubmissionResult
<1>3. \A o \in Outcomes : scored(r, o) \in Result /\ scored(r, o).state = "scored"
  BY scoredState
<1> DEFINE failed == [r EXCEPT !.state = "scored", !.comp = "fail"]
           ok == [r EXCEPT !.comp = "ok"]
           error == [r EXCEPT !.state = "error"]
<1>4. failed \in Result /\ failed.state = "scored"
  BY DEF Result
<1>5. ok \in Result /\ ok.state = "judging"
  BY <1>2 DEF Result
<1>6. error \in Result /\ error.state = "error"
  BY DEF Result
<1>7. \/ \E o \in Outcomes : writeIfLive(p, s, d, scored(r, o), {})
      \/ writeIfLive(p, s, d, failed, {})
      \/ write(s, d, ok)
      \/ write(s, d, error)
  BY <1>1 DEF handleSubmissionResult
<1> HIDE DEF failed, ok, error
<1> QED
  BY <1>2, <1>3, <1>4, <1>5, <1>6, <1>7, writeIfLiveHandled, writeHandled

\* Nothing that was lost or stale is forgotten.
LEMMA CarefulStep == TypeOK /\ [Next]_vars => (Careful' => Careful)
<1> SUFFICES ASSUME TypeOK, [Next]_vars PROVE Careful' => Careful
  OBVIOUS
<1> USE DEF TypeOK, Careful, dbVars, historyVars, Notify, submissionCounted
<1>1. ASSUME NEW d \in Datasets, Load(d) \/ Expire(d) \/ ChangeLiveDataset(d) PROVE Careful' => Careful
  BY <1>1 DEF Load, Expire, ChangeLiveDataset
<1>2. CASE Loaded
  BY <1>2 DEF Loaded
<1>3. ASSUME NEW s \in Submissions,
             \/ newSubmission(s) \/ storeSubmission(s) \/ handleToken(s)
             \/ handleSubmissionInvalidate(s) \/ handleSubmissionRestore(s)
      PROVE  Careful' => Careful
  BY <1>3 DEF newSubmission, storeSubmission, handleToken, handleSubmissionInvalidate,
              handleSubmissionRestore
<1>4. ASSUME NEW s \in Submissions, NEW d \in Datasets,
             \/ Sweep(s, d)
             \/ \E p \in Shards : handleSubmissionResult(p, s, d)
             \/ \E level \in {"compilation", "evaluation", "score"} : Invalidate(s, d, level)
      PROVE  Careful' => Careful
  BY <1>4 DEF Sweep, handleSubmissionResult, Invalidate
<1>5. ASSUME NEW e \in events, reaggregate(e) \/ handleEventError(e) PROVE Careful' => Careful
  BY <1>5 DEF reaggregate, handleEventError
<1>6. ASSUME NEW p \in Goroutines, Commit(p) PROVE Careful' => Careful
  BY <1>6 DEF Commit
<1>7. ASSUME NEW points \in Adjustments, handleScoreAdjust(points) PROVE Careful' => Careful
  BY <1>7 DEF handleScoreAdjust
<1>8. CASE Restart \/ UNCHANGED vars
  BY <1>8 DEF Restart, vars
<1> QED
  BY <1>1, <1>2, <1>3, <1>4, <1>5, <1>6, <1>7, <1>8 DEF Next

\* A commit writes the result it carries, if any, and leaves the others.
LEMMA CommitRows ==
    ASSUME TypeOK, NEW p \in Goroutines, Commit(p)
    PROVE  /\ tx[p] \in Open
           /\ \A d \in Datasets, s \in Submissions :
                 result'[d][s] = IF s = tx[p].sub /\ d = tx[p].ds THEN tx[p].row ELSE result[d][s]
<1>1. tx[p] \in Open
  BY DEF Commit, TypeOK, Idle
<1>2. 0 \notin Submissions
  BY TaskScoreAssumption
<1> QED
  BY <1>1, <1>2 DEF Commit, TypeOK, Open

\* No step loses the adjustment.
LEMMA AdjustmentStep == TypeOK /\ AdjustmentKept /\ [Next]_vars => AdjustmentKept'
<1> SUFFICES ASSUME TypeOK, AdjustmentKept, [Next]_vars PROVE AdjustmentKept'
  OBVIOUS
<1>0. task \in [score : Int, pending : Nat, adjustment : Int] /\ base \in Nat /\ given \in Int
  BY DEF TypeOK
<1>1. CASE UNCHANGED <<task, base, given>>
  BY <1>1 DEF AdjustmentKept
<1>2. ASSUME NEW p \in Goroutines, Commit(p) PROVE AdjustmentKept'
  BY <1>0, <1>2 DEF Commit, upsert, AdjustmentKept
<1>3. ASSUME NEW points \in Adjustments, handleScoreAdjust(points) PROVE AdjustmentKept'
  <2>1. points \in Int
    BY TaskScoreAssumption
  <2>2. task'.score = task.score + points /\ task'.adjustment = task.adjustment + points
    BY <1>0, <1>3 DEF handleScoreAdjust
  <2> QED
    BY <1>0, <1>3, <2>1, <2>2 DEF handleScoreAdjust, AdjustmentKept
<1> USE DEF dbVars, historyVars
<1>4. ASSUME NEW d \in Datasets, Load(d) \/ Expire(d) \/ ChangeLiveDataset(d)
      PROVE  UNCHANGED <<task, base, given>>
  BY <1>4 DEF Load, Expire, ChangeLiveDataset
<1>5. ASSUME NEW s \in Submissions,
             \/ newSubmission(s) \/ storeSubmission(s) \/ handleToken(s)
             \/ handleSubmissionInvalidate(s) \/ handleSubmissionRestore(s)
      PROVE  UNCHANGED <<task, base, given>>
  BY <1>5 DEF newSubmission, storeSubmission, handleToken, handleSubmissionInvalidate,
              handleSubmissionRestore
<1>6. ASSUME NEW s \in Submissions, NEW d \in Datasets,
             \/ Sweep(s, d)
             \/ \E p \in Shards : handleSubmissionResult(p, s, d)
             \/ \E level \in {"compilation", "evaluation", "score"} : Invalidate(s, d, level)
      PROVE  UNCHANGED <<task, base, given>>
  BY <1>6 DEF Sweep, handleSubmissionResult, Invalidate
<1>7. ASSUME NEW e \in events, reaggregate(e) \/ handleEventError(e)
      PROVE  UNCHANGED <<task, base, given>>
  BY <1>7 DEF reaggregate, handleEventError
<1>8. CASE Loaded \/ Restart \/ UNCHANGED vars
  BY <1>1, <1>8 DEF Loaded, Restart, vars
<1> QED
  BY <1>1, <1>2, <1>3, <1>4, <1>5, <1>6, <1>7, <1>8 DEF Next

\* A handler of a submission that is there leaves only such submissions.
LEMMA HandledKnown ==
    ASSUME TypeOK, KnownSubmissions, NEW p \in Goroutines, NEW s \in stored, NEW d \in Datasets,
           Handled(p, s, d), UNCHANGED stored, events' \subseteq events
    PROVE  KnownSubmissions'
<1>1. PICK r \in Result :
         \/ write(s, d, r)
         \/ read(p, s, d, r, {}) /\ UNCHANGED result
  BY DEF Handled
<1>2. CASE write(s, d, r)
  BY <1>2 DEF write, KnownSubmissions, TypeOK
<1>3. CASE read(p, s, d, r, {}) /\ UNCHANGED result
  <2>1. \A q \in Goroutines : tx'[q] = tx[q] \/ tx'[q].sub = s
    BY <1>3 DEF read, TypeOK
  <2> QED
    BY <1>3, <2>1 DEF KnownSubmissions
<1> QED
  BY <1>1, <1>2, <1>3

\* The events the web servers send name submissions that are there.
LEMMA KnownStep == TypeOK /\ KnownSubmissions /\ HandledEvents /\ [Next]_vars => KnownSubmissions'
<1> SUFFICES ASSUME TypeOK, KnownSubmissions, HandledEvents, [Next]_vars PROVE KnownSubmissions'
  OBVIOUS
<1> USE DEF dbVars, historyVars
<1>1. ASSUME UNCHANGED <<result, tx>>, stored \subseteq stored',
             \A e \in events' : e.kind = "submission" => e \in events \/ e.sub \in stored'
      PROVE  KnownSubmissions'
  BY <1>1 DEF KnownSubmissions
<1>2. ASSUME NEW d \in Datasets, Load(d) \/ Expire(d) \/ ChangeLiveDataset(d)
      PROVE  KnownSubmissions'
  BY <1>1, <1>2 DEF Load, Expire, ChangeLiveDataset, Notify
<1>3. CASE Loaded \/ UNCHANGED vars
  BY <1>1, <1>3 DEF Loaded, vars
<1>4. ASSUME NEW s \in Submissions, newSubmission(s) PROVE KnownSubmissions'
  <2>1. s \in stored
    BY <1>4 DEF newSubmission, KnownSubmissions
  <2>2. CASE UNCHANGED <<result, tx>>
    BY <1>1, <1>4, <2>2 DEF newSubmission
  <2>3. ASSUME NEW d \in Datasets, advance("events", s, d, {}), UNCHANGED events
        PROVE  KnownSubmissions'
    BY <1>4, <2>1, <2>3, advanceHandled, HandledKnown DEF newSubmission, Goroutines
  <2> QED
    BY <1>4, <2>2, <2>3 DEF newSubmission
<1>5. ASSUME NEW s \in Submissions, storeSubmission(s) PROVE KnownSubmissions'
  BY <1>1, <1>5 DEF storeSubmission, Notify
<1>6. ASSUME NEW s \in Submissions,
             handleToken(s) \/ handleSubmissionInvalidate(s) \/ handleSubmissionRestore(s)
      PROVE  KnownSubmissions'
  BY <1>1, <1>6 DEF handleToken, handleSubmissionInvalidate, handleSubmissionRestore,
                    submissionCounted, Notify
<1>7. ASSUME NEW s \in Submissions, NEW d \in Datasets, Sweep(s, d) PROVE KnownSubmissions'
  BY <1>7, advanceHandled, HandledKnown DEF Sweep, Goroutines
<1>8. ASSUME NEW s \in Submissions, NEW d \in Datasets, NEW p \in Shards,
             handleSubmissionResult(p, s, d)
      PROVE  KnownSubmissions'
  <2>1. s \in stored
    BY <1>8 DEF handleSubmissionResult, KnownSubmissions
  <2>2. p \in Goroutines
    BY DEF Goroutines
  <2>3. Handled(p, s, d)
    BY <1>8, resultHandled
  <2>4. UNCHANGED stored /\ events' \subseteq events
    BY <1>8 DEF handleSubmissionResult
  <2> QED
    BY <2>1, <2>2, <2>3, <2>4, HandledKnown
<1>9. ASSUME NEW s \in Submissions, NEW d \in Datasets,
             NEW level \in {"compilation", "evaluation", "score"}, Invalidate(s, d, level)
      PROVE  KnownSubmissions'
  <2>1. \A c \in Datasets, u \in Submissions : result'[c][u] = result[c][u] \/ (c = d /\ u = s)
    BY <1>9 DEF Invalidate, TypeOK
  <2> QED
    BY <1>9, <2>1 DEF Invalidate, KnownSubmissions
<1>10. ASSUME NEW e \in events, reaggregate(e) PROVE KnownSubmissions'
  <2>1. \A q \in Goroutines : tx'[q] = tx[q] \/ tx'[q].sub = 0
    BY <1>10 DEF reaggregate, TypeOK
  <2> QED
    BY <1>10, <2>1 DEF reaggregate, KnownSubmissions
<1>11. ASSUME NEW e \in events, handleEventError(e) PROVE KnownSubmissions'
  BY <1>1, <1>11 DEF handleEventError
<1>12. ASSUME NEW p \in Goroutines, Commit(p) PROVE KnownSubmissions'
  <2>1. \A d \in Datasets, s \in Submissions :
           result'[d][s] = result[d][s] \/ s = tx[p].sub
    BY <1>12, CommitRows
  <2>2. \A s \in Submissions : s = tx[p].sub => s \in stored
    BY <1>12, TaskScoreAssumption DEF Commit, KnownSubmissions
  <2>3. \A q \in Goroutines : tx'[q] = tx[q] \/ tx'[q] = Idle
    BY <1>12 DEF Commit, TypeOK
  <2> QED
    BY <1>12, <2>1, <2>2, <2>3 DEF Commit, KnownSubmissions, Idle
<1>13. ASSUME NEW points \in Adjustments, handleScoreAdjust(points) PROVE KnownSubmissions'
  BY <1>1, <1>13 DEF handleScoreAdjust, Notify
<1>14. CASE Restart
  <2>1. \A e \in events' : e \in events \/ \E p \in Goroutines : tx[p].busy /\ e \in tx[p].events
    BY <1>14 DEF Restart
  <2>2. \A e \in events' : e.kind = "submission" => e.sub \in stored
    BY <2>1 DEF HandledEvents, KnownSubmissions
  <2> QED
    BY <1>14, <2>2 DEF Restart, KnownSubmissions, Idle
<1> QED
  BY <1>2, <1>3, <1>4, <1>5, <1>6, <1>7, <1>8, <1>9, <1>10, <1>11, <1>12, <1>13, <1>14 DEF Next

\* What a step does to the open transactions.
LEMMA HandledStep == TypeOK /\ HandledEvents /\ [Next]_vars => HandledEvents'
<1> SUFFICES ASSUME TypeOK, HandledEvents, [Next]_vars PROVE HandledEvents'
  OBVIOUS
<1> USE DEF dbVars, historyVars
<1>1. ASSUME \A q \in Goroutines :
                tx'[q] = tx[q] \/ ~tx'[q].busy \/ tx'[q].events = {}
                \/ (q = "events" /\ \A e \in tx'[q].events : e.kind # "submission")
      PROVE  HandledEvents'
  BY <1>1 DEF HandledEvents
<1>2. ASSUME NEW p \in Goroutines, NEW s, NEW d, Handled(p, s, d) PROVE HandledEvents'
  <2>1. \A q \in Goroutines : tx'[q] = tx[q] \/ tx'[q].events = {}
    BY <1>2 DEF Handled, write, read, TypeOK
  <2> QED
    BY <1>1, <2>1
<1>3. ASSUME NEW d \in Datasets, Load(d) \/ Expire(d) \/ ChangeLiveDataset(d) PROVE HandledEvents'
  BY <1>1, <1>3 DEF Load, Expire, ChangeLiveDataset
<1>4. CASE Loaded \/ UNCHANGED vars
  BY <1>1, <1>4 DEF Loaded, vars
<1>5. ASSUME NEW s \in Submissions, newSubmission(s) PROVE HandledEvents'
  <2>1. CASE UNCHANGED tx
    BY <1>1, <2>1
  <2>2. ASSUME NEW d \in Datasets, advance("events", s, d, {}) PROVE HandledEvents'
    BY <1>2, <2>2, advanceHandled DEF Goroutines
  <2> QED
    BY <1>5, <2>1, <2>2 DEF newSubmission
<1>6. ASSUME NEW s \in Submissions,
             \/ storeSubmission(s) \/ handleToken(s)
             \/ handleSubmissionInvalidate(s) \/ handleSubmissionRestore(s)
      PROVE  HandledEvents'
  BY <1>1, <1>6 DEF storeSubmission, handleToken, handleSubmissionInvalidate, handleSubmissionRestore
<1>7. ASSUME NEW s \in Submissions, NEW d \in Datasets, Sweep(s, d) PROVE HandledEvents'
  BY <1>2, <1>7, advanceHandled DEF Sweep, Goroutines
<1>8. ASSUME NEW s \in Submissions, NEW d \in Datasets, NEW p \in Shards,
             handleSubmissionResult(p, s, d)
      PROVE  HandledEvents'
  BY <1>2, <1>8, resultHandled DEF Goroutines
<1>9. ASSUME NEW s \in Submissions, NEW d \in Datasets,
             NEW level \in {"compilation", "evaluation", "score"}, Invalidate(s, d, level)
      PROVE  HandledEvents'
  BY <1>1, <1>9 DEF Invalidate
<1>10. ASSUME NEW e \in events, reaggregate(e) PROVE HandledEvents'
  <2>1. \A q \in Goroutines : tx'[q] = tx[q] \/ (q = "events" /\ tx'[q].events = {e})
    BY <1>10 DEF reaggregate, TypeOK
  <2>2. e.kind # "submission"
    BY <1>10 DEF reaggregate
  <2> QED
    BY <1>1, <2>1, <2>2
<1>11. ASSUME NEW e \in events, handleEventError(e) PROVE HandledEvents'
  BY <1>1, <1>11 DEF handleEventError
<1>12. ASSUME NEW p \in Goroutines, Commit(p) PROVE HandledEvents'
  <2>1. \A q \in Goroutines : tx'[q] = tx[q] \/ tx'[q] = Idle
    BY <1>12 DEF Commit, TypeOK
  <2> QED
    BY <1>1, <2>1 DEF Idle
<1>13. ASSUME NEW points \in Adjustments, handleScoreAdjust(points) PROVE HandledEvents'
  BY <1>1, <1>13 DEF handleScoreAdjust
<1>14. CASE Restart
  BY <1>1, <1>14 DEF Restart, Idle
<1> QED
  BY <1>3, <1>4, <1>5, <1>6, <1>7, <1>8, <1>9, <1>10, <1>11, <1>12, <1>13, <1>14 DEF Next

\* A new live dataset is announced, and its announcement drops the cache.
LEMMA FreshStep == TypeOK /\ CacheFresh /\ [Next]_vars => CacheFresh'
<1> SUFFICES ASSUME TypeOK, CacheFresh, [Next]_vars, Careful'
             PROVE  \/ \E e \in events' : e.kind = "dataset_changed"
                    \/ \A d \in Datasets : cache'[d] \in {NoDataset, active'}
  BY DEF CacheFresh
<1> DEFINE Goal == \/ \E e \in events' : e.kind = "dataset_changed"
                   \/ \A d \in Datasets : cache'[d] \in {NoDataset, active'}
<1> SUFFICES Goal
  OBVIOUS
<1> USE DEF dbVars, historyVars
<1>0. \/ \E e \in events : e.kind = "dataset_changed"
      \/ \A d \in Datasets : cache[d] \in {NoDataset, active}
  BY CarefulStep DEF CacheFresh
<1>1. ASSUME UNCHANGED active, \A d \in Datasets : cache'[d] \in {NoDataset, cache[d]},
             \A e \in events : e.kind = "dataset_changed" => e \in events'
      PROVE  Goal
  BY <1>0, <1>1
<1>2. ASSUME NEW d \in Datasets, Load(d) \/ Expire(d) PROVE Goal
  BY <1>1, <1>2 DEF Load, Expire, TypeOK
<1>3. ASSUME NEW d \in Datasets, ChangeLiveDataset(d) PROVE Goal
  <2>1. losses' = 0 /\ losses \in Nat
    BY DEF Careful, TypeOK
  <2>2. [kind |-> "dataset_changed", sub |-> 0] \in events'
    BY <1>3, <2>1 DEF ChangeLiveDataset, Notify
  <2> QED
    BY <2>2
<1>4. CASE Loaded
  <2>1. PICK l \in loading : /\ cache' = [cache EXCEPT ![l[1]] = l[2]]
                             /\ raced' = (raced \/ l[2] # active)
    BY <1>4 DEF Loaded
  <2>2. l[2] = active
    BY <2>1 DEF Careful
  <2> QED
    BY <1>0, <1>4, <2>1, <2>2 DEF Loaded, TypeOK
<1>5. ASSUME NEW s \in Submissions,
             \/ newSubmission(s) \/ storeSubmission(s) \/ handleToken(s)
             \/ handleSubmissionInvalidate(s) \/ handleSubmissionRestore(s)
      PROVE  Goal
  BY <1>1, <1>5 DEF newSubmission, storeSubmission, handleToken, handleSubmissionInvalidate,
                    handleSubmissionRestore, submissionCounted, Notify
<1>6. ASSUME NEW s \in Submissions, NEW d \in Datasets,
             \/ Sweep(s, d)
             \/ \E p \in Shards : handleSubmissionResult(p, s, d)
             \/ \E level \in {"compilation", "evaluation", "score"} : Invalidate(s, d, level)
      PROVE  Goal
  BY <1>1, <1>6 DEF Sweep, handleSubmissionResult, Invalidate
<1>7. ASSUME NEW e \in events, reaggregate(e) PROVE Goal
  <2>1. CASE e.kind = "dataset_changed"
    BY <1>7, <2>1 DEF reaggregate
  <2>2. CASE e.kind # "dataset_changed"
    BY <1>1, <1>7, <2>2 DEF reaggregate
  <2> QED
    BY <2>1, <2>2
<1>8. ASSUME NEW e \in events, handleEventError(e) PROVE Goal
  <2>1. CASE e.kind = "dataset_changed"
    BY <1>8, <2>1 DEF handleEventError
  <2>2. CASE e.kind # "dataset_changed"
    BY <1>1, <1>8, <2>2 DEF handleEventError
  <2> QED
    BY <2>1, <2>2
<1>9. ASSUME NEW p \in Goroutines, Commit(p) PROVE Goal
  BY <1>1, <1>9 DEF Commit
<1>10. ASSUME NEW points \in Adjustments, handleScoreAdjust(points) PROVE Goal
  BY <1>1, <1>10 DEF handleScoreAdjust, Notify
<1>11. CASE Restart \/ UNCHANGED vars
  BY <1>1, <1>11 DEF Restart, vars
<1> HIDE DEF Goal
<1> QED
  BY <1>2, <1>3, <1>4, <1>5, <1>6, <1>7, <1>8, <1>9, <1>10, <1>11 DEF Next

\* A step that leaves the live results and what counts as they are, and the
\* aggregations that were due.
LEMMA SameScore ==
    ASSUME AggregateStored, Careful' => Careful, AggregationDue => AggregationDue',
           UNCHANGED <<stored, invalid, tokened, active, task, given>>,
           result'[active] = result[active]
    PROVE  AggregateStored'
<1>1. aggregate(result[active])' = aggregate(result[active])
  BY DEF aggregate
<1>2. AllScored' => AllScored
  BY DEF AllScored
<1> QED
  BY <1>1, <1>2 DEF AggregateStored

\* A handler of a result of a submission.
LEMMA HandledScore ==
    ASSUME TypeOK, CacheFresh, AggregateStored, Careful' => Careful,
           NEW p \in Goroutines, NEW s \in stored, NEW d \in Datasets, Handled(p, s, d),
           ~tx[p].busy, events' = events,
           UNCHANGED <<stored, invalid, tokened, active, task, given>>
    PROVE  AggregateStored'
<1>1. PICK r \in Result :
         /\ r.state # "absent" /\ cache[d] # NoDataset
         /\ \/ write(s, d, r) /\ (r.state = "scored" => cache[d] # d)
            \/ read(p, s, d, r, {}) /\ UNCHANGED result
  BY DEF Handled
<1>2. CASE read(p, s, d, r, {}) /\ UNCHANGED result
  <2>1. \A q \in Goroutines : q # p => tx'[q] = tx[q]
    BY <1>2 DEF read, TypeOK
  <2>2. AggregationDue => AggregationDue'
    <3>1. "events" \in Goroutines
      BY DEF Goroutines
    <3> QED
      BY <2>1, <3>1 DEF AggregationDue
  <2> QED
    BY <1>2, <2>2, SameScore
<1>3. CASE write(s, d, r) /\ (r.state = "scored" => cache[d] # d)
  <2>1. UNCHANGED tx /\ result' = [result EXCEPT ![d][s] = r]
    BY <1>3 DEF write
  <2>2. AggregationDue => AggregationDue'
    BY <2>1 DEF AggregationDue
  <2>3. CASE d # active
    <3>1. result'[active] = result[active]
      BY <2>1, <2>3 DEF TypeOK
    <3> QED
      BY <2>2, <3>1, SameScore
  <2>4. CASE d = active /\ r.state # "scored"
    <3>1. result'[active'][s].state # "scored"
      BY <2>1, <2>4 DEF TypeOK
    <3> QED
      BY <3>1 DEF AggregateStored, AllScored
  <2>5. CASE d = active /\ r.state = "scored"
    <3>1. CASE Careful'
      <4>1. r.state # "scored" \/ cache[d] # d
        BY <1>3
      <4>2. \E e \in events : e.kind = "dataset_changed"
        BY <1>1, <2>5, <3>1, <4>1 DEF CacheFresh
      <4>3. AggregationDue'
        BY <4>2 DEF AggregationDue
      <4> QED
        BY <4>3 DEF AggregateStored
    <3> QED
      BY <3>1 DEF AggregateStored
  <2> QED
    BY <2>3, <2>4, <2>5
<1> QED
  BY <1>1, <1>2, <1>3

\* A commit that stores what the results are by then.
LEMMA CommitScore ==
    ASSUME TypeOK, AdjustmentKept, NEW p \in Goroutines, Commit(p)
    PROVE  AggregateStored'
<1> SUFFICES ASSUME Careful'
             PROVE  /\ task'.score = aggregate(result[active])'.score + given'
                    /\ task'.pending = aggregate(result[active])'.pending
  BY DEF AggregateStored
<1>1. PICK t \in Open : t = tx[p]
  BY CommitRows
<1> DEFINE rows(d) == IF t.sub # 0 /\ d = t.ds THEN [result[d] EXCEPT ![t.sub] = t.row] ELSE result[d]
<1>2. /\ result' = [d \in Datasets |-> rows(d)]
      /\ raced' = (raced \/ t.ds # active \/ t.agg # aggregate(rows(t.ds)))
      /\ UNCHANGED <<stored, invalid, tokened, active, given>>
  BY <1>1 DEF Commit
<1>3. t.ds = active /\ t.agg = aggregate(rows(t.ds))
  BY <1>2 DEF Careful
<1>4. result'[active] = rows(active)
  BY <1>2 DEF TypeOK
<1>5. aggregate(result[active])' = t.agg
  <2> HIDE DEF rows
  <2> QED
    BY <1>2, <1>3, <1>4 DEF aggregate
<1>6. /\ task' = [task EXCEPT !.score = t.agg.score + task.adjustment, !.pending = t.agg.pending]
      /\ task \in [score : Int, pending : Nat, adjustment : Int]
  BY <1>1 DEF Commit, upsert, TypeOK
<1>7. task'.score = t.agg.score + given /\ task'.pending = t.agg.pending
  BY <1>6 DEF AdjustmentKept
<1> QED
  BY <1>2, <1>5, <1>7

\* An event that is not lost brings an aggregation about.
LEMMA NotifiedScore ==
    ASSUME TypeOK, NEW e, e.kind # "submission", Notify(e)
    PROVE  AggregateStored'
<1>1. CASE Careful'
  <2>1. losses' = 0 /\ losses \in Nat
    BY <1>1 DEF Careful, TypeOK
  <2>2. e \in events'
    BY <2>1 DEF Notify
  <2> QED
    BY <2>2 DEF AggregateStored, AggregationDue
<1> QED
  BY <1>1 DEF AggregateStored

\* No step stores a stale aggregate, but on record.
LEMMA StoredStep == ScoreInv /\ [Next]_vars => AggregateStored'
<1> SUFFICES ASSUME ScoreInv, [Next]_vars PROVE AggregateStored'
  OBVIOUS
<1>0. /\ TypeOK /\ AdjustmentKept /\ KnownSubmissions /\ HandledEvents /\ CacheFresh
      /\ AggregateStored /\ (Careful' => Careful)
  BY CarefulStep DEF ScoreInv
<1> USE DEF dbVars, historyVars
<1>1. ASSUME UNCHANGED <<stored, result, invalid, tokened, active, task, given, tx>>,
             \A e \in events : e.kind # "submission" => e \in events'
      PROVE  AggregateStored'
  BY <1>0, <1>1, SameScore DEF AggregationDue
<1>2. ASSUME NEW d \in Datasets, Load(d) \/ Expire(d) PROVE AggregateStored'
  BY <1>1, <1>2 DEF Load, Expire
<1>3. ASSUME NEW d \in Datasets, ChangeLiveDataset(d) PROVE AggregateStored'
  BY <1>0, <1>3, NotifiedScore DEF ChangeLiveDataset
<1>4. CASE Loaded \/ UNCHANGED vars
  BY <1>1, <1>4 DEF Loaded, vars
<1>5. ASSUME NEW s \in Submissions, newSubmission(s) PROVE AggregateStored'
  <2>1. s \in stored
    BY <1>0, <1>5 DEF newSubmission, KnownSubmissions
  <2>2. CASE UNCHANGED <<result, tx>>
    BY <1>1, <1>5, <2>2 DEF newSubmission
  <2>3. ASSUME NEW d \in Datasets, advance("events", s, d, {}), UNCHANGED events
        PROVE  AggregateStored'
    <3>1. "events" \in Goroutines /\ Handled("events", s, d)
      BY <1>0, <2>3, advanceHandled DEF Goroutines
    <3>2. /\ ~tx["events"].busy
          /\ UNCHANGED <<stored, invalid, tokened, active, task, given>>
      BY <1>5 DEF newSubmission
    <3> QED
      BY <1>0, <2>1, <2>3, <3>1, <3>2, HandledScore
  <2> QED
    BY <1>5, <2>2, <2>3 DEF newSubmission
<1>6. ASSUME NEW s \in Submissions, storeSubmission(s) PROVE AggregateStored'
  <2>1. active \in Datasets /\ result[active][s].state = "absent"
    BY <1>0, <1>6 DEF storeSubmission, KnownSubmissions, TypeOK
  <2>2. s \in stored' /\ result'[active'][s].state # "scored"
    BY <1>6, <2>1 DEF storeSubmission
  <2> QED
    BY <2>2 DEF AggregateStored, AllScored
<1>7. ASSUME NEW s \in Submissions,
             handleToken(s) \/ handleSubmissionInvalidate(s) \/ handleSubmissionRestore(s)
      PROVE  AggregateStored'
  <2>1. Notify([kind |-> "reaggregate", sub |-> s])
    BY <1>7 DEF handleToken, handleSubmissionInvalidate, handleSubmissionRestore, submissionCounted
  <2> QED
    BY <1>0, <2>1, NotifiedScore
<1>8. ASSUME NEW s \in Submissions, NEW d \in Datasets, Sweep(s, d) PROVE AggregateStored'
  <2>1. "sweep" \in Goroutines /\ Handled("sweep", s, d)
    BY <1>0, <1>8, advanceHandled DEF Sweep, Goroutines
  <2>2. /\ s \in stored /\ ~tx["sweep"].busy /\ UNCHANGED events
        /\ UNCHANGED <<stored, invalid, tokened, active, task, given>>
    BY <1>8 DEF Sweep
  <2> QED
    BY <1>0, <2>1, <2>2, HandledScore
<1>9. ASSUME NEW s \in Submissions, NEW d \in Datasets, NEW p \in Shards,
             handleSubmissionResult(p, s, d)
      PROVE  AggregateStored'
  <2>1. p \in Goroutines /\ Handled(p, s, d)
    BY <1>0, <1>9, resultHandled DEF Goroutines
  <2>2. s \in stored
    BY <1>0, <1>9 DEF handleSubmissionResult, KnownSubmissions
  <2>3. /\ ~tx[p].busy /\ UNCHANGED events
        /\ UNCHANGED <<stored, invalid, tokened, active, task, given>>
    BY <1>9 DEF handleSubmissionResult
  <2> QED
    BY <1>0, <2>1, <2>2, <2>3, HandledScore
<1>10. ASSUME NEW s \in Submissions, NEW d \in Datasets,
              NEW level \in {"compilation", "evaluation", "score"}, Invalidate(s, d, level)
       PROVE  AggregateStored'
  <2>1. s \in stored /\ UNCHANGED <<stored, invalid, tokened, active, task, given, events, tx>>
    BY <1>0, <1>10 DEF Invalidate, KnownSubmissions
  <2>2. CASE d # active
    <3>1. result'[active] = result[active]
      BY <1>0, <1>10, <2>2 DEF Invalidate, TypeOK
    <3>2. AggregationDue => AggregationDue'
      BY <2>1 DEF AggregationDue
    <3> QED
      BY <1>0, <2>1, <3>1, <3>2, SameScore
  <2>3. CASE d = active
    <3>1. result'[d][s].state # "scored"
      BY <1>0, <1>10 DEF Invalidate, TypeOK
    <3> QED
      BY <2>1, <2>3, <3>1 DEF AggregateStored, AllScored
  <2> QED
    BY <2>2, <2>3
<1>11. ASSUME NEW e \in events, reaggregate(e) PROVE AggregateStored'
  <2>1. tx'["events"].busy /\ tx'["events"].events = {e}
    BY <1>0, <1>11 DEF reaggregate, TypeOK, Goroutines
  <2> QED
    BY <2>1 DEF AggregateStored, AggregationDue
<1>12. ASSUME NEW e \in events, handleEventError(e) PROVE AggregateStored'
  <2>1. ~Careful'
    BY <1>0, <1>12 DEF handleEventError, Careful, TypeOK
  <2> QED
    BY <2>1 DEF AggregateStored
<1>13. ASSUME NEW p \in Goroutines, Commit(p) PROVE AggregateStored'
  BY <1>0, <1>13, CommitScore
<1>14. ASSUME NEW points \in Adjustments, handleScoreAdjust(points) PROVE AggregateStored'
  <2>1. Notify([kind |-> "reaggregate", sub |-> 0])
    BY <1>14 DEF handleScoreAdjust
  <2> QED
    BY <1>0, <2>1, NotifiedScore
<1>15. CASE Restart
  <2>1. AggregationDue => AggregationDue'
    <3>1. CASE \E e \in events : e.kind # "submission"
      BY <1>15, <3>1 DEF Restart, AggregationDue
    <3>2. CASE tx["events"].busy /\ tx["events"].events # {}
      <4>1. "events" \in Goroutines
        BY DEF Goroutines
      <4>2. PICK e \in tx["events"].events : e.kind # "submission"
        BY <1>0, <3>2, <4>1 DEF HandledEvents
      <4>3. e \in events'
        BY <1>15, <3>2, <4>1, <4>2 DEF Restart
      <4> QED
        BY <4>2, <4>3 DEF AggregationDue
    <3> QED
      BY <3>1, <3>2 DEF AggregationDue
  <2> QED
    BY <1>0, <1>15, <2>1, SameScore DEF Restart
<1> QED
  BY <1>2, <1>3, <1>4, <1>5, <1>6, <1>7, <1>8, <1>9, <1>10, <1>11, <1>12, <1>13, <1>14, <1>15 DEF Next

\* Every step keeps the inductive invariant.
LEMMA ScoreStep == ScoreInv /\ [Next]_vars => ScoreInv'
  BY TypeStep, AdjustmentStep, KnownStep, HandledStep, FreshStep, StoredStep DEF ScoreInv

(***************************************************************************)
(* The theorems.                                                           *)
(***************************************************************************)
\* However many goroutines of the dispatcher store aggregates they read
\* earlier, the stored score contains every adjustment exactly once
\* (UpsertParticipationTaskScore adds the one of the stored row).
THEOREM AdjustmentsKept == Spec => [](TypeOK /\ AdjustmentKept)
<1>1. TypeOK /\ AdjustmentKept /\ [Next]_vars => (TypeOK /\ AdjustmentKept)'
  BY TypeStep, AdjustmentStep
<1>2. Init => TypeOK /\ AdjustmentKept
  BY InitScore DEF ScoreInv
<1> QED
  BY <1>1, <1>2, PTL DEF Spec

\* When nothing counted is left, nothing is pending.
LEMMA SettledExact == ScoreInv => EveryChangeAggregated
<1> SUFFICES ASSUME ScoreInv, Settled, Careful PROVE Exact
  BY DEF EveryChangeAggregated, Careful
<1>0. TypeOK /\ AdjustmentKept /\ AggregateStored
  BY DEF ScoreInv
<1>1. AllScored
  BY DEF Settled, AllScored
<1>2. ~AggregationDue
  <2>1. "events" \in Goroutines
    BY DEF Goroutines
  <2> QED
    BY <2>1 DEF Settled, AggregationDue
<1>3. /\ task.score = aggregate(result[active]).score + given
      /\ task.pending = aggregate(result[active]).pending
  BY <1>0, <1>1, <1>2 DEF AggregateStored
<1>4. aggregate(result[active]).pending = 0
  <2> DEFINE counted == (stored \cap Official) \ invalid
             done == {s \in counted : result[active][s].state = "scored"}
  <2>1. counted \ done = {}
    BY <1>1 DEF AllScored
  <2>2. aggregate(result[active]).pending = Cardinality(counted \ done)
    BY DEF aggregate, Aggregated
  <2> QED
    BY <2>1, <2>2, FS_EmptySet
<1>5. task \in [score : Int, pending : Nat, adjustment : Int] /\ task.adjustment = given
  BY <1>0 DEF TypeOK, AdjustmentKept
<1>6. task = [score |-> task.score, pending |-> task.pending, adjustment |-> task.adjustment]
  BY <1>5
<1> QED
  BY <1>3, <1>4, <1>5, <1>6 DEF Exact

\* Every change of what counts is followed by an aggregation, for any number
\* of submissions, datasets and goroutines: unless something stale was stored
\* or cached, or an event was lost or its handler failed, the settled score is
\* exactly the aggregate of the results on the live dataset (judging.go,
\* dispatcher.go).
THEOREM ChangesAggregated == Spec => []EveryChangeAggregated
  BY InitScore, ScoreStep, SettledExact, PTL DEF Spec
=============================================================================
