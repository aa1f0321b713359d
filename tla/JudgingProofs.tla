--------------------------- MODULE JudgingProofs ---------------------------
(***************************************************************************)
(* Proofs about Judging, for every set of submissions, testcases and       *)
(* slots, and every value of the bounds.                                   *)
(***************************************************************************)
EXTENDS MCJudging, FiniteSetTheorems, TLAPS

(***************************************************************************)
(* Bags of messages.                                                       *)
(***************************************************************************)
\* Adding the elements of a set to a bag.
LEMMA BagAdd ==
    ASSUME NEW B, NEW S, IsABag(B)
    PROVE  /\ IsABag(B (+) SetToBag(S))
           /\ BagToSet(B (+) SetToBag(S)) = BagToSet(B) \cup S
  BY DEF IsABag, BagToSet, SetToBag, (+)

\* Removing one copy of an element from a bag.
LEMMA BagRemove ==
    ASSUME NEW B, NEW x, IsABag(B)
    PROVE  /\ IsABag(B (-) SetToBag({x}))
           /\ BagToSet(B (-) SetToBag({x})) \subseteq BagToSet(B)
  BY DEF IsABag, BagToSet, SetToBag, (-)

\* The empty bag.
LEMMA BagEmpty == IsABag(EmptyBag) /\ BagToSet(EmptyBag) = {}
  BY DEF IsABag, BagToSet, SetToBag, EmptyBag

(***************************************************************************)
(* What the operators of the dispatcher return.                            *)
(***************************************************************************)
LEMMA CachedFinite ==
    ASSUME TypeOK
    PROVE  Cardinality(cached) \in Nat
  BY JudgingAssumption, FS_Subset, FS_CardinalityType DEF TypeOK

\* The rows the transactions write have the type of a row.
LEMMA RowTypes ==
    ASSUME TypeOK, NEW r \in Row
    PROVE  /\ \A what \in Kinds \cup {"load", "score"} : systemError(r, what) \in Row
           /\ scoreResult(r) \in Row
           /\ \A ok \in BOOLEAN : compiled(r, ok) \in Row
           /\ \A level \in {"compilation", "evaluation", "score"} : invalidated(r, level) \in Row
  <1>1. \A x \in Row, what \in Kinds \cup {"load", "score"} : systemError(x, what) \in Row
    BY DEF Row, systemError, Kinds
  <1>2. \A x \in Row : scoreResult(x) \in Row
    BY DEF Row, scoreResult, systemError
  <1>3. \A ok \in BOOLEAN : compiled(r, ok) \in Row
    BY <1>2, CachedFinite DEF Row, compiled, scoreResult, systemError
  <1>4. ASSUME NEW level \in {"compilation", "evaluation", "score"}
        PROVE  invalidated(r, level) \in Row
    <2> DEFINE g == IF level = "score" THEN r.gen ELSE r.gen + 1
               c == IF level = "compilation" THEN "none" ELSE r.comp
               e == IF level = "score" THEN r.eval ELSE FALSE
    <2>1. g \in Nat
      BY DEF Row
    <2>2. c \in {"none", "ok", "fail"}
      BY DEF Row
    <2>3. e \in BOOLEAN
      BY DEF Row
    <2>4. invalidated(r, level) = [r EXCEPT !.gen = g, !.comp = c, !.eval = e,
                                     !.scored = FALSE, !.err = "none", !.enq = "never"]
      BY DEF invalidated
    <2> HIDE DEF g, c, e
    <2> QED BY <2>1, <2>2, <2>3, <2>4 DEF Row
  <1> QED BY <1>1, <1>2, <1>3, <1>4

\* The jobs the transactions ask for are jobs of the row.
LEMMA JobTypes ==
    ASSUME TypeOK, NEW s \in Submissions, NEW a \in Nat
    PROVE  /\ compileJob(s, a) \in Job
           /\ \A ids \in SUBSET Testcases : evaluateJobs(s, a, ids) \subseteq Job
           /\ \A ids \in SUBSET Testcases : \A j \in evaluateJobs(s, a, ids) :
                 /\ j.kind = "evaluate" /\ j.sub = s /\ j.gen = row[s].gen /\ j.attempt = a
                 /\ j.tcs \subseteq ids
  <1>1. row[s].gen \in Nat
    BY DEF TypeOK, Row
  <1>2. \A ids : \A g \in Groups(ids) : g \subseteq ids
    BY DEF Groups
  <1>3. compileJob(s, a) \in Job
    BY <1>1 DEF compileJob, Job, Kinds
  <1>4. ASSUME NEW ids \in SUBSET Testcases, NEW j \in evaluateJobs(s, a, ids)
        PROVE  /\ j \in Job
               /\ j.kind = "evaluate" /\ j.sub = s /\ j.gen = row[s].gen /\ j.attempt = a
               /\ j.tcs \subseteq ids
    <2>1. PICK g \in Groups(ids \cap cached) :
             j = [kind |-> "evaluate", sub |-> s, gen |-> row[s].gen, attempt |-> a, tcs |-> g]
      BY <1>4 DEF evaluateJobs
    <2>2. g \subseteq ids
      BY <2>1, <1>2
    <2> QED BY <2>1, <2>2, <1>1 DEF Job, Kinds
  <1> QED BY <1>3, <1>4

\* apply adds at most the given jobs to the queue.
LEMMA ApplyAdds ==
    ASSUME NEW jobs, IsABag(waiting), drops \in Nat, apply(jobs)
    PROVE  /\ IsABag(waiting')
           /\ BagToSet(waiting') \subseteq BagToSet(waiting) \cup jobs
           /\ drops' \in Nat
  <1>1. CASE waiting' = waiting (+) SetToBag(jobs) /\ UNCHANGED drops
    BY <1>1, BagAdd
  <1>2. CASE drops' = drops + 1 /\ \E sent \in SUBSET jobs \ {jobs} : waiting' = waiting (+) SetToBag(sent)
    <2>1. PICK sent \in SUBSET jobs : waiting' = waiting (+) SetToBag(sent)
      BY <1>2
    <2> QED BY <1>2, <2>1, BagAdd
  <1> QED BY <1>1, <1>2 DEF apply

\* SetRow with a row keeps the type of row.
LEMMA SetRowType ==
    ASSUME TypeOK, NEW s \in Submissions, NEW r \in Row, SetRow(s, r)
    PROVE  row' \in [Submissions -> Row]
  BY DEF TypeOK, SetRow

\* What a step of the dispatcher on one row may write.
Written ==
    /\ row' \in [Submissions -> Row]
    /\ evals' \in [Submissions -> [Testcases -> Nat \cup {NoEval}]]
    /\ IsABag(waiting') /\ BagToSet(waiting') \subseteq Job
    /\ fails' \in [Submissions -> 0 .. MaxAttempts]
    /\ drops' \in Nat

\* With no jobs to enqueue the queue keeps its type.
LEMMA NoJobsType ==
    ASSUME TypeOK, NoJobs
    PROVE  IsABag(waiting') /\ BagToSet(waiting') \subseteq Job /\ drops' \in Nat
  BY DEF TypeOK, NoJobs

\* Jobs enqueued, or lost on the way, keep the type of the queue.
LEMMA ApplyType ==
    ASSUME TypeOK, NEW jobs \in SUBSET Job, apply(jobs)
    PROVE  IsABag(waiting') /\ BagToSet(waiting') \subseteq Job /\ drops' \in Nat
  BY ApplyAdds DEF TypeOK

\* A stored compilation is a row with jobs or without.
LEMMA CompilationType ==
    ASSUME TypeOK, NEW s \in Submissions, NEW r \in Row, NEW ok \in BOOLEAN,
           applyCompilation(s, r, ok)
    PROVE  Written
  <1>1. compiled(r, ok) \in Row
    BY RowTypes
  <1>2. row' \in [Submissions -> Row]
    BY <1>1, SetRowType DEF applyCompilation
  <1>3. IsABag(waiting') /\ BagToSet(waiting') \subseteq Job /\ drops' \in Nat
    <2>1. cached \in SUBSET Testcases /\ 0 \in Nat
      BY DEF TypeOK
    <2>2. evaluateJobs(s, 0, cached) \in SUBSET Job
      BY <2>1, JobTypes
    <2> QED BY <2>2, ApplyType, NoJobsType DEF applyCompilation
  <1> QED BY <1>2, <1>3 DEF Written, TypeOK, applyCompilation

\* Advancing a submission writes a row.
LEMMA AdvanceType ==
    ASSUME TypeOK, NEW s \in Submissions, advance(s)
    PROVE  Written
  <1> DEFINE r == [row[s] EXCEPT !.exists = TRUE]
  <1>1. row[s] \in Row
    BY DEF TypeOK
  <1>2. r \in Row
    BY <1>1 DEF Row
  <1>3. [r EXCEPT !.enq = "recent"] \in Row /\ [r EXCEPT !.scored = TRUE] \in Row
    BY <1>2 DEF Row
  <1>4. systemError(r, "load") \in Row /\ scoreResult(r) \in Row
          /\ invalidated(r, "compilation") \in Row
    BY <1>2, RowTypes
  <1>5. [fails EXCEPT ![s] = 0] \in [Submissions -> 0 .. MaxAttempts]
    BY JudgingAssumption DEF TypeOK
  <1>6. compileJob(s, 0) \in Job /\ \A ids \in SUBSET Testcases : evaluateJobs(s, 0, ids) \in SUBSET Job
    BY JobTypes
  <1> HIDE DEF r
  <1>a. CASE advanceFinished(s, r)
    BY <1>a, <1>2, SetRowType, NoJobsType DEF advanceFinished, Written, TypeOK
  <1>b. CASE advanceLoadError(s, r)
    BY <1>b, <1>4, SetRowType, NoJobsType DEF advanceLoadError, Written, TypeOK
  <1>c. CASE advanceCompile(s, r)
    <2>1. {compileJob(s, 0)} \in SUBSET Job
      BY <1>6
    <2> QED BY <1>c, <2>1, <1>3, SetRowType, ApplyType DEF advanceCompile, Written, TypeOK
  <1>d. CASE advanceCacheHit(s, r)
    BY <1>d, <1>3, CompilationType DEF advanceCacheHit
  <1>e. CASE advanceCompilationFailed(s, r)
    BY <1>e, <1>3, SetRowType, NoJobsType DEF advanceCompilationFailed, Written, TypeOK
  <1>f. CASE advanceEvaluate(s, r)
    <2> DEFINE missing == cached \ Evaluated(evals[s])
    <2>1. missing \in SUBSET Testcases
      BY DEF TypeOK
    <2>2. evaluateJobs(s, 0, missing) \in SUBSET Job
      BY <2>1, <1>6
    <2> HIDE DEF missing
    <2>3. CASE SetRow(s, [r EXCEPT !.enq = "recent"]) /\ apply(evaluateJobs(s, 0, missing))
                 /\ UNCHANGED fails /\ UNCHANGED evals
      BY <2>3, <2>2, <1>3, SetRowType, ApplyType DEF Written, TypeOK
    <2>4. CASE SetRow(s, invalidated(r, "compilation")) /\ fails' = [fails EXCEPT ![s] = 0]
                 /\ NoJobs /\ UNCHANGED evals
      BY <2>4, <1>4, <1>5, SetRowType, NoJobsType DEF Written, TypeOK
    <2> QED BY <1>f, <2>3, <2>4 DEF advanceEvaluate, missing
  <1>g. CASE advanceScore(s, r)
    BY <1>g, <1>4, SetRowType, NoJobsType DEF advanceScore, Written, TypeOK
  <1> QED BY <1>a, <1>b, <1>c, <1>d, <1>e, <1>f, <1>g DEF advance, r

\* Failures are counted up to the limit of attempts.
LEMMA FailType ==
    ASSUME TypeOK, NEW s \in Submissions, NEW gen, Fail(s, gen)
    PROVE  fails' \in [Submissions -> 0 .. MaxAttempts]
  <1>1. fails \in [Submissions -> 0 .. MaxAttempts] /\ MaxAttempts \in Nat
    BY JudgingAssumption DEF TypeOK
  <1>2. CASE fails' = fails
    BY <1>1, <1>2
  <1>3. CASE fails[s] < MaxAttempts /\ fails' = [fails EXCEPT ![s] = @ + 1]
    BY <1>1, <1>3
  <1> QED BY <1>2, <1>3 DEF Fail

\* A result handled leaves typed rows and queues.
LEMMA ResultType ==
    ASSUME TypeOK, NEW m \in BagToSet(results), handleSubmissionResult(m)
    PROVE  /\ Written
           /\ IsABag(results') /\ BagToSet(results') \subseteq Result
           /\ crashes' \in Nat
  <1> DEFINE s == m.sub
  <1>1. m \in Result
    BY DEF TypeOK
  <1>2. s \in Submissions /\ m.gen \in Nat /\ m.attempt + 1 \in Nat /\ m.tcs \in SUBSET Testcases
          /\ m.kind \in Kinds
    BY <1>1 DEF Result
  <1>3. row[s] \in Row
    BY <1>2 DEF TypeOK
  <1>4. [row[s] EXCEPT !.enq = "recent"] \in Row
    BY <1>3 DEF Row
  <1>5. systemError(row[s], "load") \in Row /\ scoreResult(row[s]) \in Row
          /\ systemError(row[s], m.kind) \in Row
    BY <1>2, <1>3, RowTypes
  <1>6. compileJob(s, m.attempt + 1) \in Job
          /\ evaluateJobs(s, m.attempt + 1, m.tcs) \in SUBSET Job
    BY <1>2, JobTypes
  <1>7. IsABag(results') /\ BagToSet(results') \subseteq Result /\ crashes' \in Nat
    <2>1. CASE results' = results (-) SetToBag({m}) /\ UNCHANGED crashes
      BY <2>1, BagRemove DEF TypeOK
    <2>2. CASE crashes' = crashes + 1 /\ UNCHANGED results
      BY <2>2 DEF TypeOK
    <2> QED BY <2>1, <2>2 DEF handleSubmissionResult, AckResults
  <1> HIDE DEF s
  <1> SUFFICES Written
    BY <1>7
  <1>a. CASE resultStale(m)
    BY <1>a, NoJobsType DEF resultStale, Written, TypeOK
  <1>b. CASE resultLoadError(m)
    BY <1>b, <1>2, <1>5, SetRowType, NoJobsType DEF resultLoadError, Written, TypeOK, s
  <1>c. CASE retryOrFail(m)
    <2>1. CASE SetRow(s, systemError(row[s], m.kind)) /\ NoJobs /\ UNCHANGED <<evals, fails>>
      BY <2>1, <1>2, <1>5, SetRowType, NoJobsType DEF Written, TypeOK
    <2>2. CASE SetRow(s, [row[s] EXCEPT !.enq = "recent"]) /\ UNCHANGED <<evals, fails>>
                 /\ \E jobs \in SUBSET Job : apply(jobs)
      BY <2>2, <1>2, <1>4, SetRowType, ApplyType DEF Written, TypeOK
    <2>3. {compileJob(s, m.attempt + 1)} \in SUBSET Job
      BY <1>6
    <2> QED BY <1>c, <1>6, <2>1, <2>2, <2>3 DEF retryOrFail, s
  <1>d. CASE resultCompilation(m)
    <2>1. (m.out = "ok") \in BOOLEAN
      OBVIOUS
    <2> QED BY <1>d, <2>1, <1>2, <1>3, CompilationType DEF resultCompilation, s
  <1>e. CASE applyEvaluations(m)
    <2>1. PICK stored \in SUBSET Testcases :
             LET ev == [t \in Testcases |-> IF t \in stored THEN m.gen ELSE evals[s][t]]
             IN  /\ evals' = [evals EXCEPT ![s] = ev]
                 /\ SetRow(s, IF Cardinality(Evaluated(ev)) < row[s].total
                              THEN row[s] ELSE scoreResult(row[s]))
      BY <1>e, <1>2 DEF applyEvaluations, s, TypeOK
    <2>2. evals' \in [Submissions -> [Testcases -> Nat \cup {NoEval}]]
      BY <2>1, <1>2 DEF TypeOK
    <2>3. row' \in [Submissions -> Row]
      BY <2>1, <1>2, <1>3, <1>5, SetRowType
    <2> QED BY <1>e, <2>2, <2>3, NoJobsType DEF applyEvaluations, Written, TypeOK
  <1> QED BY <1>a, <1>b, <1>c, <1>d, <1>e DEF handleSubmissionResult

\* Every slot that is busy runs a job.
LEMMA SlotJob ==
    ASSUME TypeOK, NEW w \in Slots, slot[w].busy
    PROVE  slot[w] \in Running /\ slot[w].job \in Job /\ slot[w].owned \in BOOLEAN
  <1>1. slot[w] # Idle
    BY DEF Idle
  <1>2. slot[w] \in Running
    BY <1>1 DEF TypeOK
  <1> QED BY <1>2 DEF Running

\* What a worker answers is a result.
LEMMA ForJobType ==
    ASSUME NEW j \in Job, NEW out \in {"ok", "fail", "error", "lost"}
    PROVE  ForJob(j, out) \in Result
  BY DEF ForJob, Job, Result

\* A job tried again is a job.
LEMMA NextAttempt ==
    ASSUME NEW j \in Job
    PROVE  [j EXCEPT !.attempt = @ + 1] \in Job
  BY DEF Job

(***************************************************************************)
(* Type correctness.                                                       *)
(***************************************************************************)
LEMMA InitType == Init => TypeOK
  <1> SUFFICES ASSUME Init PROVE TypeOK
    OBVIOUS
  <1>1. Cardinality(FirstTestcases) \in Nat
    BY JudgingAssumption, FS_Subset, FS_CardinalityType
  <1>2. NewRow \in Row
    BY DEF NewRow, Row
  <1>3. \A s \in Submissions : ImportedRow(s) \in Row
    BY <1>1 DEF ImportedRow, NewRow, Row
  <1>4. row \in [Submissions -> Row]
    BY <1>2, <1>3 DEF Init
  <1>5. NoEvals \in [Testcases -> Nat \cup {NoEval}]
    BY DEF NoEvals
  <1>6. \A s : ImportedEvals(s) \subseteq [Testcases -> Nat \cup {NoEval}]
    BY DEF ImportedEvals
  <1>7. \A s \in Submissions : evals[s] \in [Testcases -> Nat \cup {NoEval}]
    BY <1>5, <1>6 DEF Init
  <1>8. evals \in [Submissions -> [Testcases -> Nat \cup {NoEval}]]
    BY <1>7 DEF Init
  <1>9. fails \in [Submissions -> 0 .. MaxAttempts]
    BY JudgingAssumption DEF Init
  <1> QED BY <1>4, <1>8, <1>9, BagEmpty, JudgingAssumption DEF Init, TypeOK

\* A job taken back is counted, and queued again or reported.
LEMMA RequeueType ==
    ASSUME TypeOK, NEW j \in Job, Requeue(j) \/ RequeueByID(j)
    PROVE  /\ IsABag(waiting') /\ BagToSet(waiting') \subseteq Job
           /\ IsABag(results') /\ BagToSet(results') \subseteq Result
           /\ fails' \in [Submissions -> 0 .. MaxAttempts]
           /\ drops' \in Nat
           /\ UNCHANGED <<dbVars, notices, cached, invalidations, edits>>
  <1> DEFINE k == [j EXCEPT !.attempt = @ + 1]
  <1>1. k \in Job
    BY NextAttempt
  <1>2. ForJob(k, "lost") \in Result
    BY <1>1, ForJobType
  <1>3. j.sub \in Submissions
    BY DEF Job
  <1>4. fails' \in [Submissions -> 0 .. MaxAttempts]
    BY <1>3, FailType DEF Requeue, RequeueByID
  <1> HIDE DEF k
  <1>5. CASE waiting' = waiting (+) SetToBag({k}) /\ UNCHANGED <<results, drops>>
    BY <1>1, <1>4, <1>5, BagAdd DEF TypeOK, Requeue, RequeueByID, countVars
  <1>6. CASE results' = results (+) SetToBag({ForJob(k, "lost")}) /\ UNCHANGED <<waiting, drops>>
    BY <1>2, <1>4, <1>6, BagAdd DEF TypeOK, Requeue, RequeueByID, countVars
  <1>7. CASE drops' = drops + 1 /\ UNCHANGED <<waiting, results>>
    BY <1>4, <1>7 DEF TypeOK, Requeue, RequeueByID, countVars
  <1> QED BY <1>5, <1>6, <1>7 DEF Requeue, RequeueByID, k, countVars

\* Taking a job back removes it from lost, or disowns the slot that runs it.
LEMMA TakeType ==
    ASSUME TypeOK, NEW j,
           TakeLost(j) \/ \E w \in Slots : TakeRunning(w, j)
    PROVE  /\ j \in Job
           /\ IsABag(lost') /\ BagToSet(lost') \subseteq BagToSet(lost)
           /\ slot' \in [Slots -> {Idle} \cup Running]
           /\ \A w \in Slots : slot'[w].busy = slot[w].busy /\ (slot[w].busy => slot'[w].job = slot[w].job)
  <1>1. CASE TakeLost(j)
    BY <1>1, BagRemove DEF TakeLost, TypeOK
  <1>2. ASSUME NEW w \in Slots, TakeRunning(w, j)
        PROVE  /\ j \in Job
               /\ IsABag(lost') /\ BagToSet(lost') \subseteq BagToSet(lost)
               /\ slot' \in [Slots -> {Idle} \cup Running]
               /\ \A v \in Slots : slot'[v].busy = slot[v].busy /\ (slot[v].busy => slot'[v].job = slot[v].job)
    <2>1. slot[w] \in Running /\ j \in Job
      BY <1>2, SlotJob DEF TakeRunning
    <2>2. [slot[w] EXCEPT !.owned = FALSE] \in Running
      BY <2>1 DEF Running
    <2>3. slot' = [slot EXCEPT ![w] = [slot[w] EXCEPT !.owned = FALSE]]
      BY <1>2 DEF TakeRunning
    <2>4. [slot[w] EXCEPT !.owned = FALSE].busy = slot[w].busy
            /\ [slot[w] EXCEPT !.owned = FALSE].job = slot[w].job
      BY <2>1 DEF Running
    <2>5. slot' \in [Slots -> {Idle} \cup Running]
      BY <2>2, <2>3 DEF TypeOK
    <2>6. \A v \in Slots : slot'[v].busy = slot[v].busy /\ (slot[v].busy => slot'[v].job = slot[v].job)
      BY <2>3, <2>4 DEF TypeOK
    <2> QED BY <1>2, <2>1, <2>5, <2>6 DEF TakeRunning, TypeOK
  <1> QED BY <1>1, <1>2

\* Every step keeps the types.
LEMMA StepType == TypeOK /\ [Next]_vars => TypeOK'
  <1> SUFFICES ASSUME TypeOK, [Next]_vars PROVE TypeOK'
    OBVIOUS
  <1>1. ASSUME NEW s \in Submissions, Submit(s) PROVE TypeOK'
    <2>1. drops' \in Nat
      BY <1>1 DEF Submit, TypeOK
    <2>2. submitted' \in SUBSET Submissions /\ notices' \in SUBSET submitted'
      BY <1>1 DEF Submit, TypeOK
    <2> QED BY <1>1, <2>1, <2>2 DEF Submit, TypeOK
  <1>2. ASSUME NEW s \in Submissions, newSubmission(s) PROVE TypeOK'
    <2>1. Written
      BY <1>2, AdvanceType DEF newSubmission
    <2>2. notices' \in SUBSET submitted' /\ crashes' \in Nat
      BY <1>2 DEF newSubmission, advance, TypeOK
    <2> QED BY <1>2, <2>1, <2>2 DEF newSubmission, advance, Written, TypeOK
  <1>3. ASSUME NEW s \in Submissions, Sweep(s) PROVE TypeOK'
    <2>1. Written
      BY <1>3, AdvanceType DEF Sweep
    <2> QED BY <1>3, <2>1 DEF Sweep, advance, Written, TypeOK
  <1>4. ASSUME NEW s \in Submissions, Elapse(s) PROVE TypeOK'
    <2>1. [row[s] EXCEPT !.enq = "stale"] \in Row
      BY DEF TypeOK, Row
    <2>2. row' \in [Submissions -> Row]
      BY <1>4, <2>1, SetRowType DEF Elapse
    <2> QED BY <1>4, <2>2 DEF Elapse, TypeOK, queueVars, countVars
  <1>5. ASSUME NEW s \in Submissions, HandleResultOf(s) PROVE TypeOK'
    <2>1. PICK m \in BagToSet(results) : handleSubmissionResult(m)
      BY <1>5 DEF HandleResultOf
    <2>2. Written /\ IsABag(results') /\ BagToSet(results') \subseteq Result /\ crashes' \in Nat
      BY <2>1, ResultType
    <2> QED BY <2>1, <2>2 DEF handleSubmissionResult, Written, TypeOK
  <1>6. ASSUME NEW w \in Slots, Deliver(w) PROVE TypeOK'
    <2>1. PICK j \in BagToSet(waiting) :
             /\ waiting' = waiting (-) SetToBag({j})
             /\ slot' = [slot EXCEPT ![w] = [busy |-> TRUE, job |-> j, owned |-> TRUE]]
      BY <1>6 DEF Deliver
    <2>2. [busy |-> TRUE, job |-> j, owned |-> TRUE] \in Running
      BY DEF Running, TypeOK
    <2>3. slot' \in [Slots -> {Idle} \cup Running]
      BY <2>1, <2>2 DEF TypeOK
    <2>4. IsABag(waiting') /\ BagToSet(waiting') \subseteq Job
      BY <2>1, BagRemove DEF TypeOK
    <2> QED BY <1>6, <2>3, <2>4 DEF Deliver, TypeOK, dbVars, countVars
  <1>7. ASSUME NEW w \in Slots, Complete(w) PROVE TypeOK'
    <2> DEFINE j == slot[w].job
    <2>1. j \in Job
      BY <1>7, SlotJob DEF Complete
    <2>2. PICK out \in {"ok", "fail", "error"} :
             /\ results' = results (+) SetToBag({ForJob(j, out)})
             /\ IF out = "error" THEN Fail(j.sub, j.gen) ELSE UNCHANGED fails
      BY <1>7 DEF Complete
    <2>3. ForJob(j, out) \in Result
      BY <2>1, ForJobType
    <2>4. IsABag(results') /\ BagToSet(results') \subseteq Result
      BY <2>2, <2>3, BagAdd DEF TypeOK
    <2>5. fails' \in [Submissions -> 0 .. MaxAttempts]
      <3>1. j.sub \in Submissions
        BY <2>1 DEF Job
      <3> QED BY <2>2, <3>1, FailType DEF TypeOK
    <2>6. slot' \in [Slots -> {Idle} \cup Running]
      BY <1>7 DEF Complete, TypeOK
    <2> QED BY <1>7, <2>4, <2>5, <2>6 DEF Complete, TypeOK, dbVars, countVars
  <1>8. ASSUME NEW w \in Slots, Crash(w) PROVE TypeOK'
    <2>1. slot[w].job \in Job
      BY <1>8, SlotJob DEF Crash
    <2>2. IsABag(lost') /\ BagToSet(lost') \subseteq Job
      BY <1>8, <2>1, BagAdd DEF Crash, TypeOK
    <2>3. slot' \in [Slots -> {Idle} \cup Running] /\ crashes' \in Nat
      BY <1>8 DEF Crash, TypeOK
    <2> QED BY <1>8, <2>2, <2>3 DEF Crash, TypeOK, dbVars
  <1>9. CASE CheckLost
    <2>1. PICK j \in BagToSet(lost) : TakeLost(j) /\ Requeue(j)
      BY <1>9 DEF CheckLost
    <2>2. j \in Job /\ IsABag(lost') /\ BagToSet(lost') \subseteq Job
            /\ slot' \in [Slots -> {Idle} \cup Running]
      BY <2>1, TakeType DEF TypeOK
    <2> QED BY <1>9, <2>1, <2>2, RequeueType DEF CheckLost, TypeOK, dbVars
  <1>10. ASSUME NEW w \in Slots, CheckTimeout(w) PROVE TypeOK'
    <2>1. TakeRunning(w, slot[w].job) /\ Requeue(slot[w].job) /\ crashes' \in Nat
      BY <1>10 DEF CheckTimeout, TypeOK
    <2>2. slot[w].job \in Job /\ IsABag(lost') /\ BagToSet(lost') \subseteq Job
            /\ slot' \in [Slots -> {Idle} \cup Running]
      BY <2>1, TakeType DEF TypeOK
    <2> QED BY <2>1, <2>2, RequeueType DEF TypeOK, dbVars
  <1>11. CASE AdminRequeue
    <2>1. PICK j : (TakeLost(j) \/ \E w \in Slots : TakeRunning(w, j)) /\ RequeueByID(j)
      BY <1>11 DEF AdminRequeue
    <2>2. j \in Job /\ IsABag(lost') /\ BagToSet(lost') \subseteq Job
            /\ slot' \in [Slots -> {Idle} \cup Running]
      BY <2>1, TakeType DEF TypeOK
    <2> QED BY <2>1, <2>2, RequeueType DEF TypeOK, dbVars, RequeueByID, countVars
  <1>12. ASSUME NEW s \in Submissions, NEW level \in Levels, Invalidate(s, level) PROVE TypeOK'
    <2> DEFINE r == invalidated(row[s], level)
               q == [r EXCEPT !.exes = IF level = "compilation" THEN FALSE ELSE @]
    <2>1. r \in Row
      BY JudgingAssumption, RowTypes DEF TypeOK
    <2> HIDE DEF r
    <2>2. q \in Row
      BY <2>1 DEF Row
    <2>3. row' \in [Submissions -> Row]
      BY <1>12, <2>2, SetRowType DEF Invalidate, r
    <2>4. fails' \in [Submissions -> 0 .. MaxAttempts]
      BY <1>12, JudgingAssumption DEF Invalidate, TypeOK
    <2>5. evals' \in [Submissions -> [Testcases -> Nat \cup {NoEval}]]
      BY <1>12 DEF Invalidate, TypeOK, NoEvals
    <2>6. invalidations' \in Nat
      BY <1>12 DEF Invalidate, TypeOK
    <2> QED BY <1>12, <2>3, <2>4, <2>5, <2>6 DEF Invalidate, TypeOK, queueVars
  <1>13. ASSUME NEW t \in Testcases, AddTestcase(t) PROVE TypeOK'
    BY <1>13 DEF AddTestcase, TypeOK, queueVars
  <1>14. ASSUME NEW t \in Testcases, DeleteTestcase(t) PROVE TypeOK'
    <2>1. evals' \in [Submissions -> [Testcases -> Nat \cup {NoEval}]]
      BY <1>14 DEF DeleteTestcase, TypeOK
    <2> QED BY <1>14, <2>1 DEF DeleteTestcase, TypeOK, queueVars
  <1>15. CASE ReloadDataset
    BY <1>15 DEF ReloadDataset, TypeOK, dbVars, queueVars, countVars
  <1>16. CASE UNCHANGED vars
    BY <1>16 DEF vars, TypeOK, dbVars, queueVars, countVars
  <1> QED BY <1>1, <1>2, <1>3, <1>4, <1>5, <1>6, <1>7, <1>8, <1>9, <1>10, <1>11,
             <1>12, <1>13, <1>14, <1>15, <1>16 DEF Next

\* The variables always have their types: the rows the dispatcher writes,
\* and the jobs and the results the queues carry.
THEOREM TypeCorrect == Spec => []TypeOK
  BY InitType, StepType, PTL DEF Spec

(***************************************************************************)
(* How a step changes a row's generation, and where messages come from.    *)
(***************************************************************************)
\* A step keeps a row's generation, and then forgets no failed execution,
\* or starts the next generation.
GenStep(s) ==
    \/ row'[s].gen = row[s].gen /\ fails'[s] >= fails[s]
    \/ row'[s].gen = row[s].gen + 1

\* A job the dispatcher queues: a first attempt, or a retry of a result it
\* is handling.  Its row is marked as enqueued in the same transaction.
Fresh(j) ==
    /\ j.sub \in Submissions /\ j.gen = row[j.sub].gen /\ row'[j.sub].gen = row[j.sub].gen
    /\ row'[j.sub].enq = "recent" /\ fails' = fails
    /\ \/ j.attempt = 0 /\ (row'[j.sub].comp = "none" \/ row'[j.sub].exes)
       \/ \E m \in BagToSet(results) :
             /\ Current(m) /\ Failed(m)
             /\ m.sub = j.sub /\ j.attempt = m.attempt + 1

\* A job that was taken back and queued again.
Retaken(j) ==
    \E k \in Jobs : /\ j = [k EXCEPT !.attempt = @ + 1]
                    /\ Fail(k.sub, k.gen) /\ row' = row

\* A result a worker or the monitor publishes.
Published(m) ==
    /\ row' = row
    /\ \E k \in Jobs :
         \/ \E out \in {"ok", "fail", "error"} :
               /\ m = ForJob(k, out)
               /\ IF out = "error" THEN Fail(k.sub, k.gen) ELSE fails' = fails
         \/ /\ m = ForJob([k EXCEPT !.attempt = @ + 1], "lost")
            /\ Fail(k.sub, k.gen) /\ k.attempt + 1 >= MaxAttempts

\* Where a step that takes jobs from the queue leaves them.
LEMMA JobsOf ==
    ASSUME TypeOK
    PROVE  /\ Jobs \subseteq Job
           /\ \A w \in Slots : slot[w].busy => slot[w].job \in Jobs
           /\ BagToSet(waiting) \subseteq Jobs /\ BagToSet(lost) \subseteq Jobs
  BY SlotJob DEF Jobs, TypeOK

\* The jobs after a step, from the queues and slots they are in.
LEMMA JobsIn ==
    ASSUME NEW X,
           BagToSet(waiting') \subseteq X, BagToSet(lost') \subseteq X,
           \A w \in Slots : slot'[w].busy => slot'[w].job \in X
    PROVE  Jobs' \subseteq X
  BY DEF Jobs

\* A failure of the generation is counted once, unless the limit is reached.
LEMMA FailStep ==
    ASSUME TypeOK, NEW s \in Submissions, NEW gen, Fail(s, gen)
    PROVE  /\ \A t \in Submissions : fails'[t] >= fails[t]
           /\ row[s].gen = gen => fails'[s] = MaxAttempts \/ fails'[s] = fails[s] + 1
  <1>1. fails \in [Submissions -> 0 .. MaxAttempts] /\ MaxAttempts \in Nat
    BY JudgingAssumption DEF TypeOK
  <1>2. CASE fails' = fails /\ ~(row[s].gen = gen /\ fails[s] < MaxAttempts)
    BY <1>1, <1>2
  <1>3. CASE fails[s] < MaxAttempts /\ fails' = [fails EXCEPT ![s] = @ + 1]
    BY <1>1, <1>3
  <1> QED BY <1>2, <1>3 DEF Fail

\* The fields of the rows the transactions write.
LEMMA RowFields ==
    ASSUME TypeOK, NEW r \in Row
    PROVE  /\ \A what : systemError(r, what).gen = r.gen
           /\ scoreResult(r).gen = r.gen
           /\ \A ok \in BOOLEAN : compiled(r, ok).gen = r.gen
           /\ compiled(r, TRUE).exes
           /\ cached # {} => compiled(r, TRUE).enq = "recent"
           /\ invalidated(r, "compilation").gen = r.gen + 1
  <1>1. \A what : systemError(r, what).gen = r.gen
    BY DEF systemError, Row
  <1>2. \A x \in Row : scoreResult(x).gen = x.gen /\ scoreResult(x).exes = x.exes
    BY DEF scoreResult, systemError, Row
  <1>3. invalidated(r, "compilation").gen = r.gen + 1
    BY DEF invalidated, Row
  <1>4. \A ok \in BOOLEAN : compiled(r, ok).gen = r.gen
    BY DEF compiled, scoreResult, systemError, Row
  <1>5. compiled(r, TRUE).exes
    BY DEF compiled, scoreResult, systemError, Row
  <1>6. cached # {} => compiled(r, TRUE).enq = "recent"
    BY DEF compiled, Row
  <1> QED BY <1>1, <1>2, <1>3, <1>4, <1>5, <1>6

\* Judging again takes a new generation, but for a rescore.
LEMMA RowGen ==
    ASSUME NEW r \in Row, NEW level
    PROVE  invalidated(r, level).gen = IF level = "score" THEN r.gen ELSE r.gen + 1
  <1> DEFINE g == IF level = "score" THEN r.gen ELSE r.gen + 1
             c == IF level = "compilation" THEN "none" ELSE r.comp
             e == IF level = "score" THEN r.eval ELSE FALSE
  <1>1. invalidated(r, level) = [r EXCEPT !.gen = g, !.comp = c, !.eval = e,
                                   !.scored = FALSE, !.err = "none", !.enq = "never"]
    BY DEF invalidated
  <1> HIDE DEF c, e
  <1>2. invalidated(r, level).gen = g
    <2> HIDE DEF g
    <2> QED BY <1>1 DEF Row
  <1> QED BY <1>2

\* SetRow changes one row.
LEMMA SetRowAt ==
    ASSUME TypeOK, NEW s \in Submissions, NEW r, SetRow(s, r)
    PROVE  row'[s] = r /\ \A t \in Submissions \ {s} : row'[t] = row[t]
  BY DEF SetRow, TypeOK

\* A row that keeps its generation and its count steps.
LEMMA SameGen ==
    ASSUME TypeOK, NEW s \in Submissions, NEW r, SetRow(s, r), r.gen = row[s].gen, fails' = fails
    PROVE  \A t \in Submissions : GenStep(t)
  <1>1. \A t \in Submissions : fails[t] >= fails[t]
    BY JudgingAssumption DEF TypeOK
  <1> QED BY <1>1, SetRowAt DEF GenStep

\* The jobs of a first attempt are fresh.
LEMMA FirstJobs ==
    ASSUME TypeOK, NEW s \in Submissions, fails' = fails, row'[s].gen = row[s].gen,
           row'[s].enq = "recent", NEW ids \in SUBSET Testcases
    PROVE  /\ row'[s].comp = "none" => Fresh(compileJob(s, 0))
           /\ row'[s].exes => \A j \in evaluateJobs(s, 0, ids) : Fresh(j)
  <1>1. Fresh(compileJob(s, 0)) \/ row'[s].comp # "none"
    BY DEF compileJob, Fresh
  <1>2. ASSUME NEW j \in evaluateJobs(s, 0, ids), row'[s].exes PROVE Fresh(j)
    <2>1. j.sub = s /\ j.gen = row[s].gen /\ j.attempt = 0
      BY JobTypes
    <2> QED BY <1>2, <2>1 DEF Fresh
  <1> QED BY <1>1, <1>2

\* What a step on one row leaves in the queue.
Queued == \A j \in BagToSet(waiting') : j \in BagToSet(waiting) \/ Fresh(j)

\* Nothing was enqueued.
LEMMA NoJobsQueued ==
    ASSUME NoJobs
    PROVE  Queued
  BY DEF NoJobs, Queued

\* What was enqueued is new.
LEMMA ApplyQueued ==
    ASSUME TypeOK, NEW jobs, apply(jobs), \A j \in jobs : Fresh(j)
    PROVE  Queued
  BY ApplyAdds DEF TypeOK, Queued

\* A stored compilation enqueues first attempts of its generation.
LEMMA CompilationStep ==
    ASSUME TypeOK, NEW s \in Submissions, NEW r \in Row, r.gen = row[s].gen,
           NEW ok \in BOOLEAN, applyCompilation(s, r, ok)
    PROVE  Queued /\ \A t \in Submissions : GenStep(t)
  <1>1. SetRow(s, compiled(r, ok)) /\ fails' = fails /\ compiled(r, ok).gen = row[s].gen
    BY RowFields DEF applyCompilation
  <1>2. \A t \in Submissions : GenStep(t)
    BY <1>1, SameGen
  <1>3. row'[s] = compiled(r, ok)
    BY <1>1, SetRowAt
  <1>4. CASE ok = TRUE
    <2>1. row'[s].exes /\ row'[s].gen = row[s].gen
      BY <1>1, <1>3, <1>4, RowFields
    <2>2. \A j \in evaluateJobs(s, 0, cached) : Fresh(j)
      <3>1. CASE cached = {}
        BY <3>1 DEF evaluateJobs, Groups
      <3>2. CASE cached # {}
        BY <1>1, <1>3, <1>4, <2>1, <3>2, FirstJobs, RowFields DEF TypeOK
      <3> QED BY <3>1, <3>2
    <2>3. apply(evaluateJobs(s, 0, cached))
      BY <1>4 DEF applyCompilation
    <2> QED BY <1>2, <2>2, <2>3, ApplyQueued
  <1>5. CASE ok = FALSE
    BY <1>2, <1>5, NoJobsQueued DEF applyCompilation
  <1> QED BY <1>4, <1>5

\* So does advancing a submission.
LEMMA AdvanceStep ==
    ASSUME TypeOK, NEW s \in Submissions, advance(s)
    PROVE  Queued /\ \A t \in Submissions : GenStep(t)
  <1> DEFINE r == [row[s] EXCEPT !.exists = TRUE]
  <1>1. row[s] \in Row
    BY DEF TypeOK
  <1>2. r \in Row /\ r.gen = row[s].gen /\ r.comp = row[s].comp /\ r.exes = row[s].exes
    BY <1>1 DEF Row
  <1> HIDE DEF r
  <1>3. [r EXCEPT !.enq = "recent"] \in Row /\ [r EXCEPT !.enq = "recent"].gen = row[s].gen
          /\ [r EXCEPT !.enq = "recent"].comp = r.comp /\ [r EXCEPT !.enq = "recent"].exes = r.exes
          /\ [r EXCEPT !.enq = "recent"].enq = "recent" /\ [r EXCEPT !.scored = TRUE].gen = row[s].gen
    BY <1>2 DEF Row
  <1>4. systemError(r, "load").gen = row[s].gen /\ scoreResult(r).gen = row[s].gen
          /\ invalidated(r, "compilation").gen = row[s].gen + 1
    <2>1. systemError(r, "load").gen = r.gen
      BY <1>2 DEF systemError, Row
    <2>2. scoreResult(r).gen = r.gen
      BY <1>2 DEF scoreResult, systemError, Row
    <2>3. invalidated(r, "compilation").gen = r.gen + 1
      BY <1>2 DEF invalidated, Row
    <2> QED BY <1>2, <2>1, <2>2, <2>3
  <1>a. CASE advanceFinished(s, r)
    BY <1>a, <1>2, SameGen, NoJobsQueued DEF advanceFinished
  <1>b. CASE advanceLoadError(s, r)
    BY <1>b, <1>4, SameGen, NoJobsQueued DEF advanceLoadError
  <1>c. CASE advanceCompile(s, r)
    <2>1. row'[s].comp = "none" /\ row'[s].gen = row[s].gen /\ row'[s].enq = "recent" /\ fails' = fails
      BY <1>c, <1>3, SetRowAt DEF advanceCompile
    <2>2. Fresh(compileJob(s, 0))
      BY <2>1, FirstJobs
    <2>3. Queued
      BY <1>c, <2>2, ApplyQueued DEF advanceCompile
    <2> QED BY <1>c, <1>3, <2>3, SameGen DEF advanceCompile
  <1>d. CASE advanceCacheHit(s, r)
    BY <1>d, <1>3, CompilationStep DEF advanceCacheHit
  <1>e. CASE advanceCompilationFailed(s, r)
    BY <1>e, <1>3, SameGen, NoJobsQueued DEF advanceCompilationFailed
  <1>f. CASE advanceEvaluate(s, r)
    <2> DEFINE missing == cached \ Evaluated(evals[s])
    <2>1. missing \in SUBSET Testcases
      BY DEF TypeOK
    <2> HIDE DEF missing
    <2>2. CASE r.exes /\ SetRow(s, [r EXCEPT !.enq = "recent"]) /\ apply(evaluateJobs(s, 0, missing))
                 /\ UNCHANGED fails
      <3>1. row'[s].exes /\ row'[s].gen = row[s].gen /\ row'[s].enq = "recent"
        BY <2>2, <1>3, SetRowAt
      <3>2. \A j \in evaluateJobs(s, 0, missing) : Fresh(j)
        BY <2>1, <2>2, <3>1, FirstJobs
      <3> QED BY <2>2, <3>2, <1>3, SameGen, ApplyQueued
    <2>3. CASE SetRow(s, invalidated(r, "compilation")) /\ fails' = [fails EXCEPT ![s] = 0] /\ NoJobs
      <3>1. row'[s].gen = row[s].gen + 1 /\ \A t \in Submissions \ {s} : row'[t] = row[t]
        BY <2>3, <1>4, SetRowAt
      <3>2. \A t \in Submissions \ {s} : fails'[t] = fails[t] /\ fails[t] >= fails[t]
        BY <2>3, JudgingAssumption DEF TypeOK
      <3> QED BY <2>3, <3>1, <3>2, NoJobsQueued DEF GenStep
    <2> QED BY <1>f, <2>2, <2>3 DEF advanceEvaluate, missing
  <1>g. CASE advanceScore(s, r)
    BY <1>g, <1>4, SameGen, NoJobsQueued DEF advanceScore
  <1> QED BY <1>a, <1>b, <1>c, <1>d, <1>e, <1>f, <1>g DEF advance, r

\* So does a result, or it enqueues one more attempt of its job.
LEMMA ResultStep ==
    ASSUME TypeOK, NEW m \in BagToSet(results), handleSubmissionResult(m)
    PROVE  Queued /\ \A t \in Submissions : GenStep(t)
  <1> DEFINE s == m.sub
  <1>1. m \in Result
    BY DEF TypeOK
  <1>2. s \in Submissions /\ m.attempt + 1 \in Nat /\ m.tcs \in SUBSET Testcases
    BY <1>1 DEF Result
  <1>3. row[s] \in Row
    BY <1>2 DEF TypeOK
  <1>4. [row[s] EXCEPT !.enq = "recent"].gen = row[s].gen /\ [row[s] EXCEPT !.enq = "recent"].enq = "recent"
    BY <1>3 DEF Row
  <1>5. systemError(row[s], "load").gen = row[s].gen /\ scoreResult(row[s]).gen = row[s].gen
          /\ systemError(row[s], m.kind).gen = row[s].gen
    BY <1>3, RowFields
  <1> HIDE DEF s
  <1>a. CASE resultStale(m)
    <2>1. \A t \in Submissions : fails[t] >= fails[t]
      BY JudgingAssumption DEF TypeOK
    <2> QED BY <1>a, <2>1, NoJobsQueued DEF resultStale, GenStep
  <1>b. CASE resultLoadError(m)
    BY <1>b, <1>2, <1>5, SameGen, NoJobsQueued DEF resultLoadError, s
  <1>c. CASE retryOrFail(m)
    <2>1. CASE SetRow(s, systemError(row[s], m.kind)) /\ NoJobs /\ fails' = fails
      BY <2>1, <1>2, <1>5, SameGen, NoJobsQueued
    <2>2. ASSUME SetRow(s, [row[s] EXCEPT !.enq = "recent"]), fails' = fails, Current(m), Failed(m),
                 NEW jobs, apply(jobs),
                 jobs = {compileJob(s, m.attempt + 1)} \/ jobs = evaluateJobs(s, m.attempt + 1, m.tcs)
          PROVE  Queued /\ \A t \in Submissions : GenStep(t)
      <3>1. row'[s].gen = row[s].gen /\ row'[s].enq = "recent"
        BY <2>2, <1>2, <1>4, SetRowAt
      <3>2. \A j \in jobs : j.sub = s /\ j.gen = row[s].gen /\ j.attempt = m.attempt + 1
        <4>1. CASE jobs = {compileJob(s, m.attempt + 1)}
          BY <4>1 DEF compileJob
        <4>2. CASE jobs = evaluateJobs(s, m.attempt + 1, m.tcs)
          BY <4>2, <1>2, JobTypes
        <4> QED BY <2>2, <4>1, <4>2
      <3>3. \A j \in jobs : Fresh(j)
        BY <2>2, <3>1, <3>2, <1>2 DEF Fresh, s
      <3> QED BY <2>2, <3>3, <1>2, <1>4, SameGen, ApplyQueued
    <2> QED BY <1>c, <2>1, <2>2 DEF retryOrFail, s
  <1>d. CASE resultCompilation(m)
    BY <1>d, <1>2, <1>3, CompilationStep DEF resultCompilation, s
  <1>e. CASE applyEvaluations(m)
    <2>1. \E r : SetRow(s, r) /\ r.gen = row[s].gen
      BY <1>e, <1>5 DEF applyEvaluations, s
    <2> QED BY <1>e, <2>1, <1>2, SameGen, NoJobsQueued DEF applyEvaluations
  <1> QED BY <1>a, <1>b, <1>c, <1>d, <1>e DEF handleSubmissionResult

\* What every step does to the generations, and where the jobs and the
\* results it leaves come from.
Origins ==
    /\ \A s \in Submissions : GenStep(s)
    /\ \A j \in Jobs' : j \in Jobs \/ Fresh(j) \/ Retaken(j)
    /\ \A m \in BagToSet(results') : m \in BagToSet(results) \/ Published(m)

\* A step that leaves the rows and the counts alone, and the messages too.
LEMMA QuietOrigins ==
    ASSUME TypeOK, row' = row, fails' = fails, Jobs' \subseteq Jobs, results' = results
    PROVE  Origins
  <1>1. \A s \in Submissions : fails[s] >= fails[s]
    BY JudgingAssumption DEF TypeOK
  <1> QED BY <1>1 DEF Origins, GenStep

\* A job taken back by the monitor is enqueued as it was.
LEMMA RequeueOrigins ==
    ASSUME TypeOK, NEW j,
           TakeLost(j) \/ \E w \in Slots : TakeRunning(w, j),
           Requeue(j) \/ RequeueByID(j)
    PROVE  Origins
  <1> DEFINE k == [j EXCEPT !.attempt = @ + 1]
  <1>1. j \in Jobs
    BY JobsOf DEF TakeLost, TakeRunning
  <1>2. j \in Job /\ j.sub \in Submissions
    BY TakeType DEF Job
  <1>3. Fail(j.sub, j.gen) /\ row' = row
    BY DEF Requeue, RequeueByID, dbVars
  <1>4. \A s \in Submissions : GenStep(s)
    BY <1>2, <1>3, FailStep DEF GenStep
  <1>5. BagToSet(waiting') \subseteq Jobs \cup {k}
    <2>1. CASE waiting' = waiting (+) SetToBag({k})
      BY <2>1, BagAdd, JobsOf DEF TypeOK
    <2>2. CASE waiting' = waiting
      BY <2>2, JobsOf
    <2> QED BY <2>1, <2>2 DEF Requeue, RequeueByID
  <1>6. BagToSet(lost') \subseteq Jobs \cup {k}
    BY TakeType, JobsOf
  <1>7. \A w \in Slots : slot'[w].busy => slot'[w].job \in Jobs \cup {k}
    BY TakeType, JobsOf
  <1>8. Jobs' \subseteq Jobs \cup {k}
    BY <1>5, <1>6, <1>7, JobsIn
  <1>9. Retaken(k)
    BY <1>1, <1>3 DEF Retaken
  <1>10. \A m \in BagToSet(results') : m \in BagToSet(results) \/ Published(m)
    <2>1. CASE results' = results
      BY <2>1
    <2>2. CASE k.attempt >= MaxAttempts /\ results' = results (+) SetToBag({ForJob(k, "lost")})
      <3>1. k.attempt = j.attempt + 1
        BY <1>2 DEF Job
      <3>2. Published(ForJob(k, "lost"))
        BY <1>1, <1>3, <2>2, <3>1 DEF Published
      <3> QED BY <2>2, <3>2, BagAdd DEF TypeOK
    <2> QED BY <2>1, <2>2 DEF Requeue, RequeueByID
  <1> QED BY <1>4, <1>8, <1>9, <1>10 DEF Origins

\* Every message comes from one that was there, or is new.
LEMMA StepOrigins ==
    ASSUME TypeOK, [Next]_vars
    PROVE  Origins
  <1>0. ASSUME Queued, slot' = slot, lost' = lost,
               \A t \in Submissions : GenStep(t), BagToSet(results') \subseteq BagToSet(results)
        PROVE  Origins
    <2> DEFINE X == Jobs \cup {j \in BagToSet(waiting') : Fresh(j)}
    <2>1. BagToSet(waiting') \subseteq X /\ BagToSet(lost') \subseteq X
      BY <1>0, JobsOf DEF Queued
    <2>2. \A w \in Slots : slot'[w].busy => slot'[w].job \in X
      BY <1>0, JobsOf
    <2>3. Jobs' \subseteq X
      BY <2>1, <2>2, JobsIn
    <2> QED BY <1>0, <2>3 DEF Origins
  <1>1. ASSUME NEW s \in Submissions, Submit(s) PROVE Origins
    BY <1>1, QuietOrigins DEF Submit, Jobs
  <1>2. ASSUME NEW s \in Submissions, newSubmission(s) PROVE Origins
    <2>1. advance(s)
      BY <1>2 DEF newSubmission
    <2> QED BY <2>1, <1>0, AdvanceStep DEF advance
  <1>3. ASSUME NEW s \in Submissions, Sweep(s) PROVE Origins
    <2>1. advance(s)
      BY <1>3 DEF Sweep
    <2> QED BY <2>1, <1>0, AdvanceStep DEF advance
  <1>4. ASSUME NEW s \in Submissions, Elapse(s) PROVE Origins
    <2>1. [row[s] EXCEPT !.enq = "stale"].gen = row[s].gen
      BY DEF TypeOK, Row
    <2>2. \A t \in Submissions : GenStep(t)
      BY <1>4, <2>1, SameGen DEF Elapse
    <2> QED BY <1>4, <2>2 DEF Elapse, queueVars, Origins, Jobs
  <1>5. ASSUME NEW s \in Submissions, HandleResultOf(s) PROVE Origins
    <2>1. PICK m \in BagToSet(results) : handleSubmissionResult(m)
      BY <1>5 DEF HandleResultOf
    <2>2. BagToSet(results') \subseteq BagToSet(results)
      BY <2>1, BagRemove DEF handleSubmissionResult, AckResults, TypeOK
    <2> QED BY <2>1, <2>2, <1>0, ResultStep DEF handleSubmissionResult
  <1>6. ASSUME NEW w \in Slots, Deliver(w) PROVE Origins
    <2>1. PICK j \in BagToSet(waiting) :
             /\ waiting' = waiting (-) SetToBag({j})
             /\ slot' = [slot EXCEPT ![w] = [busy |-> TRUE, job |-> j, owned |-> TRUE]]
      BY <1>6 DEF Deliver
    <2>2. BagToSet(waiting') \subseteq Jobs /\ BagToSet(lost') \subseteq Jobs
      BY <1>6, <2>1, BagRemove, JobsOf DEF Deliver, TypeOK
    <2>3. \A v \in Slots : slot'[v].busy => slot'[v].job \in Jobs
      BY <2>1, JobsOf DEF TypeOK
    <2>4. Jobs' \subseteq Jobs
      BY <2>2, <2>3, JobsIn
    <2> QED BY <1>6, <2>4, QuietOrigins DEF Deliver, dbVars
  <1>7. ASSUME NEW w \in Slots, Complete(w) PROVE Origins
    <2> DEFINE j == slot[w].job
    <2>1. j \in Job /\ j \in Jobs /\ j.sub \in Submissions
      BY <1>7, JobsOf DEF Complete, Job
    <2>2. PICK out \in {"ok", "fail", "error"} :
             /\ results' = results (+) SetToBag({ForJob(j, out)})
             /\ IF out = "error" THEN Fail(j.sub, j.gen) ELSE UNCHANGED fails
      BY <1>7 DEF Complete
    <2>3. row' = row
      BY <1>7 DEF Complete, dbVars
    <2>4. \A s \in Submissions : fails[s] >= fails[s]
      BY JudgingAssumption DEF TypeOK
    <2>5. \A s \in Submissions : GenStep(s)
      BY <2>1, <2>2, <2>3, <2>4, FailStep DEF GenStep
    <2>6. \A v \in Slots : slot'[v].busy => slot'[v].job \in Jobs
      BY <1>7, JobsOf DEF Complete, TypeOK, Idle
    <2>7. Jobs' \subseteq Jobs
      BY <1>7, <2>6, JobsOf, JobsIn DEF Complete
    <2>8. Published(ForJob(j, out))
      BY <2>1, <2>2, <2>3 DEF Published
    <2> QED BY <2>2, <2>5, <2>7, <2>8, BagAdd DEF Origins, TypeOK
  <1>8. ASSUME NEW w \in Slots, Crash(w) PROVE Origins
    <2>1. slot[w].job \in Jobs
      BY <1>8, JobsOf DEF Crash
    <2>2. BagToSet(lost') \subseteq Jobs
      BY <1>8, <2>1, JobsOf, BagAdd DEF Crash, TypeOK
    <2>3. \A v \in Slots : slot'[v].busy => slot'[v].job \in Jobs
      BY <1>8, JobsOf DEF Crash, TypeOK, Idle
    <2>4. Jobs' \subseteq Jobs
      BY <1>8, <2>2, <2>3, JobsOf, JobsIn DEF Crash
    <2> QED BY <1>8, <2>4, QuietOrigins DEF Crash, dbVars
  <1>9. CASE CheckLost
    BY <1>9, RequeueOrigins DEF CheckLost
  <1>10. ASSUME NEW w \in Slots, CheckTimeout(w) PROVE Origins
    BY <1>10, RequeueOrigins DEF CheckTimeout
  <1>11. CASE AdminRequeue
    BY <1>11, RequeueOrigins DEF AdminRequeue
  <1>12. ASSUME NEW s \in Submissions, NEW level \in Levels, Invalidate(s, level) PROVE Origins
    <2> DEFINE r == invalidated(row[s], level)
               q == [r EXCEPT !.exes = IF level = "compilation" THEN FALSE ELSE @]
    <2>1. r \in Row /\ r.gen = IF level = "score" THEN row[s].gen ELSE row[s].gen + 1
      <3>1. row[s] \in Row /\ level \in {"compilation", "evaluation", "score"}
        BY JudgingAssumption DEF TypeOK
      <3>2. r \in Row
        BY <3>1, RowTypes
      <3>3. row[s].gen \in Nat
        BY <3>1 DEF Row
      <3>4. r.gen = IF level = "score" THEN row[s].gen ELSE row[s].gen + 1
        BY <3>1, <3>3, RowGen
      <3> QED BY <3>2, <3>4
    <2> HIDE DEF r
    <2>2. q.gen = r.gen
      BY <2>1 DEF Row
    <2>3. row'[s] = q /\ \A t \in Submissions \ {s} : row'[t] = row[t]
      BY <1>12, SetRowAt DEF Invalidate, r
    <2> HIDE DEF q
    <2>4. \A t \in Submissions : fails[t] >= fails[t]
      BY JudgingAssumption DEF TypeOK
    <2>5. \A t \in Submissions \ {s} : fails'[t] = fails[t]
      BY <1>12 DEF Invalidate, TypeOK
    <2>6. level = "score" => fails' = fails
      BY <1>12 DEF Invalidate
    <2>7. \A t \in Submissions : GenStep(t)
      BY <2>1, <2>2, <2>3, <2>4, <2>5, <2>6 DEF GenStep
    <2> QED BY <1>12, <2>7 DEF Invalidate, queueVars, Origins, Jobs
  <1>13. ASSUME NEW t \in Testcases, AddTestcase(t) \/ DeleteTestcase(t) PROVE Origins
    BY <1>13, QuietOrigins DEF AddTestcase, DeleteTestcase, queueVars, Jobs
  <1>14. CASE ReloadDataset \/ UNCHANGED vars
    BY <1>14, QuietOrigins DEF ReloadDataset, vars, dbVars, queueVars, Jobs
  <1> QED BY <1>1, <1>2, <1>3, <1>4, <1>5, <1>6, <1>7, <1>8, <1>9, <1>10, <1>11,
             <1>12, <1>13, <1>14 DEF Next

(***************************************************************************)
(* The attempts a message carries are backed by failed executions.         *)
(***************************************************************************)
\* No job and no result is of a generation its row has not reached.
NoFuture == \A m \in Outstanding : m.gen <= row[m.sub].gen

\* The row of s has seen n failed executions, or as many as it may.
Enough(s, n) == fails[s] >= n \/ fails[s] = MaxAttempts

AttemptsEarned ==
    /\ \A j \in Jobs : j.gen = row[j.sub].gen => Enough(j.sub, j.attempt)
    /\ \A m \in BagToSet(results) : m.gen = row[m.sub].gen /\ Failed(m) => Enough(m.sub, m.attempt + 1)

\* The inductive invariant of SystemErrorEarned.
AttemptsInv == TypeOK /\ NoFuture /\ AttemptsEarned /\ SystemErrorEarned

\* The error the transactions leave in a row.
LEMMA RowErrors ==
    ASSUME NEW r \in Row
    PROVE  /\ \A what : systemError(r, what).err = what
           /\ scoreResult(r).err \in {r.err, "score"}
           /\ \A ok \in BOOLEAN : compiled(r, ok).err \in {r.err, "score"}
           /\ \A level : invalidated(r, level).err = "none"
  <1>1. \A what : systemError(r, what).err = what
    BY DEF systemError, Row
  <1>2. scoreResult(r).err \in {r.err, "score"}
    BY DEF scoreResult, systemError, Row
  <1>3. \A ok \in BOOLEAN : compiled(r, ok).err \in {r.err, "score"}
    BY DEF compiled, scoreResult, systemError, Row
  <1>4. \A level : invalidated(r, level).err = "none"
    BY DEF invalidated, Row
  <1> QED BY <1>1, <1>2, <1>3, <1>4

\* A row whose error is kept or is not of a job.
LEMMA KeepErrors ==
    ASSUME TypeOK, SystemErrorEarned, NEW s \in Submissions, NEW r, SetRow(s, r), fails' = fails,
           r.err \in {row[s].err, "none", "load", "score"}
    PROVE  SystemErrorEarned'
  BY SetRowAt DEF SystemErrorEarned, Kinds

\* Advancing leaves every system error earned.
LEMMA AdvanceErrors ==
    ASSUME TypeOK, SystemErrorEarned, NEW s \in Submissions, advance(s)
    PROVE  SystemErrorEarned'
  <1> DEFINE r == [row[s] EXCEPT !.exists = TRUE]
  <1>1. row[s] \in Row
    BY DEF TypeOK
  <1>2. r \in Row /\ r.err = row[s].err
    BY <1>1 DEF Row
  <1> HIDE DEF r
  <1>3. [r EXCEPT !.enq = "recent"] \in Row /\ [r EXCEPT !.enq = "recent"].err = row[s].err
          /\ [r EXCEPT !.scored = TRUE].err = row[s].err
    BY <1>2 DEF Row
  <1>4. systemError(r, "load").err = "load" /\ scoreResult(r).err \in {row[s].err, "score"}
          /\ invalidated(r, "compilation").err = "none"
          /\ compiled([r EXCEPT !.enq = "recent"], TRUE).err \in {row[s].err, "score"}
    BY <1>2, <1>3, RowErrors
  <1>a. CASE advanceFinished(s, r) \/ advanceLoadError(s, r) \/ advanceCompile(s, r)
               \/ advanceCompilationFailed(s, r) \/ advanceScore(s, r)
    BY <1>a, <1>2, <1>3, <1>4, KeepErrors
       DEF advanceFinished, advanceLoadError, advanceCompile, advanceCompilationFailed, advanceScore
  <1>d. CASE advanceCacheHit(s, r)
    BY <1>d, <1>4, KeepErrors DEF advanceCacheHit, applyCompilation
  <1>f. CASE advanceEvaluate(s, r)
    <2>1. CASE SetRow(s, [r EXCEPT !.enq = "recent"]) /\ UNCHANGED fails
      BY <2>1, <1>3, KeepErrors
    <2>2. CASE SetRow(s, invalidated(r, "compilation")) /\ fails' = [fails EXCEPT ![s] = 0]
      BY <2>2, <1>4, SetRowAt DEF SystemErrorEarned, Kinds, TypeOK
    <2> QED BY <1>f, <2>1, <2>2 DEF advanceEvaluate
  <1> QED BY <1>a, <1>d, <1>f DEF advance, r

\* A result gives up only once the attempts are used up.
LEMMA ResultErrors ==
    ASSUME AttemptsInv, NEW m \in BagToSet(results), handleSubmissionResult(m)
    PROVE  SystemErrorEarned'
  <1> DEFINE s == m.sub
  <1>1. TypeOK /\ SystemErrorEarned /\ s \in Submissions /\ row[s] \in Row /\ m.attempt \in Nat
    BY DEF AttemptsInv, TypeOK, Result
  <1>2. [row[s] EXCEPT !.enq = "recent"].err = row[s].err
    BY <1>1 DEF Row
  <1>3. systemError(row[s], "load").err = "load" /\ scoreResult(row[s]).err \in {row[s].err, "score"}
          /\ \A ok \in BOOLEAN : compiled(row[s], ok).err \in {row[s].err, "score"}
    BY <1>1, RowErrors
  <1> HIDE DEF s
  <1>a. CASE resultStale(m)
    BY <1>a, <1>1 DEF resultStale, SystemErrorEarned
  <1>b. CASE resultLoadError(m)
    BY <1>b, <1>1, <1>3, KeepErrors DEF resultLoadError, s
  <1>c. CASE retryOrFail(m)
    <2>1. CASE SetRow(s, [row[s] EXCEPT !.enq = "recent"]) /\ fails' = fails
      BY <2>1, <1>1, <1>2, KeepErrors
    <2>2. CASE m.attempt + 1 >= MaxAttempts /\ SetRow(s, systemError(row[s], m.kind)) /\ fails' = fails
      <3>1. Enough(s, m.attempt + 1)
        BY <1>c DEF AttemptsInv, AttemptsEarned, retryOrFail, Current, s
      <3>2. fails[s] >= MaxAttempts
        BY <2>2, <3>1, <1>1, JudgingAssumption DEF Enough, TypeOK
      <3> QED BY <2>2, <3>2, <1>1, SetRowAt DEF SystemErrorEarned
    <2> QED BY <1>c, <2>1, <2>2 DEF retryOrFail, s
  <1>d. CASE resultCompilation(m)
    BY <1>d, <1>1, <1>3, KeepErrors DEF resultCompilation, applyCompilation, s
  <1>e. CASE applyEvaluations(m)
    <2>1. \E r : SetRow(s, r) /\ r.err \in {row[s].err, "score"}
      BY <1>e, <1>3 DEF applyEvaluations, s
    <2> QED BY <1>e, <2>1, <1>1, KeepErrors DEF applyEvaluations
  <1> QED BY <1>a, <1>b, <1>c, <1>d, <1>e DEF handleSubmissionResult

\* So does every step.
LEMMA StepErrors ==
    ASSUME AttemptsInv, [Next]_vars
    PROVE  SystemErrorEarned'
  <1>1. TypeOK /\ TypeOK' /\ SystemErrorEarned
    BY StepType DEF AttemptsInv
  <1>2. CASE row' = row /\ \A s \in Submissions : fails'[s] >= fails[s]
    <2>1. \A s \in Submissions : fails[s] \in 0 .. MaxAttempts /\ fails'[s] \in 0 .. MaxAttempts
      BY <1>1 DEF TypeOK
    <2> QED BY <1>1, <1>2, <2>1, JudgingAssumption DEF SystemErrorEarned
  <1>3. \A s \in Submissions : fails[s] >= fails[s]
    BY <1>1, JudgingAssumption DEF TypeOK
  <1>4. ASSUME NEW j \in Job, Requeue(j) \/ RequeueByID(j) PROVE SystemErrorEarned'
    <2>1. j.sub \in Submissions
      BY DEF Job
    <2> QED BY <1>1, <1>2, <1>4, <2>1, FailStep DEF Requeue, RequeueByID, dbVars
  <1>a. CASE \E s \in Submissions : newSubmission(s) \/ Sweep(s)
    BY <1>a, <1>1, AdvanceErrors DEF newSubmission, Sweep
  <1>b. CASE \E s \in Submissions : Elapse(s)
    <2>1. \A s \in Submissions : [row[s] EXCEPT !.enq = "stale"].err = row[s].err
      BY <1>1 DEF TypeOK, Row
    <2> QED BY <1>b, <1>1, <2>1, KeepErrors DEF Elapse
  <1>c. CASE \E s \in Submissions : HandleResultOf(s)
    BY <1>c, ResultErrors DEF HandleResultOf
  <1>d. CASE \E w \in Slots : Complete(w)
    <2>1. PICK w \in Slots : Complete(w)
      BY <1>d
    <2>2. slot[w].job.sub \in Submissions
      BY <2>1, <1>1, SlotJob DEF Complete, Job
    <2>3. row' = row /\ (Fail(slot[w].job.sub, slot[w].job.gen) \/ fails' = fails)
      BY <2>1 DEF Complete, dbVars
    <2> QED BY <1>1, <1>2, <1>3, <2>2, <2>3, FailStep
  <1>e. CASE CheckLost \/ AdminRequeue \/ \E w \in Slots : CheckTimeout(w)
    <2>1. PICK j : (TakeLost(j) \/ \E w \in Slots : TakeRunning(w, j)) /\ (Requeue(j) \/ RequeueByID(j))
      BY <1>e DEF CheckLost, AdminRequeue, CheckTimeout
    <2> QED BY <1>1, <1>4, <2>1, TakeType
  <1>f. ASSUME NEW s \in Submissions, NEW level \in Levels, Invalidate(s, level) PROVE SystemErrorEarned'
    <2> DEFINE r == invalidated(row[s], level)
               q == [r EXCEPT !.exes = IF level = "compilation" THEN FALSE ELSE @]
    <2>1. r \in Row /\ r.err = "none"
      BY <1>1, JudgingAssumption, RowTypes, RowErrors DEF TypeOK
    <2> HIDE DEF r
    <2>2. q.err = "none"
      BY <2>1 DEF Row
    <2>3. row'[s] = q /\ \A t \in Submissions \ {s} : row'[t] = row[t]
      BY <1>f, <1>1, SetRowAt DEF Invalidate, r
    <2> HIDE DEF q
    <2>4. \A t \in Submissions \ {s} : fails'[t] = fails[t]
      BY <1>f, <1>1 DEF Invalidate, TypeOK
    <2> QED BY <1>1, <2>2, <2>3, <2>4 DEF SystemErrorEarned, Kinds
  <1>g. CASE UNCHANGED <<row, fails>>
    BY <1>g, <1>2, <1>3
  <1> QED BY <1>a, <1>b, <1>c, <1>d, <1>e, <1>f, <1>g
          DEF Next, vars, dbVars, Submit, Deliver, Crash, AddTestcase, DeleteTestcase, ReloadDataset

\* Every step keeps the count of failures above the attempts.
LEMMA StepAttempts == AttemptsInv /\ [Next]_vars => AttemptsInv'
  <1> SUFFICES ASSUME AttemptsInv, [Next]_vars PROVE AttemptsInv'
    OBVIOUS
  <1>1. TypeOK /\ TypeOK' /\ Origins
    BY StepType, StepOrigins DEF AttemptsInv
  <1>2. \A s \in Submissions : /\ row[s].gen \in Nat /\ row'[s].gen \in Nat
                               /\ fails[s] \in 0 .. MaxAttempts /\ fails'[s] \in 0 .. MaxAttempts
    BY <1>1 DEF TypeOK, Row
  <1>3. MaxAttempts \in Nat
    BY JudgingAssumption
  <1>4. \A j \in Jobs : j.sub \in Submissions /\ j.gen \in Nat /\ j.attempt \in Nat
    BY <1>1, JobsOf DEF Job
  <1>5. \A m \in BagToSet(results) : m.sub \in Submissions /\ m.gen \in Nat /\ m.attempt \in Nat
    BY <1>1 DEF TypeOK, Result
  <1>6. ASSUME NEW s \in Submissions, NEW g \in Nat, NEW n \in Nat,
               g <= row[s].gen, g = row[s].gen => Enough(s, n)
        PROVE  g <= row'[s].gen /\ (g = row'[s].gen => Enough(s, n)')
    <2>1. GenStep(s)
      BY <1>1 DEF Origins
    <2> QED BY <1>2, <1>3, <1>6, <2>1 DEF GenStep, Enough
  <1>7. ASSUME NEW j \in Jobs'
        PROVE  j.gen <= row'[j.sub].gen /\ (j.gen = row'[j.sub].gen => Enough(j.sub, j.attempt)')
    <2>1. CASE j \in Jobs
      BY <2>1, <1>4, <1>6 DEF AttemptsInv, NoFuture, AttemptsEarned, Outstanding
    <2>2. CASE Fresh(j)
      <3>1. CASE j.attempt = 0
        BY <2>2, <3>1, <1>2, <1>3 DEF Fresh, Enough
      <3>2. CASE \E m \in BagToSet(results) : Current(m) /\ Failed(m) /\ m.sub = j.sub /\ j.attempt = m.attempt + 1
        <4>1. PICK m \in BagToSet(results) : Current(m) /\ Failed(m) /\ m.sub = j.sub /\ j.attempt = m.attempt + 1
          BY <3>2
        <4>2. Enough(j.sub, j.attempt)
          BY <4>1 DEF AttemptsInv, AttemptsEarned, Current
        <4> QED BY <2>2, <4>2, <1>2 DEF Fresh, Enough
      <3> QED BY <2>2, <3>1, <3>2 DEF Fresh
    <2>3. CASE Retaken(j)
      <3>1. PICK k \in Jobs : j = [k EXCEPT !.attempt = @ + 1] /\ Fail(k.sub, k.gen) /\ row' = row
        BY <2>3 DEF Retaken
      <3>2. j.sub = k.sub /\ j.gen = k.gen /\ j.attempt = k.attempt + 1
        BY <1>1, <3>1, JobsOf DEF Job
      <3>3. k.gen <= row[k.sub].gen /\ (k.gen = row[k.sub].gen => Enough(k.sub, k.attempt))
        BY DEF AttemptsInv, NoFuture, AttemptsEarned, Outstanding
      <3>4. k.gen = row[k.sub].gen => fails'[k.sub] = MaxAttempts \/ fails'[k.sub] = fails[k.sub] + 1
        BY <1>1, <1>4, <3>1, FailStep
      <3> QED BY <3>1, <3>2, <3>3, <3>4, <1>2, <1>3, <1>4 DEF Enough
    <2> QED BY <1>1, <2>1, <2>2, <2>3 DEF Origins
  <1>8. ASSUME NEW m \in BagToSet(results')
        PROVE  m.gen <= row'[m.sub].gen
                 /\ (m.gen = row'[m.sub].gen /\ Failed(m) => Enough(m.sub, m.attempt + 1)')
    <2>1. CASE m \in BagToSet(results)
      <3>1. m.attempt + 1 \in Nat /\ m.gen <= row[m.sub].gen
        BY <2>1, <1>5 DEF AttemptsInv, NoFuture, Outstanding
      <3>2. CASE Failed(m)
        BY <2>1, <3>1, <3>2, <1>5, <1>6 DEF AttemptsInv, AttemptsEarned
      <3>3. CASE ~Failed(m)
        BY <2>1, <3>1, <3>3, <1>1, <1>2, <1>5 DEF Origins, GenStep
      <3> QED BY <3>2, <3>3
    <2>2. CASE Published(m)
      <3>1. row' = row
        BY <2>2 DEF Published
      <3>2. ASSUME NEW k \in Jobs, NEW out \in {"ok", "fail", "error"}, m = ForJob(k, out),
                   IF out = "error" THEN Fail(k.sub, k.gen) ELSE fails' = fails
            PROVE  m.gen <= row'[m.sub].gen
                     /\ (m.gen = row'[m.sub].gen /\ Failed(m) => Enough(m.sub, m.attempt + 1)')
        <4>1. m.sub = k.sub /\ m.gen = k.gen /\ m.attempt = k.attempt /\ m.out = out
          BY <3>2 DEF ForJob
        <4>2. k.gen <= row[k.sub].gen /\ (k.gen = row[k.sub].gen => Enough(k.sub, k.attempt))
          BY DEF AttemptsInv, NoFuture, AttemptsEarned, Outstanding
        <4>3. k.gen = row[k.sub].gen /\ Failed(m)
                => fails'[k.sub] = MaxAttempts \/ fails'[k.sub] = fails[k.sub] + 1
          BY <1>1, <1>4, <3>2, <4>1, FailStep DEF Failed
        <4> QED BY <3>1, <4>1, <4>2, <4>3, <1>2, <1>3, <1>4 DEF Enough
      <3>3. ASSUME NEW k \in Jobs, m = ForJob([k EXCEPT !.attempt = @ + 1], "lost"),
                   Fail(k.sub, k.gen), k.attempt + 1 >= MaxAttempts
            PROVE  m.gen <= row'[m.sub].gen
                     /\ (m.gen = row'[m.sub].gen /\ Failed(m) => Enough(m.sub, m.attempt + 1)')
        <4>1. m.sub = k.sub /\ m.gen = k.gen
          BY <1>1, <3>3, JobsOf DEF ForJob, Job
        <4>2. k.gen <= row[k.sub].gen /\ (k.gen = row[k.sub].gen => Enough(k.sub, k.attempt))
          BY DEF AttemptsInv, NoFuture, AttemptsEarned, Outstanding
        <4>3. k.gen = row[k.sub].gen => fails'[k.sub] = MaxAttempts \/ fails'[k.sub] = fails[k.sub] + 1
          BY <1>1, <1>4, <3>3, FailStep
        <4> QED BY <3>1, <3>3, <4>1, <4>2, <4>3, <1>2, <1>3, <1>4 DEF Enough
      <3> QED BY <2>2, <3>2, <3>3 DEF Published
    <2> QED BY <1>1, <2>1, <2>2 DEF Origins
  <1>9. NoFuture' /\ AttemptsEarned'
    BY <1>7, <1>8 DEF NoFuture, AttemptsEarned, Outstanding, Failed
  <1>10. SystemErrorEarned'
    BY <1>1, StepErrors DEF AttemptsInv
  <1> QED BY <1>1, <1>9, <1>10 DEF AttemptsInv

\* No message and no failure at first.
LEMMA InitAttempts == Init => AttemptsInv
  <1> SUFFICES ASSUME Init PROVE AttemptsInv
    OBVIOUS
  <1>1. TypeOK
    BY InitType
  <1>2. Outstanding = {}
    BY BagEmpty DEF Init, Outstanding, Jobs, Idle
  <1>3. \A s \in Submissions : row[s].err = "none"
    BY DEF Init, ImportedRow, NewRow
  <1> QED BY <1>1, <1>2, <1>3 DEF AttemptsInv, NoFuture, AttemptsEarned, SystemErrorEarned, Outstanding, Kinds

\* Whatever is duplicated, lost, requeued or late, a row only ends with the
\* failure of a job after MaxAttempts failed executions of its generation.
THEOREM SystemErrorsEarned == Spec => []SystemErrorEarned
  <1>1. AttemptsInv => SystemErrorEarned
    BY DEF AttemptsInv
  <1> QED BY <1>1, InitAttempts, StepAttempts, PTL DEF Spec

-----------------------------------------------------------------------------
(***************************************************************************)
(* The generation fence, for every set of submissions, testcases and slots *)
(* and every value of the bounds, as long as no archive is imported while  *)
(* it is being judged; and, without that restriction, that a finished row  *)
(* is final.                                                               *)
(***************************************************************************)
(***************************************************************************)
(* The one case in which the dispatcher starts a new generation without    *)
(* deleting the evaluations is that of a compiled row without executables: *)
(* the fence holds because such a row, if it is not evaluated, has no      *)
(* evaluations and nothing on its way.                                     *)
(***************************************************************************)
Bare(s) == row[s].comp = "ok" /\ ~row[s].exes /\ ~row[s].eval

BareIsEmpty ==
    \A s \in Submissions : Bare(s) =>
        /\ \A t \in Testcases : evals[s][t] = NoEval
        /\ \A m \in Outstanding : m.sub = s => m.gen # row[s].gen

FenceInv == AttemptsInv /\ BareIsEmpty /\ GenerationFence

\* What a step does to a row and its evaluations, as far as the fence goes.
SameGeneration(s) ==
    /\ row'[s].gen = row[s].gen
    /\ Bare(s)' => Bare(s) /\ \A t \in Testcases : evals'[s][t] \in {evals[s][t], NoEval}
    /\ \A t \in Testcases : evals'[s][t] \in {evals[s][t], NoEval, row[s].gen}

NextGeneration(s) ==
    row'[s].gen = row[s].gen + 1 /\ \A t \in Testcases : evals'[s][t] = NoEval

Fenced == \A s \in Submissions : SameGeneration(s) \/ NextGeneration(s)

\* The fields the transactions write that the fence depends on.
LEMMA BareFields ==
    ASSUME NEW r \in Row
    PROVE  /\ \A what : LET q == systemError(r, what)
                        IN  q.gen = r.gen /\ q.comp = r.comp /\ q.exes = r.exes /\ q.eval = r.eval
           /\ scoreResult(r).gen = r.gen /\ scoreResult(r).eval
           /\ compiled(r, TRUE).gen = r.gen /\ compiled(r, TRUE).exes
           /\ compiled(r, FALSE).gen = r.gen /\ compiled(r, FALSE).comp = "fail"
  <1>1. \A what : LET q == systemError(r, what)
                  IN  q.gen = r.gen /\ q.comp = r.comp /\ q.exes = r.exes /\ q.eval = r.eval
    BY DEF systemError, Row
  <1>2. scoreResult(r).gen = r.gen /\ scoreResult(r).eval
    BY DEF scoreResult, systemError, Row
  <1>3. compiled(r, TRUE).gen = r.gen /\ compiled(r, TRUE).exes
    BY DEF compiled, scoreResult, systemError, Row
  <1>4. compiled(r, FALSE).gen = r.gen /\ compiled(r, FALSE).comp = "fail"
    BY DEF compiled, Row
  <1> QED BY <1>1, <1>2, <1>3, <1>4

\* A row that is not laid bare, with its evaluations kept.
LEMMA KeepFenced ==
    ASSUME TypeOK, NEW s \in Submissions, NEW r, SetRow(s, r), evals' = evals, r.gen = row[s].gen,
           r.comp = "ok" /\ ~r.exes /\ ~r.eval => Bare(s)
    PROVE  Fenced
  BY SetRowAt DEF Fenced, SameGeneration, Bare

\* A stored compilation writes its own generation.
LEMMA CompilationFenced ==
    ASSUME TypeOK, NEW s \in Submissions, NEW r \in Row, r.gen = row[s].gen,
           NEW ok \in BOOLEAN, applyCompilation(s, r, ok)
    PROVE  Fenced
  <1>1. SetRow(s, compiled(r, ok)) /\ evals' = evals
    BY DEF applyCompilation
  <1>2. CASE ok = TRUE
    BY <1>1, <1>2, KeepFenced, BareFields
  <1>3. CASE ok = FALSE
    <2>1. compiled(r, ok).comp # "ok" /\ compiled(r, ok).gen = row[s].gen
      BY <1>3, BareFields
    <2> QED BY <1>1, <2>1, KeepFenced
  <1> QED BY <1>2, <1>3

\* Advancing writes the generation of the row.
LEMMA AdvanceFenced ==
    ASSUME FenceInv, NEW s \in Submissions, advance(s)
    PROVE  Fenced
  <1> DEFINE r == [row[s] EXCEPT !.exists = TRUE]
             q == [r EXCEPT !.enq = "recent"]
             z == [r EXCEPT !.scored = TRUE]
  <1>1. TypeOK /\ row[s] \in Row
    BY DEF FenceInv, AttemptsInv, TypeOK
  <1>2. r \in Row /\ r.gen = row[s].gen /\ r.comp = row[s].comp /\ r.exes = row[s].exes /\ r.eval = row[s].eval
    BY <1>1 DEF Row
  <1> HIDE DEF r
  <1>3. /\ q \in Row /\ q.gen = row[s].gen /\ q.comp = row[s].comp /\ q.exes = row[s].exes /\ q.eval = row[s].eval
        /\ z.gen = row[s].gen /\ z.comp = row[s].comp /\ z.exes = row[s].exes /\ z.eval = row[s].eval
    <2>1. q \in Row
      BY <1>2 DEF Row
    <2>2. q.gen = r.gen /\ q.comp = r.comp /\ q.exes = r.exes /\ q.eval = r.eval
      BY <1>2 DEF Row
    <2>3. z.gen = r.gen /\ z.comp = r.comp /\ z.exes = r.exes /\ z.eval = r.eval
      BY <1>2 DEF Row
    <2> HIDE DEF q, z
    <2> QED BY <1>2, <2>1, <2>2, <2>3, Zenon
  <1> HIDE DEF q, z
  <1>a. CASE advanceFinished(s, r)
    BY <1>a, <1>1, <1>2, KeepFenced DEF advanceFinished, Bare
  <1>b. CASE advanceLoadError(s, r)
    <2> DEFINE x == systemError(r, "load")
    <2>1. x.gen = r.gen /\ x.comp = r.comp /\ x.exes = r.exes /\ x.eval = r.eval
      BY <1>2, BareFields
    <2> HIDE DEF x
    <2>2. x.comp = "ok" /\ ~x.exes /\ ~x.eval => Bare(s)
      BY <1>2, <2>1, Zenon DEF Bare
    <2>3. SetRow(s, x) /\ evals' = evals /\ x.gen = row[s].gen
      BY <1>b, <1>2, <2>1 DEF advanceLoadError, x
    <2> QED BY <1>1, <2>2, <2>3, KeepFenced
  <1>c. CASE advanceCompile(s, r)
    BY <1>c, <1>1, <1>3, KeepFenced DEF advanceCompile, Bare, q
  <1>d. CASE advanceCacheHit(s, r)
    BY <1>d, <1>1, <1>3, CompilationFenced DEF advanceCacheHit, q
  <1>e. CASE advanceCompilationFailed(s, r)
    BY <1>e, <1>1, <1>3, KeepFenced DEF advanceCompilationFailed, Bare, z
  <1>f. CASE advanceEvaluate(s, r)
    <2>1. CASE SetRow(s, q)
      BY <1>f, <2>1, <1>1, <1>3, KeepFenced DEF advanceEvaluate, Bare
    <2>2. CASE ~r.exes /\ SetRow(s, invalidated(r, "compilation"))
      <3>1. evals' = evals /\ Bare(s)
        BY <1>f, <2>2, <1>2 DEF advanceEvaluate, Bare
      <3>2. \A t \in Testcases : evals[s][t] = NoEval
        BY <3>1 DEF FenceInv, BareIsEmpty
      <3>3. row'[s].gen = row[s].gen + 1 /\ \A u \in Submissions \ {s} : row'[u] = row[u]
        BY <2>2, <1>1, <1>2, SetRowAt, RowGen
      <3> QED BY <3>1, <3>2, <3>3 DEF Fenced, SameGeneration, NextGeneration, Bare
    <2> QED BY <1>f, <2>1, <2>2 DEF advanceEvaluate, q
  <1>g. CASE advanceScore(s, r)
    BY <1>g, <1>1, <1>2, BareFields, KeepFenced DEF advanceScore
  <1> QED BY <1>a, <1>b, <1>c, <1>d, <1>e, <1>f, <1>g DEF advance, r

\* A result of another generation is dropped.
LEMMA ResultFenced ==
    ASSUME FenceInv, NEW m \in BagToSet(results), handleSubmissionResult(m)
    PROVE  Fenced
  <1> DEFINE s == m.sub
             q == [row[s] EXCEPT !.enq = "recent"]
  <1>1. TypeOK /\ s \in Submissions /\ row[s] \in Row
    BY DEF FenceInv, AttemptsInv, TypeOK, Result
  <1>2. q.gen = row[s].gen /\ q.comp = row[s].comp /\ q.exes = row[s].exes /\ q.eval = row[s].eval
    BY <1>1 DEF Row
  <1> HIDE DEF s, q
  <1>a. CASE resultStale(m)
    BY <1>a DEF resultStale, Fenced, SameGeneration, Bare
  <1>b. CASE resultLoadError(m)
    BY <1>b, <1>1, BareFields, KeepFenced DEF resultLoadError, Bare, s
  <1>c. CASE retryOrFail(m)
    <2>1. CASE SetRow(s, systemError(row[s], m.kind))
      BY <1>c, <2>1, <1>1, BareFields, KeepFenced DEF retryOrFail, Bare
    <2>2. CASE SetRow(s, q)
      BY <1>c, <2>2, <1>1, <1>2, KeepFenced DEF retryOrFail, Bare
    <2> QED BY <1>c, <2>1, <2>2 DEF retryOrFail, s, q
  <1>d. CASE resultCompilation(m)
    BY <1>d, <1>1, CompilationFenced DEF resultCompilation, s
  <1>e. CASE applyEvaluations(m)
    <2>1. PICK stored, ev :
             /\ ev = [t \in Testcases |-> IF t \in stored THEN m.gen ELSE evals[s][t]]
             /\ evals' = [evals EXCEPT ![s] = ev]
             /\ SetRow(s, row[s]) \/ SetRow(s, scoreResult(row[s]))
      <3>1. PICK stored :
               LET ev == [t \in Testcases |-> IF t \in stored THEN m.gen ELSE evals[s][t]]
               IN  /\ evals' = [evals EXCEPT ![s] = ev]
                   /\ SetRow(s, IF Cardinality(Evaluated(ev)) < row[s].total
                                THEN row[s] ELSE scoreResult(row[s]))
        BY <1>e DEF applyEvaluations, s
      <3> QED BY <3>1
    <2>2. m.gen = row[s].gen
      BY <1>e DEF applyEvaluations, Current, s
    <2>3. ~Bare(s)
      BY <2>2, <1>1 DEF FenceInv, BareIsEmpty, Outstanding, s
    <2>4. row'[s].gen = row[s].gen /\ ~Bare(s)' /\ \A u \in Submissions \ {s} : row'[u] = row[u]
      <3>1. CASE SetRow(s, row[s])
        <4>1. row'[s] = row[s] /\ \A u \in Submissions \ {s} : row'[u] = row[u]
          BY <3>1, <1>1, SetRowAt
        <4> QED BY <4>1, <2>3, Zenon DEF Bare
      <3>2. CASE SetRow(s, scoreResult(row[s]))
        <4>1. row'[s] = scoreResult(row[s]) /\ \A u \in Submissions \ {s} : row'[u] = row[u]
          BY <3>2, <1>1, SetRowAt
        <4>2. scoreResult(row[s]).gen = row[s].gen /\ scoreResult(row[s]).eval
          BY <1>1, BareFields
        <4> QED BY <4>1, <4>2, Zenon DEF Bare
      <3> QED BY <2>1, <3>1, <3>2
    <2>5. \A u \in Submissions \ {s} : evals'[u] = evals[u]
      BY <2>1, <1>1 DEF TypeOK
    <2>6. \A t \in Testcases : evals'[s][t] \in {evals[s][t], row[s].gen}
      BY <2>1, <2>2, <1>1 DEF TypeOK
    <2> QED BY <2>4, <2>5, <2>6 DEF Fenced, SameGeneration, Bare
  <1> QED BY <1>a, <1>b, <1>c, <1>d, <1>e DEF handleSubmissionResult

\* No step writes what an earlier generation computed.
LEMMA StepFenced ==
    ASSUME FenceInv, [Next]_vars
    PROVE  Fenced
  <1>1. TypeOK
    BY DEF FenceInv, AttemptsInv
  <1>a. CASE \E s \in Submissions : newSubmission(s) \/ Sweep(s)
    BY <1>a, AdvanceFenced DEF newSubmission, Sweep
  <1>b. CASE \E s \in Submissions : Elapse(s)
    <2>1. PICK s \in Submissions : Elapse(s)
      BY <1>b
    <2> DEFINE q == [row[s] EXCEPT !.enq = "stale"]
    <2>2. q.gen = row[s].gen /\ q.comp = row[s].comp /\ q.exes = row[s].exes /\ q.eval = row[s].eval
      BY <1>1 DEF TypeOK, Row
    <2>3. SetRow(s, q) /\ evals' = evals
      BY <2>1 DEF Elapse
    <2> HIDE DEF q
    <2> QED BY <1>1, <2>2, <2>3, KeepFenced DEF Bare
  <1>c. CASE \E s \in Submissions : HandleResultOf(s)
    BY <1>c, ResultFenced DEF HandleResultOf
  <1>d. ASSUME NEW s \in Submissions, NEW level \in Levels, Invalidate(s, level) PROVE Fenced
    <2> DEFINE r == invalidated(row[s], level)
               q == [r EXCEPT !.exes = IF level = "compilation" THEN FALSE ELSE @]
    <2>1. row[s] \in Row /\ level \in {"compilation", "evaluation", "score"}
      BY <1>1, JudgingAssumption DEF TypeOK
    <2>2. r \in Row /\ r.gen = IF level = "score" THEN row[s].gen ELSE row[s].gen + 1
      BY <1>1, <2>1, RowTypes, RowGen
    <2>3. level = "score" => r.comp = row[s].comp /\ r.exes = row[s].exes /\ r.eval = row[s].eval
      BY <2>1 DEF invalidated, Row
    <2> HIDE DEF r
    <2>4. q.gen = r.gen /\ q.comp = r.comp /\ q.eval = r.eval /\ (level = "score" => q.exes = r.exes)
      BY <2>2 DEF Row
    <2>5. SetRow(s, q)
      BY <1>d DEF Invalidate, r
    <2> HIDE DEF q
    <2>6. CASE level = "score"
      BY <1>1, <1>d, <2>2, <2>3, <2>4, <2>5, <2>6, KeepFenced DEF Invalidate, Bare
    <2>7. CASE level # "score"
      <3>1. row'[s].gen = row[s].gen + 1 /\ \A u \in Submissions \ {s} : row'[u] = row[u]
        BY <1>1, <2>2, <2>4, <2>5, <2>7, SetRowAt
      <3>2. evals' = [evals EXCEPT ![s] = NoEvals]
        BY <1>d, <2>7 DEF Invalidate
      <3>3. \A t \in Testcases : evals'[s][t] = NoEval
        BY <1>1, <3>2 DEF TypeOK, NoEvals
      <3>4. \A u \in Submissions \ {s} : evals'[u] = evals[u]
        BY <1>1, <3>2 DEF TypeOK
      <3> QED BY <3>1, <3>3, <3>4 DEF Fenced, SameGeneration, NextGeneration, Bare
    <2> QED BY <2>6, <2>7
  <1>e. ASSUME NEW t \in Testcases, DeleteTestcase(t) PROVE Fenced
    <2>1. \A s \in Submissions, u \in Testcases : evals'[s][u] \in {evals[s][u], NoEval}
      BY <1>e, <1>1 DEF DeleteTestcase, TypeOK
    <2> QED BY <1>e, <2>1 DEF DeleteTestcase, Fenced, SameGeneration, Bare
  <1>f. CASE UNCHANGED <<row, evals>>
    BY <1>f DEF Fenced, SameGeneration, Bare
  <1> QED BY <1>a, <1>b, <1>c, <1>d, <1>e, <1>f
          DEF Next, vars, dbVars, Submit, Deliver, Complete, Crash, CheckLost, CheckTimeout,
              AdminRequeue, Requeue, RequeueByID, AddTestcase, ReloadDataset

\* Every message is of a submission, and of a numbered generation.
LEMMA MessageTypes ==
    ASSUME TypeOK, NEW m \in Outstanding
    PROVE  m.sub \in Submissions /\ m.gen \in Nat
  BY JobsOf DEF Outstanding, TypeOK, Job, Result

\* Every step keeps messages within the generations given out.
LEMMA StepFence == FenceInv /\ [Next]_vars => FenceInv'
  <1> SUFFICES ASSUME FenceInv, [Next]_vars PROVE FenceInv'
    OBVIOUS
  <1>1. TypeOK /\ NoFuture /\ AttemptsInv' /\ Fenced /\ Origins
    BY StepAttempts, StepFenced, StepOrigins DEF FenceInv, AttemptsInv
  <1>2. GenerationFence'
    BY <1>1 DEF Fenced, SameGeneration, NextGeneration, GenerationFence, FenceInv
  <1>3. ASSUME NEW s \in Submissions, Bare(s)', NEW t \in Testcases PROVE evals'[s][t] = NoEval
    BY <1>1, <1>3 DEF Fenced, SameGeneration, NextGeneration, FenceInv, BareIsEmpty
  <1>4. ASSUME NEW s \in Submissions, Bare(s)', NEW m \in Outstanding', m.sub = s, m.gen = row'[s].gen
        PROVE  FALSE
    <2>1. row[s].gen \in Nat
      BY <1>1 DEF TypeOK, Row
    <2>2. CASE NextGeneration(s)
      \* Every message is of an earlier generation.
      <3>1. row'[s] # row[s] /\ row'[s].gen # row[s].gen
        BY <2>1, <2>2 DEF NextGeneration
      <3>2. CASE m \in Outstanding
        BY <1>1, <1>4, <2>1, <2>2, <3>2, MessageTypes DEF NoFuture, NextGeneration
      <3>3. CASE m \notin Outstanding
        BY <1>1, <1>4, <3>1, <3>3 DEF Origins, Outstanding, Fresh, Retaken, Published
      <3> QED BY <3>2, <3>3
    <2>3. CASE SameGeneration(s)
      \* The row was bare before the step: no message to start from.
      <3>1. Bare(s) /\ row'[s].gen = row[s].gen
        BY <1>4, <2>3 DEF SameGeneration
      <3>2. \A k \in Outstanding : k.sub = s => k.gen # row[s].gen
        BY <3>1 DEF FenceInv, BareIsEmpty
      <3>3. CASE m \in Outstanding
        BY <1>4, <3>1, <3>2, <3>3
      <3>4. CASE Fresh(m)
        BY <1>4, <3>2, <3>4 DEF Fresh, Current, Outstanding, Bare
      <3>5. CASE Retaken(m)
        <4>1. PICK k \in Jobs : m = [k EXCEPT !.attempt = @ + 1]
          BY <3>5 DEF Retaken
        <4>2. m.sub = k.sub /\ m.gen = k.gen
          BY <1>1, <4>1, JobsOf DEF Job
        <4> QED BY <1>4, <3>1, <3>2, <4>2 DEF Outstanding
      <3>6. CASE Published(m)
        <4>1. PICK k \in Jobs : \/ \E out : m = ForJob(k, out)
                                \/ m = ForJob([k EXCEPT !.attempt = @ + 1], "lost")
          BY <3>6 DEF Published
        <4>2. m.sub = k.sub /\ m.gen = k.gen
          BY <1>1, <4>1, JobsOf DEF Job, ForJob
        <4> QED BY <1>4, <3>1, <3>2, <4>2 DEF Outstanding
      <3> QED BY <1>1, <1>4, <3>3, <3>4, <3>5, <3>6 DEF Origins, Outstanding
    <2> QED BY <1>1, <2>2, <2>3 DEF Fenced
  <1>5. BareIsEmpty'
    BY <1>3, <1>4 DEF BareIsEmpty
  <1> QED BY <1>1, <1>2, <1>5 DEF FenceInv

\* Nothing was computed at first, if no row came in unfinished.
LEMMA InitFence == Unfinished = {} /\ Init => FenceInv
  <1> SUFFICES ASSUME Unfinished = {}, Init PROVE FenceInv
    OBVIOUS
  <1>1. \A s \in Submissions : row[s].gen = 0 /\ ~Bare(s)
    BY DEF Init, ImportedRow, NewRow, Bare
  <1>2. \A s \in Submissions, t \in Testcases : evals[s][t] \in {NoEval, 0}
    BY DEF Init, ImportedEvals, NoEvals
  <1> QED BY <1>1, <1>2, InitAttempts DEF FenceInv, BareIsEmpty, GenerationFence

\* If no imported row was caught half evaluated, no evaluation of an earlier
\* generation is ever in a row, whatever is queued or running when it is
\* invalidated.
THEOREM GenerationsFenced ==
    ASSUME Unfinished = {}
    PROVE  Spec => []GenerationFence
  <1>1. Init => FenceInv
    BY InitFence
  <1>2. FenceInv => GenerationFence
    BY DEF FenceInv
  <1> QED BY <1>1, <1>2, StepFence, PTL DEF Spec

(***************************************************************************)
(* A finished row is final, for every value of the constants.              *)
(***************************************************************************)
\* advance writes exists even in a finished row: that this changes nothing
\* rests on the row being there.
FinishedExists == \A s \in Submissions : Finished(s) => row[s].exists

FinalInv == TypeOK /\ FinishedExists

\* The step FinishedIsFinal allows for the row of s.
Final(s) ==
    Finished(s) =>
        \/ row'[s] = row[s] /\ (evals'[s] = evals[s] \/ edits' > edits)
        \/ ~Finished(s)' /\ row'[s].enq = "never" /\ invalidations' > invalidations

AllFinal == \A s \in Submissions : Final(s) /\ (Finished(s)' => row'[s].exists)

\* The rows the transactions write are there if the row they start from is.
LEMMA RowExists ==
    ASSUME NEW r \in Row
    PROVE  /\ \A what : systemError(r, what).exists = r.exists
           /\ scoreResult(r).exists = r.exists
           /\ \A ok \in BOOLEAN : compiled(r, ok).exists = r.exists
           /\ \A level : invalidated(r, level).exists = r.exists
  <1>1. \A what : systemError(r, what).exists = r.exists
    BY DEF systemError, Row
  <1>2. scoreResult(r).exists = r.exists
    BY DEF scoreResult, systemError, Row
  <1>3. \A ok \in BOOLEAN : compiled(r, ok).exists = r.exists
    BY DEF compiled, scoreResult, systemError, Row
  <1>4. ASSUME NEW level PROVE invalidated(r, level).exists = r.exists
    <2> DEFINE g == IF level = "score" THEN r.gen ELSE r.gen + 1
               c == IF level = "compilation" THEN "none" ELSE r.comp
               e == IF level = "score" THEN r.eval ELSE FALSE
    <2>1. invalidated(r, level) = [r EXCEPT !.gen = g, !.comp = c, !.eval = e,
                                     !.scored = FALSE, !.err = "none", !.enq = "never"]
      BY DEF invalidated
    <2> HIDE DEF g, c, e
    <2> QED BY <2>1 DEF Row
  <1> QED BY <1>1, <1>2, <1>3, <1>4

\* A step that writes the row of an unfinished submission, and no other.
LEMMA UnfinishedFinal ==
    ASSUME FinalInv, NEW s \in Submissions, ~Finished(s), NEW r, SetRow(s, r), r.exists,
           \A t \in Submissions \ {s} : evals'[t] = evals[t]
    PROVE  AllFinal
  <1>1. row'[s] = r /\ \A t \in Submissions \ {s} : row'[t] = row[t]
    BY SetRowAt DEF FinalInv
  <1>2. Final(s) /\ row'[s].exists
    BY <1>1 DEF Final
  <1>3. ASSUME NEW t \in Submissions \ {s} PROVE Final(t) /\ (Finished(t)' => row'[t].exists)
    <2>1. row'[t] = row[t] /\ evals'[t] = evals[t]
      BY <1>1
    <2>2. Finished(t)' = Finished(t)
      BY <2>1 DEF Finished
    <2> QED BY <2>1, <2>2 DEF Final, FinalInv, FinishedExists
  <1> QED BY <1>2, <1>3 DEF AllFinal

\* A step that writes no row.
LEMMA UntouchedFinal ==
    ASSUME FinalInv, row' = row, evals' = evals \/ edits' > edits
    PROVE  AllFinal
  <1>1. \A t \in Submissions : Finished(t)' = Finished(t)
    BY DEF Finished
  <1> QED BY <1>1 DEF AllFinal, Final, FinalInv, FinishedExists

\* A finished row is not advanced.
LEMMA AdvanceFinal ==
    ASSUME FinalInv, NEW s \in Submissions, advance(s)
    PROVE  AllFinal
  <1> DEFINE r == [row[s] EXCEPT !.exists = TRUE]
             q == [r EXCEPT !.enq = "recent"]
             z == [r EXCEPT !.scored = TRUE]
  <1>1. TypeOK /\ row[s] \in Row
    BY DEF FinalInv, TypeOK
  <1>2. r \in Row /\ r.exists
    BY <1>1 DEF Row
  <1>3. row[s].exists => r = row[s]
    <2>1. row[s].exists \in BOOLEAN
      BY <1>1 DEF Row
    <2> QED BY <1>1, <2>1 DEF Row
  <1> HIDE DEF r
  <1>4. q \in Row /\ q.exists /\ z.exists
    BY <1>2 DEF Row
  <1> HIDE DEF q, z
  <1>5. systemError(r, "load").exists /\ scoreResult(r).exists
          /\ compiled(q, TRUE).exists /\ invalidated(r, "compilation").exists
    BY <1>2, <1>4, RowExists
  <1>a. CASE advanceFinished(s, r)
    <2>1. Finished(s) /\ SetRow(s, r) /\ evals' = evals
      BY <1>a DEF advanceFinished
    <2>2. r = row[s]
      BY <1>3, <2>1 DEF FinalInv, FinishedExists
    <2>3. row' = row
      BY <1>1, <2>1, <2>2 DEF SetRow, TypeOK
    <2> QED BY <2>1, <2>3, UntouchedFinal
  <1>b. CASE advanceLoadError(s, r)
    BY <1>b, <1>5, UnfinishedFinal DEF advanceLoadError
  <1>c. CASE advanceCompile(s, r)
    BY <1>c, <1>4, UnfinishedFinal DEF advanceCompile, q
  <1>d. CASE advanceCacheHit(s, r)
    BY <1>d, <1>5, UnfinishedFinal DEF advanceCacheHit, applyCompilation, q
  <1>e. CASE advanceCompilationFailed(s, r)
    BY <1>e, <1>4, UnfinishedFinal DEF advanceCompilationFailed, z
  <1>f. CASE advanceEvaluate(s, r)
    BY <1>f, <1>4, <1>5, UnfinishedFinal DEF advanceEvaluate, q
  <1>g. CASE advanceScore(s, r)
    BY <1>g, <1>5, UnfinishedFinal DEF advanceScore
  <1> QED BY <1>a, <1>b, <1>c, <1>d, <1>e, <1>f, <1>g DEF advance, r

\* Nor does a late result change it.
LEMMA ResultFinal ==
    ASSUME FinalInv, NEW m \in BagToSet(results), handleSubmissionResult(m)
    PROVE  AllFinal
  <1> DEFINE s == m.sub
             q == [row[s] EXCEPT !.enq = "recent"]
  <1>1. TypeOK /\ s \in Submissions /\ row[s] \in Row
    BY DEF FinalInv, TypeOK, Result
  <1>2. q.exists = row[s].exists
    BY <1>1 DEF Row
  <1> HIDE DEF s, q
  <1>3. /\ systemError(row[s], "load").exists = row[s].exists
        /\ systemError(row[s], m.kind).exists = row[s].exists
        /\ scoreResult(row[s]).exists = row[s].exists
        /\ \A ok \in BOOLEAN : compiled(row[s], ok).exists = row[s].exists
    BY <1>1, RowExists
  <1>4. Current(m) => ~Finished(s) /\ row[s].exists
    BY DEF Current, s
  <1>a. CASE resultStale(m)
    BY <1>a, UntouchedFinal DEF resultStale
  <1>b. CASE resultLoadError(m)
    BY <1>b, <1>1, <1>3, <1>4, UnfinishedFinal DEF resultLoadError, s
  <1>c. CASE retryOrFail(m)
    <2>1. CASE SetRow(s, systemError(row[s], m.kind))
      BY <1>c, <2>1, <1>1, <1>3, <1>4, UnfinishedFinal DEF retryOrFail
    <2>2. CASE SetRow(s, q)
      BY <1>c, <2>2, <1>1, <1>2, <1>4, UnfinishedFinal DEF retryOrFail
    <2> QED BY <1>c, <2>1, <2>2 DEF retryOrFail, s, q
  <1>d. CASE resultCompilation(m)
    BY <1>d, <1>1, <1>3, <1>4, UnfinishedFinal DEF resultCompilation, applyCompilation, s
  <1>e. CASE applyEvaluations(m)
    <2>1. PICK ev : evals' = [evals EXCEPT ![s] = ev]
                      /\ (SetRow(s, row[s]) \/ SetRow(s, scoreResult(row[s])))
      BY <1>e DEF applyEvaluations, s
    <2>2. \A t \in Submissions \ {s} : evals'[t] = evals[t]
      BY <2>1, <1>1 DEF TypeOK
    <2>3. ~Finished(s) /\ row[s].exists /\ scoreResult(row[s]).exists
      BY <1>e, <1>3, <1>4 DEF applyEvaluations
    <2> QED BY <2>1, <2>2, <2>3, <1>1, UnfinishedFinal
  <1> QED BY <1>a, <1>b, <1>c, <1>d, <1>e DEF handleSubmissionResult

\* Only judging again changes a finished row.
LEMMA StepFinal ==
    ASSUME FinalInv, [Next]_vars
    PROVE  AllFinal
  <1>1. TypeOK
    BY DEF FinalInv
  <1>a. CASE \E s \in Submissions : newSubmission(s) \/ Sweep(s)
    BY <1>a, AdvanceFinal DEF newSubmission, Sweep
  <1>b. CASE \E s \in Submissions : Elapse(s)
    <2>1. \A s \in Submissions : [row[s] EXCEPT !.enq = "stale"].exists = row[s].exists
      BY <1>1 DEF TypeOK, Row
    <2> QED BY <1>b, <2>1, UnfinishedFinal DEF Elapse
  <1>c. CASE \E s \in Submissions : HandleResultOf(s)
    BY <1>c, ResultFinal DEF HandleResultOf
  <1>d. ASSUME NEW s \in Submissions, NEW level \in Levels, Invalidate(s, level) PROVE AllFinal
    <2> DEFINE r == invalidated(row[s], level)
               q == [r EXCEPT !.exes = IF level = "compilation" THEN FALSE ELSE @]
    <2>1. row[s] \in Row /\ r \in Row
      BY <1>1, JudgingAssumption, RowTypes DEF TypeOK
    <2>2. r.exists = row[s].exists /\ r.err = "none"
      BY <2>1, RowExists, RowErrors
    <2>3. ~r.scored /\ r.enq = "never"
      <3> DEFINE g == IF level = "score" THEN row[s].gen ELSE row[s].gen + 1
                 c == IF level = "compilation" THEN "none" ELSE row[s].comp
                 e == IF level = "score" THEN row[s].eval ELSE FALSE
      <3>1. r = [row[s] EXCEPT !.gen = g, !.comp = c, !.eval = e,
                               !.scored = FALSE, !.err = "none", !.enq = "never"]
        BY DEF invalidated
      <3> HIDE DEF g, c, e, r
      <3> QED BY <2>1, <3>1 DEF Row
    <2> HIDE DEF r
    <2>4. q.exists = r.exists /\ q.err = r.err /\ q.scored = r.scored /\ q.enq = r.enq
      BY <2>1 DEF Row
    <2>5. row'[s] = q /\ \A t \in Submissions \ {s} : row'[t] = row[t]
      BY <1>d, <1>1, SetRowAt DEF Invalidate, r
    <2> HIDE DEF q
    <2>6. ~Finished(s)' /\ row'[s].enq = "never"
      BY <2>2, <2>3, <2>4, <2>5 DEF Finished
    <2>7. invalidations' > invalidations
      BY <1>d, <1>1 DEF Invalidate, TypeOK
    <2>8. \A t \in Submissions \ {s} : evals'[t] = evals[t]
      BY <1>d, <1>1 DEF Invalidate, TypeOK
    <2>9. \A t \in Submissions \ {s} : Finished(t)' = Finished(t)
      BY <2>5 DEF Finished
    <2> QED BY <2>5, <2>6, <2>7, <2>8, <2>9 DEF AllFinal, Final, FinalInv, FinishedExists
  <1>e. ASSUME NEW t \in Testcases, DeleteTestcase(t) PROVE AllFinal
    <2>1. edits' > edits
      BY <1>e, <1>1 DEF DeleteTestcase, TypeOK
    <2> QED BY <1>e, <2>1, UntouchedFinal DEF DeleteTestcase
  <1>f. CASE UNCHANGED <<row, evals>>
    BY <1>f, UntouchedFinal
  <1> QED BY <1>a, <1>b, <1>c, <1>d, <1>e, <1>f
          DEF Next, vars, dbVars, Submit, Deliver, Complete, Crash, CheckLost, CheckTimeout,
              AdminRequeue, Requeue, RequeueByID, AddTestcase, ReloadDataset

\* Rows that came in finished exist.
LEMMA InitFinal == Init => FinalInv
  <1> SUFFICES ASSUME Init PROVE FinalInv
    OBVIOUS
  <1>1. FinishedExists
    BY DEF Init, FinishedExists, Finished, ImportedRow, NewRow
  <1> QED BY <1>1, InitType DEF FinalInv

\* Late, duplicated and stale results never change a row that is scored or
\* in error, or its evaluations: only a reevaluation reopens it.
THEOREM FinishedRowsFinal == Spec => FinishedIsFinal
  <1>1. FinalInv /\ [Next]_vars => FinalInv'
    BY StepFinal, StepType DEF FinalInv, AllFinal, FinishedExists
  <1>2. FinalInv /\ [Next]_vars =>
          [\A s \in Submissions : Finished(s) =>
             \/ row'[s] = row[s] /\ (evals'[s] = evals[s] \/ edits' > edits)
             \/ ~Finished(s)' /\ row'[s].enq = "never" /\ invalidations' > invalidations]_vars
    BY StepFinal DEF AllFinal, Final
  <1> QED BY <1>1, <1>2, InitFinal, PTL DEF Spec, FinishedIsFinal

(***************************************************************************)
(* Nothing is scored too early and no work is lost, for every value of the *)
(* constants, as long as the dataset is not edited.                        *)
(***************************************************************************)

(***************************************************************************)
(* What the transactions write in the fields of a row.                     *)
(***************************************************************************)
LEMMA SystemErrorRow ==
    ASSUME NEW r \in Row, NEW what
    PROVE  LET e == systemError(r, what)
           IN  /\ e.exists = r.exists /\ e.gen = r.gen /\ e.comp = r.comp /\ e.eval = r.eval
               /\ e.exes = r.exes /\ e.total = r.total /\ e.scored = r.scored /\ e.err = what /\ e.enq = r.enq
  BY DEF systemError, Row

\* What scoring changes of a row, and what it leaves.
LEMMA ScoreRow ==
    ASSUME NEW r \in Row
    PROVE  LET e == scoreResult(r)
           IN  /\ e.exists = r.exists /\ e.gen = r.gen /\ e.comp = r.comp /\ e.eval
               /\ e.exes = r.exes /\ e.total = r.total /\ e.enq = r.enq
               /\ \/ e.scored /\ e.err = r.err
                  \/ e.scored = r.scored /\ e.err = "score"
  BY DEF scoreResult, systemError, Row

\* What a compilation changes of a row.
LEMMA CompiledRow ==
    ASSUME TypeOK, NEW r \in Row, NEW ok \in BOOLEAN
    PROVE  LET c == compiled(r, ok)
           IN  /\ c.exists = r.exists /\ c.gen = r.gen
               /\ c.comp = (IF ok THEN "ok" ELSE "fail")
               /\ c.total = Cardinality(cached)
               /\ ~ok => c.scored /\ c.eval = r.eval /\ c.err = r.err
               /\ ok => c.exes
               /\ ok /\ cached # {} => c.scored = r.scored /\ c.eval = r.eval /\ c.err = r.err /\ c.enq = "recent"
               /\ ok /\ cached = {} => /\ c.eval
                                       /\ \/ c.scored /\ c.err = r.err
                                          \/ c.scored = r.scored /\ c.err = "score"
  <1>1. Cardinality(cached) \in Nat
    BY CachedFinite
  <1>2. CASE ~ok
    BY <1>1, <1>2 DEF compiled, Row
  <1>3. CASE ok /\ cached # {}
    BY <1>1, <1>3 DEF compiled, Row
  <1>4. CASE ok /\ cached = {}
    BY <1>1, <1>4 DEF compiled, scoreResult, systemError, Row
  <1> QED BY <1>2, <1>3, <1>4

\* What judging again changes of a row.
LEMMA InvalidatedRow ==
    ASSUME NEW r \in Row, NEW level
    PROVE  LET i == invalidated(r, level)
           IN  /\ i.exists = r.exists /\ i.exes = r.exes /\ i.total = r.total
               /\ i.gen = (IF level = "score" THEN r.gen ELSE r.gen + 1)
               /\ i.comp = (IF level = "compilation" THEN "none" ELSE r.comp)
               /\ i.eval = (IF level = "score" THEN r.eval ELSE FALSE)
               /\ ~i.scored /\ i.err = "none" /\ i.enq = "never"
  <1> DEFINE g == IF level = "score" THEN r.gen ELSE r.gen + 1
             c == IF level = "compilation" THEN "none" ELSE r.comp
             e == IF level = "score" THEN r.eval ELSE FALSE
  <1>1. invalidated(r, level) = [r EXCEPT !.gen = g, !.comp = c, !.eval = e,
                                   !.scored = FALSE, !.err = "none", !.enq = "never"]
    BY DEF invalidated
  <1> HIDE DEF g, c, e
  <1>2. LET i == invalidated(r, level)
        IN  /\ i.exists = r.exists /\ i.exes = r.exes /\ i.total = r.total
            /\ i.gen = g /\ i.comp = c /\ i.eval = e
            /\ ~i.scored /\ i.err = "none" /\ i.enq = "never"
    BY <1>1 DEF Row
  <1> QED BY <1>2 DEF g, c, e

(***************************************************************************)
(* A row is scored when it is judged.                                      *)
(***************************************************************************)
\* The dataset is the one it was at the start, and so is the dispatcher's
\* copy of it.
Undisturbed == testcases = FirstTestcases /\ cached = FirstTestcases

\* What r says about the evaluations ev: none is of another testcase, the
\* number it waits for is that of the testcases, and it is evaluated or
\* scored only when they are all there.
Judged(r, ev) ==
    /\ Evaluated(ev) \subseteq FirstTestcases
    /\ r.comp = "ok" => r.total = Cardinality(FirstTestcases)
    /\ r.eval => r.comp = "ok" /\ FirstTestcases \subseteq Evaluated(ev)
    /\ r.scored => r.comp = "fail" \/ (r.comp = "ok" /\ r.eval)

\* The inductive invariant of ScoredMeansJudged: the number of testcases a
\* row waits for must be the right one, and advance and applyEvaluations
\* count evaluations that must not be of other testcases.
JudgedInv == TypeOK /\ Undisturbed /\ \A s \in Submissions : Judged(row[s], evals[s])

\* A step that writes the row of s and its evaluations, and no other's.
LEMMA JudgedStep ==
    ASSUME JudgedInv, NEW s \in Submissions, NEW r, SetRow(s, r),
           \A t \in Submissions \ {s} : evals'[t] = evals[t],
           Judged(r, evals'[s])
    PROVE  \A t \in Submissions : Judged(row'[t], evals'[t])
  <1>1. row'[s] = r /\ \A t \in Submissions \ {s} : row'[t] = row[t]
    BY SetRowAt DEF JudgedInv
  <1> QED BY <1>1 DEF JudgedInv

\* A compilation leaves a row that is judged.
LEMMA JudgedCompilation ==
    ASSUME JudgedInv, NEW ev, NEW r \in Row, NEW ok \in BOOLEAN, Judged(r, ev), r.comp = "none"
    PROVE  Judged(compiled(r, ok), ev)
  <1>1. TypeOK /\ cached = FirstTestcases
    BY DEF JudgedInv, Undisturbed
  <1>2. ~r.eval /\ ~r.scored
    BY DEF Judged
  <1> DEFINE c == compiled(r, ok)
  <1>3. /\ c.comp = (IF ok THEN "ok" ELSE "fail")
        /\ c.total = Cardinality(cached)
        /\ ~ok => c.scored /\ c.eval = r.eval
        /\ ok /\ cached # {} => c.scored = r.scored /\ c.eval = r.eval
        /\ ok /\ cached = {} => c.eval
    BY <1>1, CompiledRow
  <1> HIDE DEF c
  <1>4. Judged(c, ev)
    BY <1>1, <1>2, <1>3 DEF Judged
  <1> QED BY <1>4 DEF c

\* Advancing scores a row only when every testcase is evaluated.
LEMMA AdvanceJudged ==
    ASSUME JudgedInv, NEW s \in Submissions, advance(s)
    PROVE  \A t \in Submissions : Judged(row'[t], evals'[t])
  <1> DEFINE r == [row[s] EXCEPT !.exists = TRUE]
             q == [r EXCEPT !.enq = "recent"]
             z == [r EXCEPT !.scored = TRUE]
             ev == evals[s]
  <1>1. TypeOK /\ row[s] \in Row /\ cached = FirstTestcases /\ Judged(row[s], ev)
    BY DEF JudgedInv, TypeOK, Undisturbed
  <1>2. r \in Row /\ r.comp = row[s].comp /\ r.eval = row[s].eval /\ r.total = row[s].total /\ r.scored = row[s].scored
    BY <1>1 DEF Row
  <1>3. Judged(r, ev)
    BY <1>1, <1>2 DEF Judged
  <1> HIDE DEF r
  <1>4. q \in Row /\ q.comp = r.comp /\ q.eval = r.eval /\ q.total = r.total /\ q.scored = r.scored
    BY <1>2 DEF Row
  <1>5. Judged(q, ev)
    BY <1>3, <1>4 DEF Judged
  <1>6. z.comp = r.comp /\ z.eval = r.eval /\ z.total = r.total
    BY <1>2 DEF Row
  <1> HIDE DEF q, z
  <1>7. \A t \in Submissions : evals'[t] = evals[t]
    BY DEF advance, advanceFinished, advanceLoadError, advanceCompile, advanceCacheHit, applyCompilation,
           advanceCompilationFailed, advanceEvaluate, advanceScore
  <1> SUFFICES \E x : SetRow(s, x) /\ Judged(x, ev)
    BY <1>7, JudgedStep
  <1>a. CASE advanceFinished(s, r)
    BY <1>a, <1>3 DEF advanceFinished
  <1>b. CASE advanceLoadError(s, r)
    <2>1. Judged(systemError(r, "load"), ev)
      BY <1>2, <1>3, SystemErrorRow DEF Judged
    <2> QED BY <1>b, <2>1 DEF advanceLoadError
  <1>c. CASE advanceCompile(s, r)
    BY <1>c, <1>5 DEF advanceCompile, q
  <1>d. CASE advanceCacheHit(s, r)
    <2>1. SetRow(s, compiled(q, TRUE)) /\ r.comp = "none"
      BY <1>d DEF advanceCacheHit, applyCompilation, q
    <2> QED BY <2>1, <1>4, <1>5, JudgedCompilation
  <1>e. CASE advanceCompilationFailed(s, r)
    <2>1. SetRow(s, z) /\ r.comp = "fail"
      BY <1>e DEF advanceCompilationFailed, z
    <2>2. Judged(z, ev)
      BY <2>1, <1>3, <1>6 DEF Judged
    <2> QED BY <2>1, <2>2
  <1>f. CASE advanceEvaluate(s, r)
    <2>1. Judged(invalidated(r, "compilation"), ev)
      BY <1>2, <1>3, InvalidatedRow DEF Judged
    <2> QED BY <1>f, <1>5, <2>1 DEF advanceEvaluate, q
  <1>g. CASE advanceScore(s, r)
    <2>1. r.comp = "ok" /\ FirstTestcases \subseteq Evaluated(ev)
      BY <1>g, <1>1, <1>3 DEF advanceScore, Judged
    <2>2. Judged(scoreResult(r), ev)
      BY <2>1, <1>2, <1>3, ScoreRow DEF Judged
    <2> QED BY <1>g, <2>2 DEF advanceScore
  <1> QED BY <1>a, <1>b, <1>c, <1>d, <1>e, <1>f, <1>g DEF advance, r

\* What applyEvaluations stores: evaluations of testcases the dispatcher
\* knows, those of the result among them.
StoredBy(m, stored) ==
    /\ stored \in SUBSET cached /\ m.tcs \cap cached \subseteq stored
    /\ Evaluated(evals'[m.sub]) = Evaluated(evals[m.sub]) \cup stored
    /\ \A t \in Submissions \ {m.sub} : evals'[t] = evals[t]
    /\ SetRow(m.sub, IF Cardinality(Evaluated(evals'[m.sub])) < row[m.sub].total
                     THEN row[m.sub] ELSE scoreResult(row[m.sub]))

\* Evaluations of a result are stored under its generation.
LEMMA EvaluationsStored ==
    ASSUME TypeOK, NEW m \in BagToSet(results), applyEvaluations(m)
    PROVE  \E stored : StoredBy(m, stored)
  <1> DEFINE s == m.sub
             ev(stored) == [t \in Testcases |-> IF t \in stored THEN m.gen ELSE evals[s][t]]
  <1>1. m \in Result /\ s \in Submissions /\ m.gen \in Nat
    BY DEF TypeOK, Result
  <1>2. PICK skipped \in SUBSET cached :
            /\ evals' = [evals EXCEPT ![s] = ev((m.tcs \cap cached) \cup skipped)]
            /\ SetRow(s, IF Cardinality(Evaluated(ev((m.tcs \cap cached) \cup skipped))) < row[s].total
                         THEN row[s] ELSE scoreResult(row[s]))
    <2>1. PICK skipped \in IF ShortCircuit
                           THEN SUBSET (cached \ ((m.tcs \cap cached) \cup Evaluated(evals[s])))
                           ELSE {{}} :
            /\ evals' = [evals EXCEPT ![s] = ev((m.tcs \cap cached) \cup skipped)]
            /\ SetRow(s, IF Cardinality(Evaluated(ev((m.tcs \cap cached) \cup skipped))) < row[s].total
                         THEN row[s] ELSE scoreResult(row[s]))
      BY DEF applyEvaluations
    <2>2. skipped \in SUBSET cached
      BY <2>1
    <2> QED BY <2>1, <2>2
  <1> DEFINE stored == (m.tcs \cap cached) \cup skipped
  <1>3. stored \in SUBSET cached /\ m.tcs \cap cached \subseteq stored
    BY <1>2
  <1>4. evals'[s] = ev(stored) /\ \A t \in Submissions \ {s} : evals'[t] = evals[t]
    BY <1>1, <1>2 DEF TypeOK
  <1>5. SetRow(s, IF Cardinality(Evaluated(ev(stored))) < row[s].total THEN row[s] ELSE scoreResult(row[s]))
    BY <1>2
  <1> HIDE DEF stored
  <1>6. Evaluated(ev(stored)) = Evaluated(evals[s]) \cup stored
    BY <1>1, <1>3 DEF TypeOK, Evaluated, NoEval
  <1> HIDE DEF ev
  <1>7. StoredBy(m, stored)
    BY <1>3, <1>4, <1>5, <1>6 DEF StoredBy
  <1> QED BY <1>7

\* As many evaluations as testcases are all of them.
LEMMA AllEvaluated ==
    ASSUME NEW D \in SUBSET FirstTestcases, ~(Cardinality(D) < Cardinality(FirstTestcases))
    PROVE  D = FirstTestcases
  <1>1. IsFiniteSet(FirstTestcases)
    BY JudgingAssumption, FS_Subset
  <1>2. Cardinality(D) \in Nat /\ Cardinality(FirstTestcases) \in Nat
    BY <1>1, FS_Subset, FS_CardinalityType
  <1>3. Cardinality(D) <= Cardinality(FirstTestcases) /\ (Cardinality(D) = Cardinality(FirstTestcases) => D = FirstTestcases)
    BY <1>1, FS_Subset
  <1> QED BY <1>2, <1>3

\* So does a result.
LEMMA ResultJudged ==
    ASSUME JudgedInv, NEW m \in BagToSet(results), handleSubmissionResult(m)
    PROVE  \A t \in Submissions : Judged(row'[t], evals'[t])
  <1> DEFINE s == m.sub
             q == [row[s] EXCEPT !.enq = "recent"]
             ev == evals[s]
  <1>1. TypeOK /\ s \in Submissions /\ row[s] \in Row /\ cached = FirstTestcases /\ Judged(row[s], ev)
    BY DEF JudgedInv, TypeOK, Result, Undisturbed
  <1>2. q.comp = row[s].comp /\ q.eval = row[s].eval /\ q.total = row[s].total /\ q.scored = row[s].scored
    BY <1>1 DEF Row
  <1>3. Judged(q, ev)
    BY <1>1, <1>2 DEF Judged
  <1> HIDE DEF q, s
  <1>4. \A what : Judged(systemError(row[s], what), ev)
    BY <1>1, SystemErrorRow DEF Judged
  <1>5. ASSUME NEW x, SetRow(s, x), Judged(x, ev), evals' = evals
        PROVE  \A t \in Submissions : Judged(row'[t], evals'[t])
    BY <1>1, <1>5, JudgedStep
  <1>a. CASE resultStale(m)
    BY <1>a DEF resultStale, JudgedInv
  <1>b. CASE resultLoadError(m)
    BY <1>b, <1>4, <1>5 DEF resultLoadError, s
  <1>c. CASE retryOrFail(m)
    BY <1>c, <1>3, <1>4, <1>5 DEF retryOrFail, s, q
  <1>d. CASE resultCompilation(m)
    <2>1. SetRow(s, compiled(row[s], m.out = "ok")) /\ row[s].comp = "none" /\ evals' = evals
      BY <1>d DEF resultCompilation, applyCompilation, s
    <2>2. (m.out = "ok") \in BOOLEAN
      OBVIOUS
    <2> QED BY <2>1, <2>2, <1>1, <1>5, JudgedCompilation
  <1>e. CASE applyEvaluations(m)
    <2> DEFINE ev1 == evals'[s]
    <2>1. PICK stored : StoredBy(m, stored)
      BY <1>e, <1>1, EvaluationsStored
    <2>2. Evaluated(ev1) = Evaluated(ev) \cup stored /\ stored \subseteq FirstTestcases
            /\ \A t \in Submissions \ {s} : evals'[t] = evals[t]
      BY <2>1, <1>1 DEF StoredBy, s
    <2>3. row[s].comp = "ok" /\ ~row[s].eval /\ ~row[s].scored
      BY <1>e DEF applyEvaluations, Current, Finished, s
    <2>4. row[s].total = Cardinality(FirstTestcases) /\ Evaluated(ev) \subseteq FirstTestcases
      BY <1>1, <2>3 DEF Judged
    <2> HIDE DEF ev1, ev
    <2>5. CASE Cardinality(Evaluated(ev1)) < row[s].total
      <3>1. SetRow(s, row[s])
        BY <2>1, <2>5 DEF StoredBy, s, ev1
      <3>2. Judged(row[s], ev1)
        BY <2>2, <2>3, <2>4 DEF Judged
      <3> QED BY <3>1, <3>2, <2>2, <1>1, JudgedStep DEF ev1
    <2>6. CASE ~(Cardinality(Evaluated(ev1)) < row[s].total)
      <3>1. SetRow(s, scoreResult(row[s]))
        BY <2>1, <2>6 DEF StoredBy, s, ev1
      <3>2. Evaluated(ev1) = FirstTestcases
        BY <2>2, <2>4, <2>6, AllEvaluated
      <3>3. Judged(scoreResult(row[s]), ev1)
        BY <3>2, <2>3, <2>4, <1>1, ScoreRow DEF Judged
      <3> QED BY <3>1, <3>3, <2>2, <1>1, JudgedStep DEF ev1
    <2> QED BY <2>5, <2>6
  <1> QED BY <1>a, <1>b, <1>c, <1>d, <1>e DEF handleSubmissionResult

\* No testcase is added or deleted.
LEMMA NoEdits ==
    ASSUME MaxEdits = 0, TypeOK, NEW t
    PROVE  ~AddTestcase(t) /\ ~DeleteTestcase(t)
  BY DEF TypeOK, AddTestcase, DeleteTestcase

\* No step scores a row early, while the dataset is not edited.
LEMMA StepJudged ==
    ASSUME MaxEdits = 0, JudgedInv, [Next]_vars
    PROVE  JudgedInv'
  <1>1. TypeOK /\ TypeOK'
    BY StepType DEF JudgedInv
  <1>2. Undisturbed'
    BY <1>1, NoEdits DEF Next, vars, dbVars, JudgedInv, Undisturbed, Submit, newSubmission, Sweep, advance, Elapse,
           HandleResultOf, handleSubmissionResult, Deliver, Complete, Crash, CheckLost, CheckTimeout,
           AdminRequeue, Requeue, RequeueByID, Invalidate, ReloadDataset
  <1> SUFFICES \A s \in Submissions : Judged(row'[s], evals'[s])
    BY <1>1, <1>2 DEF JudgedInv, Judged, Evaluated
  <1>a. CASE \E s \in Submissions : newSubmission(s) \/ Sweep(s)
    BY <1>a, AdvanceJudged DEF newSubmission, Sweep
  <1>b. ASSUME NEW s \in Submissions, Elapse(s) PROVE \A t \in Submissions : Judged(row'[t], evals'[t])
    <2> DEFINE q == [row[s] EXCEPT !.enq = "stale"]
    <2>1. q.comp = row[s].comp /\ q.eval = row[s].eval /\ q.total = row[s].total /\ q.scored = row[s].scored
      BY <1>1 DEF TypeOK, Row
    <2>2. SetRow(s, q) /\ evals' = evals
      BY <1>b DEF Elapse
    <2> HIDE DEF q
    <2>3. Judged(q, evals'[s])
      BY <2>1, <2>2 DEF JudgedInv, Judged
    <2> QED BY <2>2, <2>3, JudgedStep
  <1>c. CASE \E s \in Submissions : HandleResultOf(s)
    BY <1>c, ResultJudged DEF HandleResultOf
  <1>d. ASSUME NEW s \in Submissions, NEW level \in Levels, Invalidate(s, level)
        PROVE  \A t \in Submissions : Judged(row'[t], evals'[t])
    <2> DEFINE r == invalidated(row[s], level)
               q == [r EXCEPT !.exes = IF level = "compilation" THEN FALSE ELSE @]
    <2>1. row[s] \in Row /\ r \in Row
      BY <1>1, JudgingAssumption, RowTypes DEF TypeOK
    <2>2. r.comp = (IF level = "compilation" THEN "none" ELSE row[s].comp)
            /\ r.eval = (IF level = "score" THEN row[s].eval ELSE FALSE) /\ ~r.scored /\ r.total = row[s].total
      BY <2>1, InvalidatedRow
    <2> HIDE DEF r
    <2>3. q.comp = r.comp /\ q.eval = r.eval /\ q.scored = r.scored /\ q.total = r.total
      BY <2>1 DEF Row
    <2>4. SetRow(s, q) /\ \A t \in Submissions \ {s} : evals'[t] = evals[t]
      BY <1>d, <1>1 DEF Invalidate, TypeOK, r
    <2>5. evals'[s] = IF level = "score" THEN evals[s] ELSE NoEvals
      BY <1>d, <1>1 DEF Invalidate, TypeOK
    <2>6. Evaluated(NoEvals) = {}
      BY DEF Evaluated, NoEvals
    <2> HIDE DEF q
    <2>7. Judged(row[s], evals[s])
      BY DEF JudgedInv
    <2>8. Judged(q, evals'[s])
      <3>1. CASE level = "score"
        BY <3>1, <2>2, <2>3, <2>5, <2>7 DEF Judged
      <3>2. CASE level # "score"
        BY <3>2, <2>2, <2>3, <2>5, <2>6, <2>7 DEF Judged
      <3> QED BY <3>1, <3>2
    <2> QED BY <2>4, <2>8, JudgedStep
  <1>e. CASE UNCHANGED <<row, evals>>
    BY <1>e DEF JudgedInv
  <1> QED BY <1>1, <1>a, <1>b, <1>c, <1>d, <1>e, NoEdits
          DEF Next, vars, dbVars, Submit, Deliver, Complete, Crash, CheckLost, CheckTimeout,
              AdminRequeue, Requeue, RequeueByID, ReloadDataset

\* Rows that came in scored came with their evaluations.
LEMMA InitJudged == Init => JudgedInv
  <1> SUFFICES ASSUME Init PROVE JudgedInv
    OBVIOUS
  <1>1. TypeOK /\ Undisturbed
    BY InitType DEF Init, Undisturbed
  <1>2. ASSUME NEW s \in Submissions PROVE Judged(row[s], evals[s])
    <2>1. CASE s \notin Imported
      <3>1. row[s] = NewRow /\ evals[s] = NoEvals
        BY <2>1 DEF Init
      <3> QED BY <3>1 DEF Judged, NewRow, Evaluated, NoEvals
    <2>2. CASE s \in Imported
      <3>1. PICK done \in SUBSET FirstTestcases :
               /\ evals[s] = [t \in Testcases |-> IF t \in done THEN 0 ELSE NoEval]
               /\ s \notin Unfinished => done = FirstTestcases
        <4>1. evals[s] \in ImportedEvals(s)
          BY <2>2 DEF Init
        <4> QED BY <4>1 DEF ImportedEvals
      <3>2. Evaluated(evals[s]) = done
        <4>1. done \subseteq Testcases
          BY <3>1, JudgingAssumption
        <4> QED BY <3>1, <4>1 DEF Evaluated, NoEval
      <3>3. row[s].comp = "ok" /\ row[s].total = Cardinality(FirstTestcases)
              /\ row[s].eval = (s \notin Unfinished) /\ row[s].scored = (s \notin Unfinished)
        BY <2>2 DEF Init, ImportedRow, NewRow
      <3> QED BY <3>1, <3>2, <3>3 DEF Judged
    <2> QED BY <2>1, <2>2
  <1> QED BY <1>1, <1>2 DEF JudgedInv

\* A row is scored only after a failed compilation or when every testcase
\* has an evaluation, however jobs and results were duplicated, lost,
\* retried or reordered.  The dataset must not be edited meanwhile: the
\* number of testcases a row waits for is taken at its compilation.
THEOREM ScoresJudged ==
    ASSUME MaxEdits = 0
    PROVE  Spec => []ScoredMeansJudged
  <1>1. JudgedInv /\ [Next]_vars => JudgedInv'
    BY StepJudged
  <1>2. JudgedInv => ScoredMeansJudged
    BY DEF JudgedInv, Undisturbed, Judged, ScoredMeansJudged
  <1> QED BY <1>1, <1>2, InitJudged, PTL DEF Spec

(***************************************************************************)
(* No work is lost.                                                        *)
(***************************************************************************)
\* The messages that still lead to a result: the jobs no worker has read,
\* those that will be taken back, those of a slot that owns its entry, and
\* the results the dispatcher has not acknowledged.
Held == {slot[w].job : w \in {v \in Slots : slot[v].busy /\ slot[v].owned}}

Work == BagToSet(waiting) \cup BagToSet(lost) \cup BagToSet(results) \cup Held

\* A message for row s as it is now.
For(m, s) == m.sub = s /\ m.gen = row[s].gen

\* Work is there for everything the row of s lacks.
Owed(s) ==
    \/ row[s].comp = "none" /\ \E m \in Work : For(m, s) /\ m.kind = "compile"
    \/ /\ row[s].comp = "ok" /\ ~row[s].eval
       /\ \A t \in FirstTestcases \ Evaluated(evals[s]) :
            \E m \in Work : For(m, s) /\ m.kind = "evaluate" /\ t \in m.tcs

\* No message is about the row of s as it is now.
Quiet(s) == \A m \in Outstanding : ~For(m, s)

Done(r) == r.scored \/ r.err # "none"

\* A row is finished with its last evaluation and with a failed compilation,
\* until it is reopened and nothing is enqueued for it.
Settled(r) ==
    /\ r.eval => Done(r)
    /\ r.comp = "fail" => Done(r) \/ r.enq = "never"

Waits(s) == row[s].exists /\ ~Done(row[s]) /\ row[s].enq # "never"

\* The inductive invariant of NoWorkLost.  A row that was never enqueued, or
\* was reopened, has no message at all: a late failure cannot mark it as
\* enqueued while nothing is done for it.
WorkInv ==
    /\ AttemptsInv /\ JudgedInv
    /\ \A s \in Submissions : Settled(row[s])
    /\ \A s \in Submissions : row[s].enq = "never" => Quiet(s)
    /\ drops = 0 => \A s \in Submissions : Waits(s) => Owed(s)

\* Removing one copy of an element leaves the others.
LEMMA BagKeeps ==
    ASSUME NEW B, NEW x, IsABag(B), NEW y \in BagToSet(B), y # x
    PROVE  y \in BagToSet(B (-) SetToBag({x}))
  BY DEF IsABag, BagToSet, SetToBag, (-)

\* The jobs of a set of testcases evaluate each of them.
LEMMA JobsCover ==
    ASSUME TypeOK, NEW s \in Submissions, NEW a \in Nat, NEW ids \in SUBSET Testcases,
           NEW t \in ids, t \in cached
    PROVE  \E j \in evaluateJobs(s, a, ids) :
              j.sub = s /\ j.gen = row[s].gen /\ j.kind = "evaluate" /\ t \in j.tcs
  <1> DEFINE some == ids \cap cached
             rank(u) == Cardinality({v \in some : v < u})
             group(x) == {u \in some : rank(u) \div TestcasesPerJob = rank(x) \div TestcasesPerJob}
  <1>0. Groups(some) = {group(x) : x \in some} /\ t \in group(t) /\ t \in some
    BY Zenon DEF Groups
  <1>1. PICK g \in Groups(some) : t \in g
    <2> HIDE DEF group, some
    <2> QED BY <1>0
  <1> DEFINE j == [kind |-> "evaluate", sub |-> s, gen |-> row[s].gen, attempt |-> a, tcs |-> g]
  <1>2. j \in evaluateJobs(s, a, ids)
    BY <1>1 DEF evaluateJobs
  <1> QED BY <1>1, <1>2

\* Until an enqueue is lost, all the jobs of a transaction are enqueued.
LEMMA ApplyAll ==
    ASSUME TypeOK, NEW jobs, apply(jobs), drops' = 0
    PROVE  BagToSet(waiting') = BagToSet(waiting) \cup jobs
  <1>1. waiting' = waiting (+) SetToBag(jobs)
    BY DEF apply, TypeOK
  <1> QED BY <1>1, BagAdd DEF TypeOK

(***************************************************************************)
(* A row that was never enqueued.                                          *)
(***************************************************************************)
\* A step marks a row as never enqueued only with a new generation.
EnqStep(s) == row'[s].enq = "never" => row[s].enq = "never" \/ row'[s].gen = row[s].gen + 1

\* A step that writes one row, and keeps its mark or sets one.
LEMMA EnqKept ==
    ASSUME TypeOK, NEW s \in Submissions, NEW r, SetRow(s, r),
           r.enq = "never" => row[s].enq = "never" \/ r.gen = row[s].gen + 1
    PROVE  \A t \in Submissions : EnqStep(t)
  BY SetRowAt DEF EnqStep

\* A compilation marks the row as enqueued, or leaves the mark.
LEMMA CompilationEnq ==
    ASSUME TypeOK, NEW r \in Row, NEW ok \in BOOLEAN
    PROVE  compiled(r, ok).enq \in {r.enq, "recent"}
  BY DEF compiled, scoreResult, systemError, Row

\* Advancing takes the mark from no row.
LEMMA AdvanceEnq ==
    ASSUME TypeOK, NEW s \in Submissions, advance(s)
    PROVE  \A t \in Submissions : EnqStep(t)
  <1> DEFINE r == [row[s] EXCEPT !.exists = TRUE]
             q == [r EXCEPT !.enq = "recent"]
             z == [r EXCEPT !.scored = TRUE]
  <1>1. r \in Row /\ r.enq = row[s].enq /\ r.gen = row[s].gen
    BY DEF TypeOK, Row
  <1> HIDE DEF r
  <1>2. q \in Row /\ q.enq = "recent" /\ z.enq = row[s].enq
    BY <1>1 DEF Row
  <1> HIDE DEF q, z
  <1>3. systemError(r, "load").enq = row[s].enq /\ scoreResult(r).enq = row[s].enq
          /\ compiled(q, TRUE).enq = "recent" /\ invalidated(r, "compilation").gen = row[s].gen + 1
    <2>1. systemError(r, "load").enq = row[s].enq
      BY <1>1, SystemErrorRow
    <2>2. scoreResult(r).enq = row[s].enq
      BY <1>1, ScoreRow
    <2>3. compiled(q, TRUE).enq = "recent"
      BY <1>2, CompilationEnq
    <2>4. invalidated(r, "compilation").gen = row[s].gen + 1
      <3>1. invalidated(r, "compilation").gen = r.gen + 1
        BY <1>1, RowFields
      <3> QED BY <1>1, <3>1
    <2> QED BY <2>1, <2>2, <2>3, <2>4
  <1>4. \E x \in {r, q, z, systemError(r, "load"), scoreResult(r), compiled(q, TRUE),
                  invalidated(r, "compilation")} : SetRow(s, x)
    BY DEF advance, advanceFinished, advanceLoadError, advanceCompile, advanceCacheHit, applyCompilation,
           advanceCompilationFailed, advanceEvaluate, advanceScore, r, q, z
  <1> QED BY <1>1, <1>2, <1>3, <1>4, EnqKept

\* Nor does a result.
LEMMA ResultEnq ==
    ASSUME TypeOK, NEW m \in BagToSet(results), handleSubmissionResult(m)
    PROVE  \A t \in Submissions : EnqStep(t)
  <1> DEFINE s == m.sub
             q == [row[s] EXCEPT !.enq = "recent"]
  <1>1. s \in Submissions /\ row[s] \in Row
    BY DEF TypeOK, Result
  <1>2. q.enq = "recent"
    BY <1>1 DEF Row
  <1> HIDE DEF q, s
  <1>3. systemError(row[s], "load").enq = row[s].enq /\ systemError(row[s], m.kind).enq = row[s].enq
          /\ scoreResult(row[s]).enq = row[s].enq
          /\ \A ok \in BOOLEAN : compiled(row[s], ok).enq \in {row[s].enq, "recent"}
    BY <1>1, SystemErrorRow, ScoreRow, CompilationEnq
  <1>4. CASE row' = row
    BY <1>4 DEF EnqStep
  <1>5. CASE \E x : SetRow(s, x) /\ x.enq \in {row[s].enq, "recent"}
    BY <1>1, <1>5, EnqKept
  <1>6. (m.out = "ok") \in BOOLEAN
    OBVIOUS
  <1>a. CASE resultStale(m)
    BY <1>a, <1>4 DEF resultStale
  <1>b. CASE resultLoadError(m)
    BY <1>b, <1>3, <1>5 DEF resultLoadError, s
  <1>c. CASE retryOrFail(m)
    BY <1>c, <1>2, <1>3, <1>5 DEF retryOrFail, s, q
  <1>d. CASE resultCompilation(m)
    BY <1>d, <1>3, <1>5, <1>6 DEF resultCompilation, applyCompilation, s
  <1>e. CASE applyEvaluations(m)
    BY <1>e, <1>3, <1>5 DEF applyEvaluations, s
  <1> QED BY <1>a, <1>b, <1>c, <1>d, <1>e DEF handleSubmissionResult

\* A row loses its mark with a new generation only.
LEMMA StepEnq ==
    ASSUME "score" \notin Levels, TypeOK, [Next]_vars
    PROVE  \A s \in Submissions : EnqStep(s)
  <1>a. CASE \E s \in Submissions : newSubmission(s) \/ Sweep(s)
    BY <1>a, AdvanceEnq DEF newSubmission, Sweep
  <1>b. ASSUME NEW s \in Submissions, Elapse(s) PROVE \A t \in Submissions : EnqStep(t)
    <2>1. [row[s] EXCEPT !.enq = "stale"].enq = "stale"
      BY DEF TypeOK, Row
    <2> QED BY <1>b, <2>1, EnqKept DEF Elapse
  <1>c. CASE \E s \in Submissions : HandleResultOf(s)
    BY <1>c, ResultEnq DEF HandleResultOf
  <1>d. ASSUME NEW s \in Submissions, NEW level \in Levels, Invalidate(s, level)
        PROVE  \A t \in Submissions : EnqStep(t)
    <2> DEFINE r == invalidated(row[s], level)
               q == [r EXCEPT !.exes = IF level = "compilation" THEN FALSE ELSE @]
    <2>1. row[s] \in Row /\ r \in Row /\ level # "score"
      BY JudgingAssumption, RowTypes DEF TypeOK
    <2>2. r.gen = row[s].gen + 1
      BY <2>1, RowGen
    <2> HIDE DEF r
    <2>3. q.gen = r.gen
      BY <2>1 DEF Row
    <2>4. SetRow(s, q)
      BY <1>d DEF Invalidate, r
    <2> HIDE DEF q
    <2> QED BY <2>2, <2>3, <2>4, EnqKept
  <1>e. CASE row' = row
    BY <1>e DEF EnqStep
  <1> QED BY <1>a, <1>b, <1>c, <1>d, <1>e
          DEF Next, vars, dbVars, Submit, Deliver, Complete, Crash, CheckLost, CheckTimeout, AdminRequeue,
              Requeue, RequeueByID, AddTestcase, DeleteTestcase, ReloadDataset

\* A row that was never enqueued has no message: none is sent without the
\* mark, and a reopened row is of a generation no message has reached.
LEMMA StepQuiet ==
    ASSUME "score" \notin Levels, WorkInv, [Next]_vars, NEW s \in Submissions, row'[s].enq = "never"
    PROVE  Quiet(s)'
  <1>1. TypeOK /\ Origins /\ NoFuture /\ EnqStep(s) /\ GenStep(s)
    BY StepOrigins, StepEnq DEF WorkInv, AttemptsInv, Origins
  <1>2. row[s].gen \in Nat
    BY <1>1 DEF TypeOK, Row
  <1> SUFFICES ASSUME NEW m \in Outstanding', m.sub = s, m.gen = row'[s].gen PROVE FALSE
    BY DEF Quiet, For
  <1>3. m \in Outstanding \/ \E k \in Jobs : k.sub = s /\ k.gen = m.gen /\ row' = row
    <2>1. CASE m \in Outstanding
      BY <2>1
    <2>2. CASE Fresh(m)
      BY <2>2 DEF Fresh
    <2>3. CASE Retaken(m)
      <3>1. PICK k \in Jobs : m = [k EXCEPT !.attempt = @ + 1] /\ row' = row
        BY <2>3 DEF Retaken
      <3>2. m.sub = k.sub /\ m.gen = k.gen
        BY <1>1, <3>1, JobsOf DEF Job
      <3> QED BY <3>1, <3>2
    <2>4. CASE Published(m)
      <3>1. PICK k \in Jobs : /\ row' = row
                              /\ \/ \E out : m = ForJob(k, out)
                                 \/ m = ForJob([k EXCEPT !.attempt = @ + 1], "lost")
        BY <2>4 DEF Published
      <3>2. m.sub = k.sub /\ m.gen = k.gen
        BY <1>1, <3>1, JobsOf DEF Job, ForJob
      <3> QED BY <3>1, <3>2
    <2> QED BY <1>1, <2>1, <2>2, <2>3, <2>4 DEF Origins, Outstanding
  <1>4. CASE row[s].enq = "never" /\ row'[s].gen = row[s].gen
    BY <1>3, <1>4 DEF WorkInv, Quiet, For, Outstanding
  <1>5. CASE row'[s].gen = row[s].gen + 1
    BY <1>1, <1>2, <1>3, <1>5 DEF NoFuture
  <1> QED BY <1>1, <1>4, <1>5 DEF EnqStep, GenStep

(***************************************************************************)
(* Work is carried from step to step.                                      *)
(***************************************************************************)
\* n is about the same work as m.
Same(m, n) == n.sub = m.sub /\ n.gen = m.gen /\ n.kind = m.kind /\ n.tcs = m.tcs

\* Every message for the row of s is still there, or another for its work.
Carried(s) == \A m \in Work : m.sub = s => \E n \in Work' : Same(m, n)

\* Work stays owed while its messages are carried on.
LEMMA OwedCarried ==
    ASSUME NEW s, Carried(s), Owed(s), row'[s].gen = row[s].gen, row'[s].comp = row[s].comp,
           row'[s].eval = row[s].eval, Evaluated(evals[s]) \subseteq Evaluated(evals'[s])
    PROVE  Owed(s)'
  <1>1. ASSUME NEW m \in Work, For(m, s) PROVE \E n \in Work' : For(n, s)' /\ n.kind = m.kind /\ n.tcs = m.tcs
    BY <1>1 DEF Carried, Same, For
  <1>2. CASE row[s].comp = "none" /\ \E m \in Work : For(m, s) /\ m.kind = "compile"
    BY <1>1, <1>2 DEF Owed
  <1>3. CASE /\ row[s].comp = "ok" /\ ~row[s].eval
             /\ \A t \in FirstTestcases \ Evaluated(evals[s]) :
                  \E m \in Work : For(m, s) /\ m.kind = "evaluate" /\ t \in m.tcs
    <2>1. ASSUME NEW t \in FirstTestcases \ Evaluated(evals'[s])
          PROVE  \E n \in Work' : For(n, s)' /\ n.kind = "evaluate" /\ t \in n.tcs
      BY <1>1, <1>3
    <2>2. \A t \in FirstTestcases \ Evaluated(evals[s])' :
             \E n \in Work' : For(n, s)' /\ n.kind = "evaluate" /\ t \in n.tcs
      BY <2>1 DEF Evaluated
    <2> QED BY <1>3, <2>2 DEF Owed
  <1> QED BY <1>2, <1>3 DEF Owed

\* The messages a step keeps where they are.
LEMMA CarriedBags ==
    ASSUME NEW s,
           \A m \in BagToSet(waiting) : \E n \in Work' : Same(m, n),
           \A m \in BagToSet(lost) : \E n \in Work' : Same(m, n),
           \A m \in BagToSet(results) : \E n \in Work' : Same(m, n),
           \A w \in Slots : slot[w].busy /\ slot[w].owned => \E n \in Work' : Same(slot[w].job, n)
    PROVE  Carried(s)
  BY DEF Carried, Work, Held

\* A message that stays is the same work.
LEMMA Kept ==
    ASSUME NEW m
    PROVE  /\ Same(m, m)
           /\ m \in BagToSet(waiting') \/ m \in BagToSet(lost') \/ m \in BagToSet(results') => m \in Work'
           /\ \A w \in Slots : slot'[w].busy /\ slot'[w].owned => slot'[w].job \in Work'
  BY DEF Same, Work, Held

\* A delivered job is with its worker.
LEMMA DeliverCarries ==
    ASSUME TypeOK, NEW w \in Slots, Deliver(w), NEW s
    PROVE  Carried(s)
  <1>1. PICK j \in BagToSet(waiting) :
             /\ waiting' = waiting (-) SetToBag({j})
             /\ slot' = [slot EXCEPT ![w] = [busy |-> TRUE, job |-> j, owned |-> TRUE]]
    BY DEF Deliver
  <1>2. slot'[w].busy /\ slot'[w].owned /\ slot'[w].job = j
          /\ \A v \in Slots \ {w} : slot'[v] = slot[v]
    BY <1>1 DEF TypeOK
  <1>3. \A m \in BagToSet(waiting) : m # j => m \in BagToSet(waiting')
    BY <1>1, BagKeeps DEF TypeOK
  <1>4. lost' = lost /\ results' = results /\ ~slot[w].busy
    BY DEF Deliver
  <1>5. \A m \in BagToSet(waiting) : \E n \in Work' : Same(m, n)
    BY <1>2, <1>3, Kept
  <1>6. /\ \A m \in BagToSet(lost) : \E n \in Work' : Same(m, n)
        /\ \A m \in BagToSet(results) : \E n \in Work' : Same(m, n)
    BY <1>4, Kept
  <1>7. \A v \in Slots : slot[v].busy /\ slot[v].owned => \E n \in Work' : Same(slot[v].job, n)
    BY <1>2, <1>4, Kept
  <1> QED BY <1>5, <1>6, <1>7, CarriedBags

\* A completed job is in its result.
LEMMA CompleteCarries ==
    ASSUME TypeOK, NEW w \in Slots, Complete(w), NEW s
    PROVE  Carried(s)
  <1> DEFINE j == slot[w].job
  <1>1. PICK out : results' = results (+) SetToBag({ForJob(j, out)})
    BY DEF Complete
  <1>2. BagToSet(results') = BagToSet(results) \cup {ForJob(j, out)}
    BY <1>1, BagAdd DEF TypeOK
  <1>3. Same(j, ForJob(j, out)) /\ ForJob(j, out) \in Work'
    BY <1>2, Kept DEF Same, ForJob
  <1>4. lost' = lost /\ waiting' = waiting /\ \A v \in Slots \ {w} : slot'[v] = slot[v]
    BY DEF Complete, TypeOK
  <1>5. /\ \A m \in BagToSet(waiting) : \E n \in Work' : Same(m, n)
        /\ \A m \in BagToSet(lost) : \E n \in Work' : Same(m, n)
        /\ \A m \in BagToSet(results) : \E n \in Work' : Same(m, n)
    BY <1>2, <1>4, Kept
  <1>6. \A v \in Slots : slot[v].busy /\ slot[v].owned => \E n \in Work' : Same(slot[v].job, n)
    BY <1>3, <1>4, Kept
  <1> QED BY <1>5, <1>6, CarriedBags

\* A crashed worker's job is pending, to be taken back.
LEMMA CrashCarries ==
    ASSUME TypeOK, NEW w \in Slots, Crash(w), NEW s
    PROVE  Carried(s)
  <1>1. BagToSet(lost') = BagToSet(lost) \cup (IF slot[w].owned THEN {slot[w].job} ELSE {})
    BY BagAdd DEF TypeOK, Crash
  <1>2. results' = results /\ waiting' = waiting /\ \A v \in Slots \ {w} : slot'[v] = slot[v]
    BY DEF Crash, TypeOK
  <1>3. /\ \A m \in BagToSet(waiting) : \E n \in Work' : Same(m, n)
        /\ \A m \in BagToSet(lost) : \E n \in Work' : Same(m, n)
        /\ \A m \in BagToSet(results) : \E n \in Work' : Same(m, n)
    BY <1>1, <1>2, Kept
  <1>4. \A v \in Slots : slot[v].busy /\ slot[v].owned => \E n \in Work' : Same(slot[v].job, n)
    BY <1>1, <1>2, Kept
  <1> QED BY <1>3, <1>4, CarriedBags

\* A job taken back is queued again or reported, unless the report is lost.
LEMMA RequeueCarries ==
    ASSUME TypeOK, NEW j, TakeLost(j) \/ \E w \in Slots : TakeRunning(w, j),
           Requeue(j) \/ RequeueByID(j), drops' = 0, NEW s
    PROVE  Carried(s)
  <1> DEFINE k == [j EXCEPT !.attempt = @ + 1]
  <1>1. j \in Job
    BY TakeType
  <1>2. Same(j, k) /\ \A out : Same(j, ForJob(k, out))
    BY <1>1 DEF Same, ForJob, Job
  <1> HIDE DEF k
  <1>3. \/ waiting' = waiting (+) SetToBag({k}) /\ results' = results
        \/ waiting' = waiting /\ results' = results (+) SetToBag({ForJob(k, "lost")})
    BY DEF Requeue, RequeueByID, TypeOK, k
  <1>4. /\ BagToSet(waiting) \subseteq BagToSet(waiting') /\ BagToSet(results) \subseteq BagToSet(results')
        /\ \E n \in Work' : Same(j, n)
    <2>1. CASE waiting' = waiting (+) SetToBag({k}) /\ results' = results
      BY <2>1, <1>2, BagAdd, Kept DEF TypeOK
    <2>2. CASE waiting' = waiting /\ results' = results (+) SetToBag({ForJob(k, "lost")})
      BY <2>2, <1>2, BagAdd, Kept DEF TypeOK
    <2> QED BY <1>3, <2>1, <2>2
  <1>5. /\ \A m \in BagToSet(waiting) : \E n \in Work' : Same(m, n)
        /\ \A m \in BagToSet(results) : \E n \in Work' : Same(m, n)
    BY <1>4, Kept
  <1>6. CASE TakeLost(j)
    <2>1. lost' = lost (-) SetToBag({j}) /\ slot' = slot
      BY <1>6 DEF TakeLost
    <2>2. \A m \in BagToSet(lost) : m # j => m \in BagToSet(lost')
      BY <2>1, BagKeeps DEF TypeOK
    <2>3. \A m \in BagToSet(lost) : \E n \in Work' : Same(m, n)
      BY <1>4, <2>2, Kept
    <2>4. \A v \in Slots : slot[v].busy /\ slot[v].owned => \E n \in Work' : Same(slot[v].job, n)
      BY <2>1, Kept
    <2> QED BY <1>5, <2>3, <2>4, CarriedBags
  <1>7. ASSUME NEW w \in Slots, TakeRunning(w, j) PROVE Carried(s)
    <2>1. lost' = lost /\ slot[w].job = j /\ \A v \in Slots \ {w} : slot'[v] = slot[v]
      BY <1>7 DEF TakeRunning, TypeOK
    <2>2. \A m \in BagToSet(lost) : \E n \in Work' : Same(m, n)
      BY <2>1, Kept
    <2>3. \A v \in Slots : slot[v].busy /\ slot[v].owned => \E n \in Work' : Same(slot[v].job, n)
      BY <1>4, <2>1, Kept
    <2> QED BY <1>5, <2>2, <2>3, CarriedBags
  <1> QED BY <1>6, <1>7

(***************************************************************************)
(* What the dispatcher's transactions leave.                               *)
(***************************************************************************)
\* What is left of WorkInv to prove of the row a step wrote.
Sound(s) == Settled(row'[s]) /\ (drops' = 0 => (Waits(s)' => Owed(s)'))

\* A step that wrote only the row of s, and added to the queue.
LEMMA OthersSound ==
    ASSUME WorkInv, NEW s \in Submissions, drops' = 0 => drops = 0,
           \A t \in Submissions \ {s} : Carried(t) /\ row'[t] = row[t] /\ evals'[t] = evals[t]
    PROVE  \A t \in Submissions \ {s} : Sound(t)
  <1> SUFFICES ASSUME NEW t \in Submissions \ {s} PROVE Sound(t)
    OBVIOUS
  <1>1. Settled(row'[t])
    BY DEF WorkInv
  <1>2. ASSUME drops' = 0, Waits(t)' PROVE Owed(t)'
    <2>1. Waits(t)
      BY <1>2 DEF Waits
    <2>2. Owed(t)
      BY <1>2, <2>1 DEF WorkInv
    <2> QED BY <2>2, OwedCarried
  <1> QED BY <1>1, <1>2 DEF Sound

\* A finished row, or one that waits for nothing.
LEMMA DoneSound ==
    ASSUME NEW s, Done(row'[s]) \/ (row'[s].enq = "never" /\ ~row'[s].eval)
    PROVE  Sound(s)
  BY DEF Sound, Settled, Waits, Done

\* Drops are never forgotten.
LEMMA DropsGrow ==
    ASSUME TypeOK, (\E jobs : apply(jobs)) \/ NoJobs
    PROVE  drops' = 0 => drops = 0
  BY DEF apply, NoJobs, TypeOK

\* The jobs of apply, or none, added to the queue.
LEMMA QueueGrows ==
    ASSUME TypeOK, (\E jobs : apply(jobs)) \/ NoJobs
    PROVE  BagToSet(waiting) \subseteq BagToSet(waiting')
  <1>1. ASSUME NEW S, waiting' = waiting (+) SetToBag(S) PROVE BagToSet(waiting) \subseteq BagToSet(waiting')
    BY <1>1, BagAdd DEF TypeOK
  <1> QED BY <1>1 DEF apply, NoJobs

\* A row that is being compiled, or to be evaluated, and its jobs.
LEMMA CompileSound ==
    ASSUME TypeOK, NEW s \in Submissions, NEW a \in Nat, apply({compileJob(s, a)}),
           row'[s].gen = row[s].gen, row'[s].comp = "none", ~row'[s].eval
    PROVE  Sound(s)
  <1>1. PICK j : j = compileJob(s, a)
    OBVIOUS
  <1>2. drops' = 0 => j \in Work'
    BY <1>1, ApplyAll, Kept
  <1>3. For(j, s)' /\ j.kind = "compile"
    BY <1>1 DEF For, compileJob
  <1>4. drops' = 0 => Owed(s)'
    BY <1>2, <1>3 DEF Owed
  <1> QED BY <1>4 DEF Sound, Settled

\* Jobs for the testcases that are missing are all the row waits for.
LEMMA EvaluateSound ==
    ASSUME TypeOK, Undisturbed, NEW s \in Submissions, NEW ids \in SUBSET Testcases,
           apply(evaluateJobs(s, 0, ids)), FirstTestcases \ Evaluated(evals'[s]) \subseteq ids,
           row'[s].gen = row[s].gen, row'[s].comp = "ok", ~row'[s].eval
    PROVE  Sound(s)
  <1>1. ASSUME drops' = 0, NEW t \in FirstTestcases \ Evaluated(evals'[s])
        PROVE  \E n \in Work' : For(n, s)' /\ n.kind = "evaluate" /\ t \in n.tcs
    <2>1. t \in ids /\ t \in cached /\ 0 \in Nat
      BY <1>1 DEF Undisturbed
    <2>2. PICK j \in evaluateJobs(s, 0, ids) :
             j.sub = s /\ j.gen = row[s].gen /\ j.kind = "evaluate" /\ t \in j.tcs
      BY <2>1, JobsCover
    <2>3. j \in Work'
      BY <1>1, <2>2, ApplyAll, Kept
    <2> QED BY <2>2, <2>3 DEF For
  <1>2. drops' = 0 => Owed(s)'
    BY <1>1 DEF Owed, Evaluated
  <1> QED BY <1>2 DEF Sound, Settled

\* A compilation, cached or reported.
LEMMA CompilationSound ==
    ASSUME TypeOK, Undisturbed, NEW s \in Submissions, NEW r \in Row, NEW ok \in BOOLEAN,
           r.gen = row[s].gen, ~r.eval, applyCompilation(s, r, ok)
    PROVE  Sound(s)
  <1> DEFINE c == compiled(r, ok)
  <1>1. row'[s] = c
    BY SetRowAt DEF applyCompilation
  <1>2. /\ c.gen = r.gen /\ c.comp = (IF ok THEN "ok" ELSE "fail")
        /\ ~ok => c.scored
        /\ ok /\ cached # {} => ~c.eval
        /\ ok /\ cached = {} => c.scored \/ c.err = "score"
    BY CompiledRow
  <1> HIDE DEF c
  <1>3. CASE ~ok \/ cached = {}
    BY <1>1, <1>2, <1>3, DoneSound DEF Done
  <1>4. CASE ok /\ cached # {}
    <2>1. apply(evaluateJobs(s, 0, cached)) /\ cached \in SUBSET Testcases
      BY <1>4 DEF applyCompilation, TypeOK
    <2>2. FirstTestcases \ Evaluated(evals'[s]) \subseteq cached
      BY DEF Undisturbed
    <2> QED BY <1>1, <1>2, <1>4, <2>1, <2>2, EvaluateSound
  <1> QED BY <1>3, <1>4

\* Advancing leaves no work unowed.
LEMMA AdvanceSound ==
    ASSUME WorkInv, NEW s \in Submissions, advance(s)
    PROVE  \A t \in Submissions : Sound(t)
  <1> DEFINE r == [row[s] EXCEPT !.exists = TRUE]
             q == [r EXCEPT !.enq = "recent"]
             z == [r EXCEPT !.scored = TRUE]
  <1>1. TypeOK /\ Undisturbed /\ row[s] \in Row /\ Settled(row[s])
    BY DEF WorkInv, AttemptsInv, JudgedInv, TypeOK
  <1>2. r \in Row /\ r.gen = row[s].gen /\ r.comp = row[s].comp /\ r.eval = row[s].eval
          /\ r.scored = row[s].scored /\ r.err = row[s].err
    BY <1>1 DEF Row
  <1> HIDE DEF r
  <1>3. q \in Row /\ q.gen = r.gen /\ q.comp = r.comp /\ q.eval = r.eval /\ z.scored
    BY <1>2 DEF Row
  <1> HIDE DEF q, z
  <1>4. ~Finished(s) => ~r.eval
    BY <1>1, <1>2 DEF Settled, Done, Finished
  <1>5. ASSUME NEW x, SetRow(s, x), Done(x) PROVE Sound(s)
    BY <1>1, <1>5, SetRowAt, DoneSound
  <1>6. Sound(s)
    <2>a. CASE advanceFinished(s, r)
      BY <2>a, <1>2, <1>5 DEF advanceFinished, Finished, Done
    <2>b. CASE advanceLoadError(s, r)
      <3>1. systemError(r, "load").err = "load"
        BY <1>2, SystemErrorRow
      <3> QED BY <2>b, <3>1, <1>5 DEF advanceLoadError, Done
    <2>c. CASE advanceCompile(s, r)
      <3>1. row'[s] = q /\ apply({compileJob(s, 0)}) /\ q.comp = "none" /\ ~q.eval /\ 0 \in Nat
        BY <2>c, <1>1, <1>3, <1>4, SetRowAt DEF advanceCompile, q
      <3> QED BY <3>1, <1>1, <1>2, <1>3, CompileSound
    <2>d. CASE advanceCacheHit(s, r)
      <3>1. applyCompilation(s, q, TRUE) /\ ~q.eval
        BY <2>d, <1>3, <1>4 DEF advanceCacheHit, q
      <3> QED BY <3>1, <1>1, <1>2, <1>3, CompilationSound
    <2>e. CASE advanceCompilationFailed(s, r)
      BY <2>e, <1>3, <1>5 DEF advanceCompilationFailed, z, Done
    <2>f. CASE advanceEvaluate(s, r)
      <3> DEFINE missing == cached \ Evaluated(evals[s])
      <3>1. missing \in SUBSET Testcases /\ FirstTestcases \ Evaluated(evals'[s]) \subseteq missing
        BY <2>f, <1>1 DEF TypeOK, Undisturbed, advanceEvaluate
      <3> HIDE DEF missing
      <3>2. CASE SetRow(s, q) /\ apply(evaluateJobs(s, 0, missing))
        <4>1. row'[s] = q /\ q.comp = "ok" /\ ~q.eval
          BY <2>f, <3>2, <1>1, <1>3, SetRowAt DEF advanceEvaluate
        <4> QED BY <3>1, <3>2, <4>1, <1>1, <1>2, <1>3, EvaluateSound
      <3>3. CASE SetRow(s, invalidated(r, "compilation"))
        <4>1. invalidated(r, "compilation").enq = "never" /\ ~invalidated(r, "compilation").eval
          BY <1>2, InvalidatedRow
        <4> QED BY <3>3, <4>1, <1>1, SetRowAt, DoneSound
      <3> QED BY <2>f, <3>2, <3>3 DEF advanceEvaluate, missing, q
    <2>g. CASE advanceScore(s, r)
      <3>1. Done(scoreResult(r))
        BY <1>2, ScoreRow DEF Done
      <3> QED BY <2>g, <3>1, <1>5 DEF advanceScore
    <2> QED BY <2>a, <2>b, <2>c, <2>d, <2>e, <2>f, <2>g DEF advance, r
  <1>7. /\ (\E jobs : apply(jobs)) \/ NoJobs
        /\ \A t \in Submissions \ {s} : row'[t] = row[t] /\ evals'[t] = evals[t]
    BY <1>1, SetRowAt DEF advance, advanceFinished, advanceLoadError, advanceCompile, advanceCacheHit,
           applyCompilation, advanceCompilationFailed, advanceEvaluate, advanceScore
  <1>8. \A t \in Submissions \ {s} : Carried(t)
    <2>1. lost' = lost /\ results' = results /\ slot' = slot
      BY DEF advance
    <2> QED BY <1>1, <1>7, <2>1, QueueGrows, Kept, CarriedBags
  <1>9. drops' = 0 => drops = 0
    BY <1>1, <1>7, DropsGrow
  <1> QED BY <1>6, <1>7, <1>8, <1>9, OthersSound

\* The messages left when one result is handled: all the others, and that
\* one too if the acknowledgement is lost.
LEMMA OthersKept ==
    ASSUME TypeOK, NEW m \in BagToSet(results), handleSubmissionResult(m)
    PROVE  \A n \in Work : n # m => n \in Work'
  <1>1. (\E jobs : apply(jobs)) \/ NoJobs
    BY DEF handleSubmissionResult, resultStale, resultLoadError, retryOrFail, resultCompilation,
           applyCompilation, applyEvaluations
  <1>2. BagToSet(waiting) \subseteq BagToSet(waiting')
    BY <1>1, QueueGrows
  <1>3. \A n \in BagToSet(results) : n # m => n \in BagToSet(results')
    BY BagKeeps DEF handleSubmissionResult, AckResults, TypeOK
  <1>4. lost' = lost /\ slot' = slot
    BY DEF handleSubmissionResult
  <1> QED BY <1>2, <1>3, <1>4 DEF Work, Held

\* The work of a row is kept but for what m was about: the row does not wait
\* for m, or its work is queued again or done.
LEMMA OwedWithout ==
    ASSUME TypeOK, NEW m \in BagToSet(results), handleSubmissionResult(m), NEW s, Owed(s),
           row'[s].gen = row[s].gen, row'[s].comp = row[s].comp, row'[s].eval = row[s].eval,
           Evaluated(evals[s]) \subseteq Evaluated(evals'[s]),
           For(m, s) /\ m.kind = "compile" /\ row[s].comp = "none"
             => \E n \in Work' : For(n, s)' /\ n.kind = "compile",
           For(m, s) /\ m.kind = "evaluate" /\ row[s].comp = "ok"
             => \A t \in m.tcs \cap FirstTestcases :
                  \/ t \in Evaluated(evals'[s])
                  \/ \E n \in Work' : For(n, s)' /\ n.kind = "evaluate" /\ t \in n.tcs
    PROVE  Owed(s)'
  <1>1. ASSUME NEW n \in Work, For(n, s), n # m PROVE n \in Work' /\ For(n, s)'
    BY <1>1, OthersKept DEF For
  <1>2. CASE row[s].comp = "none" /\ \E n \in Work : For(n, s) /\ n.kind = "compile"
    <2>1. PICK n \in Work : For(n, s) /\ n.kind = "compile"
      BY <1>2
    <2>2. \E k \in Work' : For(k, s)' /\ k.kind = "compile"
      BY <1>1, <1>2, <2>1
    <2> QED BY <1>2, <2>2 DEF Owed
  <1>3. CASE /\ row[s].comp = "ok" /\ ~row[s].eval
             /\ \A t \in FirstTestcases \ Evaluated(evals[s]) :
                  \E n \in Work : For(n, s) /\ n.kind = "evaluate" /\ t \in n.tcs
    <2>1. ASSUME NEW t \in FirstTestcases \ Evaluated(evals'[s])
          PROVE  \E n \in Work' : For(n, s)' /\ n.kind = "evaluate" /\ t \in n.tcs
      <3>1. PICK n \in Work : For(n, s) /\ n.kind = "evaluate" /\ t \in n.tcs
        BY <1>3, <2>1
      <3> QED BY <1>1, <1>3, <2>1, <3>1
    <2>2. \A t \in FirstTestcases \ Evaluated(evals[s])' :
             \E n \in Work' : For(n, s)' /\ n.kind = "evaluate" /\ t \in n.tcs
      BY <2>1 DEF Evaluated
    <2> QED BY <1>3, <2>2 DEF Owed
  <1> QED BY <1>2, <1>3 DEF Owed

\* A failed execution that is retried.
LEMMA RetrySound ==
    ASSUME WorkInv, NEW m \in BagToSet(results), handleSubmissionResult(m), retryOrFail(m),
           m.attempt + 1 < MaxAttempts
    PROVE  Sound(m.sub)
  <1> DEFINE s == m.sub
             q == [row[s] EXCEPT !.enq = "recent"]
  <1>1. TypeOK /\ Undisturbed /\ s \in Submissions /\ row[s] \in Row /\ Settled(row[s])
          /\ m.attempt + 1 \in Nat /\ m.tcs \in SUBSET Testcases /\ MaxAttempts \in Nat
    BY JudgingAssumption DEF WorkInv, AttemptsInv, JudgedInv, TypeOK, Result
  <1>2. q.gen = row[s].gen /\ q.comp = row[s].comp /\ q.eval = row[s].eval /\ q.exists = row[s].exists
          /\ q.scored = row[s].scored /\ q.err = row[s].err
    BY <1>1 DEF Row
  <1> HIDE DEF s, q
  <1>3. Current(m) /\ SetRow(s, q) /\ UNCHANGED evals
    BY <1>1 DEF retryOrFail, s, q
  <1>4. For(m, s) /\ m \in Outstanding /\ row[s].exists /\ ~Done(row[s])
    BY <1>3 DEF For, Current, Finished, Done, Outstanding, s
  <1>5. row'[s] = q
    BY <1>1, <1>3, SetRowAt
  <1>6. row[s].enq # "never"
    BY <1>1, <1>4 DEF WorkInv, Quiet
  <1>7. Settled(row'[s])
    BY <1>1, <1>2, <1>4, <1>5, <1>6 DEF Settled, Done
  <1>8. ASSUME drops' = 0 PROVE Owed(s)'
    <2>1. drops = 0 /\ Evaluated(evals[s]) \subseteq Evaluated(evals'[s])
      BY <1>1, <1>3, <1>8, DropsGrow DEF retryOrFail
    <2>2. Owed(s)
      BY <2>1, <1>1, <1>4, <1>6 DEF WorkInv, Waits
    <2>3. CASE m.kind = "compile"
      <3>1. PICK j : j = compileJob(s, m.attempt + 1)
        OBVIOUS
      <3>2. apply({j})
        BY <2>3, <3>1, <1>1 DEF retryOrFail, s
      <3>3. j \in Work' /\ For(j, s)' /\ j.kind = "compile"
        BY <3>1, <3>2, <1>1, <1>2, <1>5, <1>8, ApplyAll, Kept DEF For, compileJob
      <3> QED BY <2>1, <2>2, <2>3, <3>3, <1>1, <1>2, <1>5, OwedWithout
    <2>4. CASE m.kind # "compile"
      <3>1. apply(evaluateJobs(s, m.attempt + 1, m.tcs))
        BY <2>4, <1>1 DEF retryOrFail, s
      <3>2. ASSUME NEW t \in m.tcs \cap FirstTestcases
            PROVE  \E n \in Work' : For(n, s)' /\ n.kind = "evaluate" /\ t \in n.tcs
        <4>1. PICK j \in evaluateJobs(s, m.attempt + 1, m.tcs) :
                 j.sub = s /\ j.gen = row[s].gen /\ j.kind = "evaluate" /\ t \in j.tcs
          BY <3>2, <1>1, JobsCover DEF Undisturbed
        <4>2. j \in Work' /\ For(j, s)'
          BY <3>1, <4>1, <1>1, <1>2, <1>5, <1>8, ApplyAll, Kept DEF For
        <4> QED BY <4>1, <4>2
      <3> QED BY <2>1, <2>2, <2>4, <3>2, <1>1, <1>2, <1>5, OwedWithout
    <2> QED BY <2>3, <2>4
  <1>9. Sound(s)
    BY <1>7, <1>8 DEF Sound
  <1> QED BY <1>9 DEF s

\* A result the row does not wait for.
LEMMA StaleSound ==
    ASSUME WorkInv, NEW m \in BagToSet(results), handleSubmissionResult(m), resultStale(m)
    PROVE  Sound(m.sub)
  <1> DEFINE s == m.sub
  <1>1. TypeOK /\ s \in Submissions /\ Settled(row[s])
    BY DEF WorkInv, AttemptsInv, TypeOK, Result
  <1>2. row' = row /\ evals' = evals /\ (drops' = 0 => drops = 0)
    BY DEF resultStale, NoJobs
  <1> SUFFICES ASSUME drops' = 0, Waits(s)' PROVE Owed(s)'
    BY <1>1, <1>2 DEF Sound
  <1>3. row[s].exists /\ ~Finished(s) /\ Owed(s)
    BY <1>1, <1>2 DEF WorkInv, Waits, Done, Finished
  <1>4. For(m, s) => \/ m.kind = "compile" /\ row[s].comp # "none"
                     \/ m.kind = "evaluate" /\ (row[s].comp # "ok" \/ row[s].eval)
    BY <1>3 DEF resultStale, For, Current
  <1>5. row[s].comp = "ok" => ~row[s].eval
    BY <1>3 DEF Owed
  <1> HIDE DEF s
  <1> QED BY <1>1, <1>2, <1>3, <1>4, <1>5, OwedWithout

\* Evaluations that are stored, the last of the row or not.
LEMMA StoredSound ==
    ASSUME WorkInv, NEW m \in BagToSet(results), handleSubmissionResult(m), applyEvaluations(m)
    PROVE  Sound(m.sub)
  <1> DEFINE s == m.sub
  <1>1. TypeOK /\ Undisturbed /\ s \in Submissions /\ row[s] \in Row /\ Settled(row[s])
    BY DEF WorkInv, AttemptsInv, JudgedInv, TypeOK, Result
  <1>2. PICK stored : StoredBy(m, stored)
    BY <1>1, EvaluationsStored
  <1>3. CASE SetRow(s, scoreResult(row[s]))
    BY <1>1, <1>3, ScoreRow, SetRowAt, DoneSound DEF Done
  <1>4. CASE SetRow(s, row[s])
    <2>1. row'[s] = row[s] /\ (drops' = 0 => drops = 0)
      BY <1>1, <1>4, SetRowAt DEF applyEvaluations, NoJobs
    <2>2. /\ Evaluated(evals[s]) \subseteq Evaluated(evals'[s])
          /\ m.tcs \cap FirstTestcases \subseteq Evaluated(evals'[s])
      BY <1>1, <1>2 DEF StoredBy, Undisturbed
    <2>3. m.kind = "evaluate"
      BY DEF applyEvaluations
    <2> SUFFICES ASSUME drops' = 0, Waits(s)' PROVE Owed(s)'
      BY <1>1, <2>1 DEF Sound
    <2>4. Owed(s)
      BY <1>1, <2>1 DEF WorkInv, Waits
    <2> HIDE DEF s
    <2> QED BY <1>1, <2>1, <2>2, <2>3, <2>4, OwedWithout
  <1> QED BY <1>2, <1>3, <1>4 DEF StoredBy

\* Nor does a result.
LEMMA ResultSound ==
    ASSUME WorkInv, NEW m \in BagToSet(results), handleSubmissionResult(m)
    PROVE  \A t \in Submissions : Sound(t)
  <1> DEFINE s == m.sub
  <1>1. TypeOK /\ Undisturbed /\ s \in Submissions /\ row[s] \in Row /\ Settled(row[s])
          /\ m.attempt \in Nat /\ MaxAttempts \in Nat
    BY JudgingAssumption DEF WorkInv, AttemptsInv, JudgedInv, TypeOK, Result
  <1>2. \A what : systemError(row[s], what).err = what
    BY <1>1, SystemErrorRow
  <1>3. Sound(s)
    <2>a. CASE resultStale(m)
      BY <2>a, StaleSound
    <2>b. CASE resultLoadError(m)
      BY <2>b, <1>1, <1>2, SetRowAt, DoneSound DEF resultLoadError, Done
    <2>c. CASE retryOrFail(m)
      <3>1. CASE m.attempt + 1 < MaxAttempts
        BY <2>c, <3>1, RetrySound
      <3>2. CASE m.attempt + 1 >= MaxAttempts
        <4>1. SetRow(s, systemError(row[s], m.kind)) /\ m.kind # "none"
          BY <2>c, <3>2, <1>1 DEF retryOrFail, TypeOK, Result, Kinds
        <4> QED BY <4>1, <1>1, <1>2, SetRowAt, DoneSound DEF Done
      <3> QED BY <1>1, <3>1, <3>2
    <2>d. CASE resultCompilation(m)
      <3>1. applyCompilation(s, row[s], m.out = "ok") /\ ~Finished(s)
        BY <2>d DEF resultCompilation, Current
      <3>2. ~row[s].eval /\ (m.out = "ok") \in BOOLEAN
        BY <1>1, <3>1 DEF Settled, Done, Finished
      <3> QED BY <3>1, <3>2, <1>1, CompilationSound
    <2>e. CASE applyEvaluations(m)
      BY <2>e, StoredSound
    <2> QED BY <2>a, <2>b, <2>c, <2>d, <2>e DEF handleSubmissionResult
  <1>4. /\ (\E jobs : apply(jobs)) \/ NoJobs
        /\ \A t \in Submissions \ {s} : row'[t] = row[t]
    BY <1>1, SetRowAt DEF handleSubmissionResult, resultStale, resultLoadError, retryOrFail,
           resultCompilation, applyCompilation, applyEvaluations
  <1>5. \A t \in Submissions \ {s} : evals'[t] = evals[t]
    BY <1>1 DEF handleSubmissionResult, resultStale, resultLoadError, retryOrFail,
           resultCompilation, applyCompilation, applyEvaluations, TypeOK
  <1>6. \A t \in Submissions \ {s} : Carried(t)
    BY <1>1, OthersKept, Kept DEF Carried
  <1>7. drops' = 0 => drops = 0
    BY <1>1, <1>4, DropsGrow
  <1> QED BY <1>1, <1>3, <1>4, <1>5, <1>6, <1>7, OthersSound

(***************************************************************************)
(* Every step.                                                             *)
(***************************************************************************)
\* A step that leaves the rows alone and carries the work.
LEMMA CarriedSound ==
    ASSUME WorkInv, row' = row, evals' = evals, drops' = 0 => drops = 0,
           drops' = 0 => \A s \in Submissions : Carried(s)
    PROVE  \A s \in Submissions : Sound(s)
  <1> SUFFICES ASSUME NEW s \in Submissions PROVE Sound(s)
    OBVIOUS
  <1>1. Settled(row'[s])
    BY DEF WorkInv
  <1>2. ASSUME drops' = 0, Waits(s)' PROVE Owed(s)'
    <2>1. Waits(s)
      BY <1>2 DEF Waits
    <2>2. Owed(s)
      BY <1>2, <2>1 DEF WorkInv
    <2> QED BY <1>2, <2>2, OwedCarried
  <1> QED BY <1>1, <1>2 DEF Sound

\* A step that leaves the queues alone.
LEMMA IdleCarries ==
    ASSUME UNCHANGED <<waiting, lost, results, slot>>, NEW s
    PROVE  Carried(s)
  BY Kept, CarriedBags

\* Nor does any step.
LEMMA StepSound ==
    ASSUME MaxEdits = 0, "score" \notin Levels, WorkInv, [Next]_vars
    PROVE  \A s \in Submissions : Sound(s)
  <1>1. TypeOK
    BY DEF WorkInv, AttemptsInv
  <1>a. CASE \E s \in Submissions : newSubmission(s) \/ Sweep(s)
    BY <1>a, AdvanceSound DEF newSubmission, Sweep
  <1>b. CASE \E s \in Submissions : HandleResultOf(s)
    BY <1>b, ResultSound DEF HandleResultOf
  <1>c. ASSUME NEW s \in Submissions, Submit(s) PROVE \A t \in Submissions : Sound(t)
    BY <1>c, <1>1, IdleCarries, CarriedSound DEF Submit, TypeOK
  <1>d. ASSUME NEW w \in Slots, Deliver(w) PROVE \A t \in Submissions : Sound(t)
    BY <1>d, <1>1, DeliverCarries, CarriedSound DEF Deliver, dbVars, countVars
  <1>e. ASSUME NEW w \in Slots, Complete(w) PROVE \A t \in Submissions : Sound(t)
    BY <1>e, <1>1, CompleteCarries, CarriedSound DEF Complete, dbVars, countVars
  <1>f. ASSUME NEW w \in Slots, Crash(w) PROVE \A t \in Submissions : Sound(t)
    BY <1>f, <1>1, CrashCarries, CarriedSound DEF Crash, dbVars
  <1>g. CASE CheckLost \/ AdminRequeue \/ \E w \in Slots : CheckTimeout(w)
    <2>1. PICK j : (TakeLost(j) \/ \E w \in Slots : TakeRunning(w, j)) /\ (Requeue(j) \/ RequeueByID(j))
      BY <1>g DEF CheckLost, AdminRequeue, CheckTimeout
    <2>2. row' = row /\ evals' = evals /\ (drops' = 0 => drops = 0)
      BY <2>1, <1>1 DEF Requeue, RequeueByID, dbVars, countVars, TypeOK
    <2> QED BY <2>1, <2>2, <1>1, RequeueCarries, CarriedSound
  <1>h. ASSUME NEW s \in Submissions, Elapse(s) PROVE \A t \in Submissions : Sound(t)
    <2> DEFINE q == [row[s] EXCEPT !.enq = "stale"]
    <2>1. q.gen = row[s].gen /\ q.comp = row[s].comp /\ q.eval = row[s].eval /\ q.exists = row[s].exists
            /\ q.scored = row[s].scored /\ q.err = row[s].err
      BY <1>1 DEF TypeOK, Row
    <2> HIDE DEF q
    <2>2. row'[s] = q /\ evals' = evals /\ drops' = drops /\ \A t \in Submissions \ {s} : row'[t] = row[t]
      BY <1>h, <1>1, SetRowAt DEF Elapse, countVars, q
    <2>3. \A t : Carried(t)
      BY <1>h, IdleCarries DEF Elapse, queueVars
    <2>4. Settled(row[s]) /\ row[s].enq = "recent"
      BY <1>h DEF WorkInv, Elapse
    <2>5. Settled(row'[s])
      BY <2>1, <2>2, <2>4 DEF Settled, Done
    <2>6. ASSUME drops' = 0, Waits(s)' PROVE Owed(s)'
      <3>1. Waits(s)
        BY <2>1, <2>2, <2>4, <2>6 DEF Waits, Done
      <3>2. Owed(s)
        BY <2>2, <2>6, <3>1 DEF WorkInv
      <3> QED BY <2>1, <2>2, <2>3, <3>2, OwedCarried
    <2>7. Sound(s)
      BY <2>5, <2>6 DEF Sound
    <2> QED BY <2>2, <2>3, <2>7, OthersSound
  <1>i. ASSUME NEW s \in Submissions, NEW level \in Levels, Invalidate(s, level)
        PROVE  \A t \in Submissions : Sound(t)
    <2> DEFINE r == invalidated(row[s], level)
               q == [r EXCEPT !.exes = IF level = "compilation" THEN FALSE ELSE @]
    <2>1. row[s] \in Row /\ r \in Row /\ level # "score"
      BY <1>1, JudgingAssumption, RowTypes DEF TypeOK
    <2>2. r.enq = "never" /\ r.eval = (IF level = "score" THEN row[s].eval ELSE FALSE)
      BY <2>1, InvalidatedRow
    <2> HIDE DEF r
    <2>3. q.enq = "never" /\ ~q.eval
      BY <2>1, <2>2 DEF Row
    <2>4. SetRow(s, q)
      BY <1>i DEF Invalidate, r
    <2> HIDE DEF q
    <2>5. row'[s] = q /\ \A t \in Submissions \ {s} : row'[t] = row[t]
      BY <2>4, <1>1, SetRowAt
    <2>6. \A t \in Submissions \ {s} : evals'[t] = evals[t]
      BY <1>i, <1>1 DEF Invalidate, TypeOK
    <2>7. drops' = drops /\ \A t : Carried(t)
      BY <1>i, IdleCarries DEF Invalidate, queueVars
    <2> QED BY <2>3, <2>5, <2>6, <2>7, DoneSound, OthersSound
  <1>j. CASE ReloadDataset \/ UNCHANGED vars
    BY <1>j, IdleCarries, CarriedSound DEF ReloadDataset, vars, dbVars, queueVars, countVars
  <1> QED BY <1>1, <1>a, <1>b, <1>c, <1>d, <1>e, <1>f, <1>g, <1>h, <1>i, <1>j, NoEdits DEF Next

\* Every step keeps what is owed.
LEMMA StepWork ==
    ASSUME MaxEdits = 0, "score" \notin Levels, WorkInv, [Next]_vars
    PROVE  WorkInv'
  <1>1. AttemptsInv' /\ JudgedInv'
    BY StepAttempts, StepJudged DEF WorkInv
  <1>2. \A s \in Submissions : Settled(row'[s]) /\ (drops' = 0 => (Waits(s)' => Owed(s)'))
    BY StepSound DEF Sound
  <1>3. \A s \in Submissions : row'[s].enq = "never" => Quiet(s)'
    BY StepQuiet
  <1> QED BY <1>1, <1>2, <1>3 DEF WorkInv, Settled, Done

\* Rows that came in finished wait for nothing.
LEMMA InitWork ==
    ASSUME Unfinished = {}, Init
    PROVE  WorkInv
  <1>1. AttemptsInv /\ JudgedInv
    BY InitAttempts, InitJudged
  <1>2. Outstanding = {}
    BY BagEmpty DEF Init, Outstanding, Jobs, Idle
  <1>3. \A s \in Submissions : Settled(row[s]) /\ ~Waits(s)
    BY DEF Init, ImportedRow, NewRow, Settled, Waits, Done
  <1> QED BY <1>1, <1>2, <1>3 DEF WorkInv, Quiet

\* Until an enqueue or a report is lost, every unfinished row that was
\* enqueued has jobs or results in the queues for all it lacks: however
\* workers die, jobs are taken back twice and results are delivered again,
\* no row is left to the sweeper.  The dataset is not edited, no row was
\* imported while it was being evaluated (an archive carries no jobs), and
\* none is only scored again (a late failure of a finished generation could
\* then mark it as enqueued).
THEOREM WorkKept ==
    ASSUME MaxEdits = 0, Unfinished = {}, "score" \notin Levels
    PROVE  Spec => []NoWorkLost
  <1>1. Init => WorkInv
    BY InitWork
  <1>2. WorkInv /\ [Next]_vars => WorkInv'
    BY StepWork
  <1>3. WorkInv => NoWorkLost
    <2> SUFFICES ASSUME WorkInv, drops = 0, NEW s \in Submissions,
                        row[s].exists, ~Finished(s), row[s].enq = "recent"
                 PROVE  Covered(s)
      BY DEF NoWorkLost
    <2>1. Owed(s) /\ testcases = FirstTestcases
      BY DEF WorkInv, Waits, Done, Finished, JudgedInv, Undisturbed
    <2>2. Work \subseteq Outstanding
      BY DEF Work, Held, Outstanding, Jobs
    <2>3. CASE row[s].comp = "none"
      BY <2>1, <2>2, <2>3 DEF Owed, Covered, For
    <2>4. CASE row[s].comp = "ok" /\ ~row[s].eval
      BY <2>1, <2>2, <2>4 DEF Owed, Covered, For
    <2> QED BY <2>1, <2>3, <2>4 DEF Owed
  <1> QED BY <1>1, <1>2, <1>3, PTL DEF Spec

-----------------------------------------------------------------------------
(***************************************************************************)
(* The judging implements the life of a submission, for every value of the *)
(* constants, as long as the dataset is not edited.                        *)
(***************************************************************************)

\* What the life of the submissions is read from.
Stages == [s \in Submissions |-> Stage(s)]
Marks == [s \in Submissions |-> Evaluated(evals[s])]

\* A step of the life, or a stutter.
LifeStep == Life!Next \/ UNCHANGED <<Stages, Marks, invalidations>>

\* The row of a submission that is not stored is new, and the executables of
\* a row that compiled are there: advance never compiles it again on its own.
Kempt(s) ==
    /\ s \notin submitted => row[s] = NewRow
    /\ row[s].comp = "ok" => row[s].exes

\* The inductive invariant of ImplementsLife.
LifeInv == JudgedInv /\ \A s \in Submissions : Kempt(s)

\* A step that goes on with one submission.
LEMMA GoesOn ==
    ASSUME TypeOK, NEW s \in Submissions, NEW r, SetRow(s, r), submitted' = submitted
    PROVE  /\ Stages' = [Stages EXCEPT ![s] = Stage(s)']
           /\ Stages[s] = Stage(s)
  <1>1. \A t \in Submissions \ {s} : Stage(t)' = Stage(t)
    BY SetRowAt DEF Stage
  <1> QED BY <1>1, Zenon DEF Stages

\* The evaluations of one submission.
LEMMA Marked ==
    ASSUME NEW s \in Submissions, NEW done, Evaluated(evals'[s]) = done,
           \A t \in Submissions \ {s} : evals'[t] = evals[t]
    PROVE  /\ Marks' = [Marks EXCEPT ![s] = done]
           /\ Marks[s] = Evaluated(evals[s])
  BY DEF Marks, Evaluated

\* A compilation is one in the abstract life.
LEMMA Compiles ==
    ASSUME NEW s \in Submissions, Stages[s] = "compiling",
           Stages' = [Stages EXCEPT ![s] = "evaluating"] \/ Stages' = [Stages EXCEPT ![s] = "judged"],
           UNCHANGED <<Marks, invalidations>>
    PROVE  LifeStep
  BY DEF LifeStep, Life!Next, Life!Compile, Life!GoOn, Stages, Marks

\* Giving up is one there.
LEMMA GivesUp ==
    ASSUME NEW s \in Submissions, Stages[s] \in {"compiling", "evaluating"},
           Stages' = [Stages EXCEPT ![s] = "failed"],
           \/ UNCHANGED Marks
           \/ Stages[s] = "evaluating" /\ Marks' = [Marks EXCEPT ![s] = FirstTestcases],
           UNCHANGED invalidations
    PROVE  LifeStep
  BY DEF LifeStep, Life!Next, Life!GiveUp, Life!GoOn, Life!Open, Stages, Marks

\* New marks are an evaluation there.
LEMMA Evaluates ==
    ASSUME NEW s \in Submissions, NEW ts \in SUBSET FirstTestcases, Stages[s] = "evaluating",
           Marks' = [Marks EXCEPT ![s] = @ \cup ts],
           Stages' = [Stages EXCEPT ![s] = IF Marks'[s] = FirstTestcases THEN "judged" ELSE "evaluating"],
           UNCHANGED invalidations
    PROVE  LifeStep
  BY DEF LifeStep, Life!Next, Life!Evaluate, Life!GoOn, Stages, Marks

\* Judging again reopens an abstract submission.
LEMMA Reopens ==
    ASSUME TypeOK, NEW s \in Submissions, Stages[s] # "unsubmitted",
           Stages' = [Stages EXCEPT ![s] = "compiling"] \/ Stages' = [Stages EXCEPT ![s] = "evaluating"],
           UNCHANGED Marks \/ Marks' = [Marks EXCEPT ![s] = {}],
           invalidations' = invalidations + 1
    PROVE  LifeStep
  <1>1. Stages[s] \in {"compiling", "evaluating", "judged", "failed"}
    BY DEF Stages, Stage
  <1> QED BY <1>1 DEF LifeStep, Life!Next, Life!Reopen, Life!GoOn, Life!Open, Life!Closed, Stages, Marks

\* What a step writes: the row of one stored submission.
Writes(s, r) == SetRow(s, r) /\ UNCHANGED <<submitted, invalidations>>

\* A step that leaves the stage of the row it writes.
LEMMA SameStage ==
    ASSUME TypeOK, NEW s \in Submissions, NEW r, Writes(s, r), evals' = evals,
           r.err = row[s].err, r.scored = row[s].scored, r.comp = row[s].comp
    PROVE  LifeStep
  <1>1. row'[s] = r
    BY SetRowAt DEF Writes
  <1>2. Stage(s)' = Stage(s)
    BY <1>1 DEF Stage, Writes
  <1>3. Stages' = [Stages EXCEPT ![s] = Stages[s]]
    BY <1>2, GoesOn DEF Writes
  <1>4. Stages' = Stages /\ Marks' = Marks
    BY <1>3 DEF Stages, Marks, Evaluated
  <1> QED BY <1>4 DEF LifeStep, Writes

\* A system error of a row that is not finished.
LEMMA ErrorLife ==
    ASSUME TypeOK, NEW s \in submitted, NEW what, what # "none", ~Finished(s),
           Writes(s, systemError(row[s], what)) \/ Writes(s, systemError([row[s] EXCEPT !.exists = TRUE], what)),
           evals' = evals
    PROVE  LifeStep
  <1>1. s \in Submissions /\ row[s] \in Row /\ [row[s] EXCEPT !.exists = TRUE] \in Row
    BY DEF TypeOK, Row
  <1>2. PICK r : Writes(s, r) /\ r.err = what
    BY <1>1, SystemErrorRow
  <1>3. row'[s] = r
    BY <1>1, <1>2, SetRowAt DEF Writes
  <1>4. Stage(s)' = "failed"
    BY <1>2, <1>3 DEF Stage, Writes
  <1>5. Stage(s) \in {"compiling", "evaluating"}
    BY DEF Stage, Finished
  <1>6. Stages' = [Stages EXCEPT ![s] = "failed"] /\ Stages[s] = Stage(s)
    BY <1>1, <1>2, <1>4, GoesOn DEF Writes
  <1>7. Marks' = Marks /\ invalidations' = invalidations
    BY <1>2 DEF Marks, Evaluated, Writes
  <1> QED BY <1>1, <1>5, <1>6, <1>7, GivesUp

\* A compilation, cached or reported.
LEMMA CompilationLife ==
    ASSUME TypeOK, NEW s \in submitted, ~Finished(s), row[s].comp = "none",
           NEW r \in Row, NEW ok \in BOOLEAN, r.err = row[s].err, r.scored = row[s].scored,
           Writes(s, compiled(r, ok)), evals' = evals
    PROVE  LifeStep
  <1> DEFINE c == compiled(r, ok)
  <1>1. s \in Submissions /\ r.err = "none" /\ ~r.scored
    BY DEF TypeOK, Finished
  <1>2. /\ c.comp = (IF ok THEN "ok" ELSE "fail")
        /\ ~ok => c.scored /\ c.err = r.err
        /\ ok /\ cached # {} => c.scored = r.scored /\ c.err = r.err
        /\ ok /\ cached = {} => \/ c.scored /\ c.err = r.err
                                \/ c.scored = r.scored /\ c.err = "score"
    BY CompiledRow
  <1>3. row'[s] = c
    BY <1>1, SetRowAt DEF Writes
  <1> HIDE DEF c
  <1>4. Stage(s)' \in {"evaluating", "judged", "failed"}
    BY <1>1, <1>2, <1>3 DEF Stage, Writes
  <1>5. Stage(s) = "compiling"
    BY <1>1 DEF Stage, Finished
  <1>6. Stages' = [Stages EXCEPT ![s] = Stage(s)'] /\ Stages[s] = Stage(s)
    BY <1>1, GoesOn DEF Writes
  <1>7. Marks' = Marks /\ invalidations' = invalidations
    BY DEF Marks, Evaluated, Writes
  <1>8. CASE Stage(s)' = "failed"
    BY <1>1, <1>5, <1>6, <1>7, <1>8, GivesUp
  <1>9. CASE Stage(s)' \in {"evaluating", "judged"}
    BY <1>1, <1>5, <1>6, <1>7, <1>9, Compiles
  <1> QED BY <1>4, <1>8, <1>9

\* The score of a row whose evaluations are all there.
LEMMA ScoreLife ==
    ASSUME TypeOK, NEW s \in submitted, ~Finished(s), row[s].comp = "ok",
           NEW r \in Row, r.err = row[s].err, r.scored = row[s].scored, r.comp = row[s].comp,
           Writes(s, scoreResult(r)),
           NEW stored \in SUBSET FirstTestcases,
           Evaluated(evals'[s]) = Evaluated(evals[s]) \cup stored,
           Evaluated(evals'[s]) = FirstTestcases,
           \A t \in Submissions \ {s} : evals'[t] = evals[t]
    PROVE  LifeStep
  <1> DEFINE c == scoreResult(r)
  <1>1. s \in Submissions /\ r.err = "none" /\ ~r.scored
    BY DEF TypeOK, Finished
  <1>2. (c.scored /\ c.err = "none") \/ c.err = "score"
    BY <1>1, ScoreRow
  <1>3. row'[s] = c
    BY <1>1, SetRowAt DEF Writes
  <1> HIDE DEF c
  <1>4. Stage(s)' \in {"judged", "failed"}
    BY <1>2, <1>3 DEF Stage, Writes
  <1>5. Stage(s) = "evaluating"
    BY <1>1 DEF Stage, Finished
  <1>6. Stages' = [Stages EXCEPT ![s] = Stage(s)'] /\ Stages[s] = Stage(s)
    BY <1>1, GoesOn DEF Writes
  <1>7. Marks' = [Marks EXCEPT ![s] = FirstTestcases] /\ Marks[s] = Evaluated(evals[s])
    BY <1>1, Marked
  <1>8. CASE Stage(s)' = "failed"
    BY <1>1, <1>5, <1>6, <1>7, <1>8, GivesUp DEF Writes
  <1>9. CASE Stage(s)' = "judged"
    <2>1. Marks' = [Marks EXCEPT ![s] = @ \cup stored] /\ Marks'[s] = FirstTestcases
      BY <1>1, <1>7 DEF Marks
    <2>2. Stages' = [Stages EXCEPT ![s] = IF Marks'[s] = FirstTestcases THEN "judged" ELSE "evaluating"]
      BY <1>6, <1>9, <2>1
    <2> QED BY <1>1, <1>5, <1>6, <2>1, <2>2, Evaluates DEF Writes
  <1> QED BY <1>4, <1>8, <1>9

\* Advancing is a stutter, or the step the row was due.
LEMMA AdvanceLife ==
    ASSUME LifeInv, NEW s \in submitted, advance(s)
    PROVE  LifeStep
  <1> DEFINE r == [row[s] EXCEPT !.exists = TRUE]
             q == [r EXCEPT !.enq = "recent"]
             z == [r EXCEPT !.scored = TRUE]
  <1>1. TypeOK /\ s \in Submissions /\ row[s] \in Row /\ cached = FirstTestcases
          /\ Judged(row[s], evals[s]) /\ Kempt(s)
    BY DEF LifeInv, JudgedInv, Undisturbed, TypeOK
  <1>2. r \in Row /\ r.comp = row[s].comp /\ r.eval = row[s].eval /\ r.exes = row[s].exes
          /\ r.scored = row[s].scored /\ r.err = row[s].err
    BY <1>1 DEF Row
  <1>3. UNCHANGED <<submitted, invalidations>> /\ evals' = evals
    BY DEF advance, advanceFinished, advanceLoadError, advanceCompile, advanceCacheHit,
           applyCompilation, advanceCompilationFailed, advanceEvaluate, advanceScore
  <1>a. CASE advanceLoadError(s, r)
    BY <1>a, <1>1, <1>3, ErrorLife DEF advanceLoadError, Writes
  <1> HIDE DEF r
  <1>4. q \in Row /\ q.comp = r.comp /\ q.scored = r.scored /\ q.err = r.err
          /\ z.scored /\ z.err = r.err
    BY <1>2 DEF Row
  <1> HIDE DEF q, z
  <1>b. CASE advanceFinished(s, r)
    BY <1>b, <1>1, <1>2, <1>3, SameStage DEF advanceFinished, Writes
  <1>c. CASE advanceCompile(s, r)
    BY <1>c, <1>1, <1>2, <1>3, <1>4, SameStage DEF advanceCompile, Writes, q
  <1>d. CASE advanceCacheHit(s, r)
    <2>1. Writes(s, compiled(q, TRUE)) /\ ~Finished(s) /\ row[s].comp = "none"
      BY <1>d, <1>2, <1>3 DEF advanceCacheHit, applyCompilation, Writes, q
    <2> QED BY <2>1, <1>1, <1>2, <1>3, <1>4, CompilationLife
  <1>e. CASE advanceCompilationFailed(s, r)
    <2>1. Writes(s, z) /\ ~Finished(s) /\ row[s].comp = "fail"
      BY <1>e, <1>2, <1>3 DEF advanceCompilationFailed, Writes, z
    <2>2. row'[s] = z
      BY <2>1, <1>1, SetRowAt DEF Writes
    <2>3. Stage(s) = "compiling" /\ Stage(s)' = "judged"
      BY <2>1, <2>2, <1>2, <1>3, <1>4 DEF Stage, Finished
    <2>4. Stages' = [Stages EXCEPT ![s] = "judged"] /\ Stages[s] = "compiling"
      BY <2>1, <2>3, <1>1, GoesOn DEF Writes
    <2>5. Marks' = Marks
      BY <1>3 DEF Marks, Evaluated
    <2> QED BY <2>4, <2>5, <1>1, <1>3, Compiles
  <1>f. CASE advanceEvaluate(s, r)
    <2>1. r.exes
      BY <1>f, <1>1, <1>2 DEF advanceEvaluate, Kempt
    <2> QED BY <1>f, <2>1, <1>1, <1>2, <1>3, <1>4, SameStage DEF advanceEvaluate, Writes, q
  <1>g. CASE advanceScore(s, r)
    <2>1. ~Finished(s) /\ row[s].comp = "ok" /\ Writes(s, scoreResult(r))
      BY <1>g, <1>2, <1>3 DEF advanceScore, Writes
    <2>2. Evaluated(evals[s]) = FirstTestcases
      BY <1>g, <1>1, <1>2 DEF advanceScore, Judged
    <2>3. {} \in SUBSET FirstTestcases /\ Evaluated(evals'[s]) = Evaluated(evals[s]) \cup {}
      BY <1>3
    <2> QED BY <2>1, <2>2, <2>3, <1>1, <1>2, <1>3, ScoreLife
  <1> QED BY <1>a, <1>b, <1>c, <1>d, <1>e, <1>f, <1>g DEF advance, r

\* Stored evaluations are a step of the abstract life.
LEMMA EvaluationsLife ==
    ASSUME LifeInv, NEW m \in BagToSet(results), handleSubmissionResult(m), applyEvaluations(m),
           m.sub \in submitted
    PROVE  LifeStep
  <1>0. PICK s : s = m.sub
    OBVIOUS
  <1>1. TypeOK /\ s \in submitted /\ s \in Submissions /\ row[s] \in Row /\ cached = FirstTestcases
          /\ Judged(row[s], evals[s])
    BY <1>0 DEF LifeInv, JudgedInv, Undisturbed, TypeOK, Result
  <1>2. ~Finished(s) /\ row[s].comp = "ok"
    BY <1>0 DEF applyEvaluations, Current
  <1>3. row[s].total = Cardinality(FirstTestcases) /\ Evaluated(evals[s]) \subseteq FirstTestcases
    BY <1>1, <1>2 DEF Judged
  <1>4. PICK stored : StoredBy(m, stored)
    BY <1>1, EvaluationsStored
  <1>5. /\ stored \in SUBSET FirstTestcases
        /\ Evaluated(evals'[s]) = Evaluated(evals[s]) \cup stored
        /\ \A t \in Submissions \ {s} : evals'[t] = evals[t]
        /\ SetRow(s, IF Cardinality(Evaluated(evals'[s])) < row[s].total
                     THEN row[s] ELSE scoreResult(row[s]))
    BY <1>0, <1>1, <1>4 DEF StoredBy
  <1>6. UNCHANGED <<submitted, invalidations>>
    BY DEF handleSubmissionResult
  <1> DEFINE D == Evaluated(evals'[s])
  <1>7. CASE ~(Cardinality(D) < row[s].total)
    <2>1. D = FirstTestcases
      BY <1>3, <1>5, <1>7, AllEvaluated
    <2> QED BY <2>1, <1>1, <1>2, <1>5, <1>6, <1>7, ScoreLife DEF Writes
  <1>8. CASE Cardinality(D) < row[s].total
    <2>1. D # FirstTestcases
      <3>1. Cardinality(FirstTestcases) \in Nat
        BY JudgingAssumption, FS_Subset, FS_CardinalityType
      <3> QED BY <1>3, <1>8, <3>1
    <2>2. Marks' = [Marks EXCEPT ![s] = @ \cup stored] /\ Marks'[s] = D
      <3>1. Marks' = [Marks EXCEPT ![s] = D] /\ Marks[s] = Evaluated(evals[s])
        BY <1>1, <1>5, Marked
      <3> QED BY <1>1, <1>5, <3>1 DEF Marks
    <2>3. row'[s] = row[s] /\ SetRow(s, row[s])
      BY <1>1, <1>5, <1>8, SetRowAt
    <2>4. Stage(s) = "evaluating" /\ Stage(s)' = "evaluating"
      BY <1>1, <1>2, <1>6, <2>3 DEF Stage, Finished
    <2>5. Stages' = [Stages EXCEPT ![s] = "evaluating"] /\ Stages[s] = "evaluating"
      BY <1>1, <1>6, <2>3, <2>4, GoesOn
    <2>6. Stages' = [Stages EXCEPT ![s] = IF Marks'[s] = FirstTestcases THEN "judged" ELSE "evaluating"]
      BY <2>1, <2>2, <2>5
    <2> QED BY <1>1, <1>5, <1>6, <2>2, <2>5, <2>6, Evaluates
  <1> QED BY <1>7, <1>8

\* A result is a step of the abstract life.
LEMMA ResultLife ==
    ASSUME LifeInv, NEW m \in BagToSet(results), handleSubmissionResult(m)
    PROVE  LifeStep
  <1>0. PICK s : s = m.sub
    OBVIOUS
  <1> DEFINE q == [row[s] EXCEPT !.enq = "recent"]
  <1>1. TypeOK /\ s \in Submissions /\ row[s] \in Row /\ Kempt(s) /\ m.kind # "none"
    BY <1>0 DEF LifeInv, JudgedInv, TypeOK, Result, Kinds
  <1>2. q.err = row[s].err /\ q.scored = row[s].scored /\ q.comp = row[s].comp
    BY <1>1 DEF Row
  <1> HIDE DEF q
  <1>3. UNCHANGED <<submitted, invalidations>>
    BY DEF handleSubmissionResult
  <1>4. Current(m) => s \in submitted /\ ~Finished(s)
    BY <1>0, <1>1 DEF Current, Kempt, NewRow
  <1>a. CASE resultStale(m)
    BY <1>a, <1>3 DEF resultStale, LifeStep, Stages, Marks, Stage, Evaluated
  <1>b. CASE resultLoadError(m)
    BY <1>b, <1>0, <1>1, <1>3, <1>4, ErrorLife DEF resultLoadError, Writes
  <1>c. CASE retryOrFail(m)
    <2>1. CASE Writes(s, systemError(row[s], m.kind))
      BY <1>c, <2>1, <1>1, <1>4, ErrorLife DEF retryOrFail
    <2>2. CASE Writes(s, q)
      BY <1>c, <2>2, <1>1, <1>2, SameStage DEF retryOrFail
    <2> QED BY <1>c, <2>1, <2>2, <1>0, <1>3 DEF retryOrFail, Writes, q
  <1>d. CASE resultCompilation(m)
    <2>1. Writes(s, compiled(row[s], m.out = "ok")) /\ row[s].comp = "none" /\ evals' = evals
      BY <1>d, <1>0, <1>3 DEF resultCompilation, applyCompilation, Writes
    <2>2. (m.out = "ok") \in BOOLEAN /\ Current(m)
      BY <1>d DEF resultCompilation
    <2> QED BY <2>1, <2>2, <1>1, <1>4, CompilationLife
  <1>e. CASE applyEvaluations(m)
    BY <1>e, <1>0, <1>4, EvaluationsLife DEF applyEvaluations
  <1> QED BY <1>a, <1>b, <1>c, <1>d, <1>e DEF handleSubmissionResult

(***************************************************************************)
(* The invariant of the refinement.                                        *)
(***************************************************************************)
\* A step that writes the row of a stored submission keeps the others.
LEMMA KemptStep ==
    ASSUME LifeInv, NEW s \in submitted, NEW r, SetRow(s, r), submitted' = submitted,
           r.comp = "ok" => r.exes
    PROVE  \A t \in Submissions : Kempt(t)'
  <1>1. s \in Submissions /\ TypeOK
    BY DEF LifeInv, JudgedInv, TypeOK
  <1>2. row'[s] = r /\ \A t \in Submissions \ {s} : row'[t] = row[t]
    BY <1>1, SetRowAt
  <1> QED BY <1>2 DEF LifeInv, Kempt, NewRow

\* Advancing leaves rows that map to abstract ones.
LEMMA AdvanceKempt ==
    ASSUME LifeInv, NEW s \in submitted, advance(s)
    PROVE  \A t \in Submissions : Kempt(t)'
  <1> DEFINE r == [row[s] EXCEPT !.exists = TRUE]
             q == [r EXCEPT !.enq = "recent"]
             z == [r EXCEPT !.scored = TRUE]
  <1>1. TypeOK /\ row[s] \in Row /\ (row[s].comp = "ok" => row[s].exes)
    BY DEF LifeInv, JudgedInv, TypeOK, Kempt
  <1>2. r \in Row /\ (r.comp = "ok" => r.exes)
    BY <1>1 DEF Row
  <1> HIDE DEF r
  <1>3. q \in Row /\ (q.comp = "ok" => q.exes) /\ (z.comp = "ok" => z.exes)
    BY <1>2 DEF Row
  <1> HIDE DEF q, z
  <1>4. systemError(r, "load").comp = "ok" => systemError(r, "load").exes
    BY <1>2, SystemErrorRow
  <1>5. scoreResult(r).comp = "ok" => scoreResult(r).exes
    BY <1>2, ScoreRow
  <1>6. compiled(q, TRUE).exes
    BY <1>1, <1>3, RowFields
  <1>7. invalidated(r, "compilation").comp = "none"
    BY <1>2, InvalidatedRow
  <1>8. \E x \in {r, q, z, systemError(r, "load"), scoreResult(r), compiled(q, TRUE),
                  invalidated(r, "compilation")} : SetRow(s, x)
    BY DEF advance, advanceFinished, advanceLoadError, advanceCompile, advanceCacheHit, applyCompilation,
           advanceCompilationFailed, advanceEvaluate, advanceScore, r, q, z
  <1>9. submitted' = submitted
    BY DEF advance
  <1> QED BY <1>2, <1>3, <1>4, <1>5, <1>6, <1>7, <1>8, <1>9, KemptStep

\* So does a result.
LEMMA ResultKempt ==
    ASSUME LifeInv, NEW m \in BagToSet(results), handleSubmissionResult(m)
    PROVE  \A t \in Submissions : Kempt(t)'
  <1> DEFINE s == m.sub
             q == [row[s] EXCEPT !.enq = "recent"]
  <1>1. TypeOK /\ s \in Submissions /\ row[s] \in Row /\ Kempt(s)
    BY DEF LifeInv, JudgedInv, TypeOK, Result
  <1>2. q.comp = row[s].comp /\ q.exes = row[s].exes
    BY <1>1 DEF Row
  <1> HIDE DEF q, s
  <1>3. submitted' = submitted
    BY DEF handleSubmissionResult
  <1>4. CASE row' = row
    BY <1>3, <1>4 DEF LifeInv, Kempt
  <1>5. ASSUME Current(m), NEW x, SetRow(s, x), x.comp = "ok" => x.exes
        PROVE  \A t \in Submissions : Kempt(t)'
    <2>1. s \in submitted
      BY <1>1, <1>5 DEF Current, Kempt, NewRow, s
    <2> QED BY <1>3, <1>5, <2>1, KemptStep
  <1>6. \A what : systemError(row[s], what).comp = "ok" => systemError(row[s], what).exes
    BY <1>1, SystemErrorRow DEF Kempt
  <1>7. scoreResult(row[s]).comp = "ok" => scoreResult(row[s]).exes
    BY <1>1, ScoreRow DEF Kempt
  <1>a. CASE resultStale(m)
    BY <1>a, <1>4 DEF resultStale
  <1>b. CASE resultLoadError(m)
    BY <1>b, <1>5, <1>6 DEF resultLoadError, s
  <1>c. CASE retryOrFail(m)
    BY <1>c, <1>1, <1>2, <1>5, <1>6 DEF retryOrFail, s, q, Kempt
  <1>d. CASE resultCompilation(m)
    <2> DEFINE ok == m.out = "ok"
               c == compiled(row[s], ok)
    <2>1. Current(m) /\ SetRow(s, c)
      BY <1>d DEF resultCompilation, applyCompilation, s
    <2>2. c.comp = (IF ok THEN "ok" ELSE "fail") /\ (ok => c.exes)
      <3>1. ok \in BOOLEAN
        OBVIOUS
      <3> QED BY <1>1, <3>1, CompiledRow
    <2> HIDE DEF c, ok
    <2>3. c.comp = "ok" => c.exes
      BY <2>2
    <2> QED BY <1>5, <2>1, <2>3
  <1>e. CASE applyEvaluations(m)
    BY <1>e, <1>1, <1>5, <1>7 DEF applyEvaluations, s, Kempt
  <1> QED BY <1>a, <1>b, <1>c, <1>d, <1>e DEF handleSubmissionResult

\* InvalidateSubmissionResult leaves the executables to its callers.
LEMMA ExesKept ==
    ASSUME NEW r \in Row, NEW level
    PROVE  invalidated(r, level).exes = r.exes
  BY InvalidatedRow

\* Every step is one of the abstract life, or a stutter.
LEMMA StepLife ==
    ASSUME MaxEdits = 0, LifeInv, [Next]_vars
    PROVE  LifeStep /\ LifeInv'
  <1>1. TypeOK /\ JudgedInv /\ JudgedInv'
    BY StepJudged DEF LifeInv, JudgedInv
  <1> SUFFICES LifeStep /\ \A s \in Submissions : Kempt(s)'
    BY <1>1 DEF LifeInv
  <1>a. CASE \E s \in Submissions : newSubmission(s) \/ Sweep(s)
    <2>1. PICK s \in submitted : advance(s)
      BY <1>a, <1>1 DEF newSubmission, Sweep, TypeOK
    <2> QED BY <2>1, AdvanceLife, AdvanceKempt
  <1>b. CASE \E s \in Submissions : HandleResultOf(s)
    BY <1>b, ResultLife, ResultKempt DEF HandleResultOf
  <1>c. ASSUME NEW s \in Submissions, Submit(s) PROVE LifeStep /\ \A t \in Submissions : Kempt(t)'
    <2>1. row' = row /\ evals' = evals /\ invalidations' = invalidations /\ s \notin submitted
            /\ submitted' = submitted \cup {s} /\ row[s] = NewRow
      BY <1>c DEF Submit, LifeInv, Kempt
    <2>2. \A t \in Submissions : Kempt(t)'
      BY <2>1 DEF LifeInv, Kempt
    <2>3. Stage(s) = "unsubmitted" /\ Stage(s)' = "compiling"
      BY <2>1 DEF Stage, NewRow
    <2>4. \A t \in Submissions \ {s} : Stage(t)' = Stage(t)
      BY <2>1 DEF Stage
    <2>5. Stages' = [Stages EXCEPT ![s] = "compiling"] /\ Stages[s] = "unsubmitted"
      BY <2>3, <2>4, Zenon DEF Stages
    <2>6. Marks' = Marks
      BY <2>1 DEF Marks, Evaluated
    <2>7. Life!Submit(s)
      BY <2>1, <2>5, <2>6 DEF Life!Submit, Life!GoOn, Stages, Marks
    <2> QED BY <2>2, <2>7 DEF LifeStep, Life!Next
  <1>d. ASSUME NEW s \in Submissions, Elapse(s) PROVE LifeStep /\ \A t \in Submissions : Kempt(t)'
    <2> DEFINE q == [row[s] EXCEPT !.enq = "stale"]
    <2>1. q.comp = row[s].comp /\ q.exes = row[s].exes /\ q.scored = row[s].scored /\ q.err = row[s].err
      BY <1>1 DEF TypeOK, Row
    <2>2. Writes(s, q) /\ evals' = evals
      BY <1>d DEF Elapse, Writes, countVars
    <2> HIDE DEF q
    <2>3. LifeStep
      BY <2>1, <2>2, <1>1, SameStage
    <2>4. s \in submitted /\ (row[s].comp = "ok" => row[s].exes)
      BY <1>d DEF Elapse, LifeInv, Kempt, NewRow
    <2> QED BY <2>1, <2>2, <2>3, <2>4, KemptStep DEF Writes
  <1>e. ASSUME NEW s \in Submissions, NEW level \in Levels, Invalidate(s, level)
        PROVE  LifeStep /\ \A t \in Submissions : Kempt(t)'
    <2> DEFINE r == invalidated(row[s], level)
               q == [r EXCEPT !.exes = IF level = "compilation" THEN FALSE ELSE @]
    <2>1. row[s] \in Row /\ r \in Row
      BY <1>1, JudgingAssumption, RowTypes DEF TypeOK
    <2>2. r.comp = (IF level = "compilation" THEN "none" ELSE row[s].comp)
            /\ r.exes = row[s].exes /\ ~r.scored /\ r.err = "none"
      <3>1. r.comp = (IF level = "compilation" THEN "none" ELSE row[s].comp) /\ ~r.scored
        BY <2>1, InvalidatedRow
      <3>2. r.exes = row[s].exes
        BY <2>1, ExesKept
      <3>3. r.err = "none"
        BY <2>1, RowErrors
      <3> QED BY <3>1, <3>2, <3>3
    <2> HIDE DEF r
    <2>3. q.comp = r.comp /\ q.scored = r.scored /\ q.err = r.err
            /\ q.exes = (IF level = "compilation" THEN FALSE ELSE r.exes)
      BY <2>1 DEF Row
    <2>4. SetRow(s, q) /\ submitted' = submitted /\ invalidations' = invalidations + 1
      BY <1>e DEF Invalidate, r
    <2> HIDE DEF q
    <2>5. s \in submitted /\ (row[s].comp = "ok" => row[s].exes)
      BY <1>e DEF Invalidate, LifeInv, Kempt, NewRow
    <2>6. \A t \in Submissions : Kempt(t)'
      BY <2>2, <2>3, <2>4, <2>5, KemptStep
    <2>7. row'[s] = q
      BY <2>4, <1>1, SetRowAt
    <2>8. Stage(s)' \in {"compiling", "evaluating"} /\ Stage(s) # "unsubmitted"
      BY <2>2, <2>3, <2>4, <2>5, <2>7 DEF Stage
    <2>9. Stages' = [Stages EXCEPT ![s] = Stage(s)'] /\ Stages[s] = Stage(s)
      BY <2>4, <1>1, GoesOn
    <2>10. Marks' = Marks \/ Marks' = [Marks EXCEPT ![s] = {}]
      <3>1. CASE evals' = evals
        BY <3>1 DEF Marks, Evaluated
      <3>2. CASE evals' = [evals EXCEPT ![s] = NoEvals]
        <4>1. evals'[s] = NoEvals /\ \A t \in Submissions \ {s} : evals'[t] = evals[t]
          BY <3>2, <1>1 DEF TypeOK
        <4>2. Evaluated(NoEvals) = {}
          BY DEF Evaluated, NoEvals
        <4>3. Evaluated(evals'[s]) = {}
          BY <4>1, <4>2
        <4> QED BY <4>1, <4>3, Marked
      <3> QED BY <1>e, <3>1, <3>2 DEF Invalidate
    <2>11. LifeStep
      BY <2>4, <2>8, <2>9, <2>10, <1>1, Reopens
    <2> QED BY <2>6, <2>11
  <1>f. CASE UNCHANGED <<submitted, row, evals, invalidations>>
    BY <1>f DEF LifeInv, Kempt, LifeStep, Stages, Marks, Stage, Evaluated
  <1> QED BY <1>1, <1>a, <1>b, <1>c, <1>d, <1>e, <1>f, NoEdits
          DEF Next, vars, dbVars, countVars, Deliver, Complete, Crash, CheckLost, CheckTimeout,
              AdminRequeue, Requeue, RequeueByID, ReloadDataset

\* The dispatcher, the queues, the workers and the monitor implement the
\* life of a submission: whatever is duplicated, lost, late or taken back,
\* and whenever a service dies, a contestant sees a submission compiled,
\* evaluated testcase by testcase and judged at the step that stores its
\* last evaluation, and never sees it go back but at the request of an
\* administrator.  The submissions were made here, not imported (the life
\* starts with a contestant), and the dataset is not edited.
THEOREM LifeImplemented ==
    ASSUME MaxEdits = 0, Imported = {}
    PROVE  Spec => ImplementsLife
  <1>1. Init => LifeInv /\ Life!Init
    <2> SUFFICES ASSUME Init PROVE LifeInv /\ Life!Init
      OBVIOUS
    <2>1. JudgedInv
      BY InitJudged
    <2>2. \A s \in Submissions : row[s] = NewRow /\ evals[s] = NoEvals /\ s \notin submitted
      BY DEF Init
    <2>3. LifeInv
      BY <2>1, <2>2 DEF LifeInv, Kempt, NewRow
    <2>4. \A s \in Submissions : Stage(s) = "unsubmitted" /\ Evaluated(evals[s]) = {}
      BY <2>2 DEF Stage, Evaluated, NoEvals
    <2>5. invalidations = 0
      BY DEF Init
    <2>6. Life!Init
      BY <2>4, <2>5 DEF Life!Init
    <2> QED BY <2>3, <2>6
  <1>2. LifeInv /\ [Next]_vars => LifeInv' /\ [Life!Next]_(Life!lifeVars)
    BY StepLife DEF LifeStep, Stages, Marks, Life!lifeVars
  <1> QED BY <1>1, <1>2, PTL DEF Spec, ImplementsLife, Life!Spec

=============================================================================
