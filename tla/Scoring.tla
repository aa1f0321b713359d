------------------------------ MODULE Scoring ------------------------------
(***************************************************************************)
(* The score types (internal/scoring/scoretypes.go), the verdict of a      *)
(* scored submission (verdict.go), the preview of the subtasks (editor.go) *)
(* and the short-circuit of the dispatcher that skips testcases which can  *)
(* no longer change the score (internal/dispatcher/shortcircuit.go).       *)
(*                                                                         *)
(* One submission is judged on one dataset whose testcases are 1 .. n, in  *)
(* the order of their codenames.  The outcomes the program would get are   *)
(* chosen at the start, in halves; a step stores one of them, and marks    *)
(* the testcases that are skipped.  Scores are rounded to units.           *)
(***************************************************************************)
EXTENDS Integers, FiniteSets, SequencesExt

CONSTANTS
    NumTests,       \* number of testcases
    Subtaskings,    \* group parameters: sequences of [max, count, list, threshold]
    PublicTests,    \* testcases whose outcome the contestant sees
    Kinds           \* score types

ASSUME ScoringAssumption ==
    NumTests \in Nat \ {0} /\ PublicTests \subseteq 1 .. NumTests /\ Kinds \subseteq {"Sum", "GroupMin", "GroupMul", "GroupThreshold"}

VARIABLES
    kind,           \* the score type of the dataset
    params,         \* its parameters
    truth,          \* the outcome, in halves, the program gets on each testcase
    rows            \* the evaluations stored: an outcome, skipped, or none yet

scoringVars == <<kind, params, truth, rows>>

Tests == 1 .. NumTests
Outcomes == 0 .. 3
None == -1
Skipped == -2       \* stored with outcome 0 and the status "skipped"

(***************************************************************************)
(* Score types.                                                            *)
(***************************************************************************)
clamp01(v) == IF v > 2 THEN 2 ELSE IF v < 0 THEN 0 ELSE v
\* math.Round of num / den.
round(num, den) == (2 * num + den) \div (2 * den)

SumOf(v) ==
    LET upTo[i \in 0 .. Len(v)] == IF i = 0 THEN 0 ELSE upTo[i - 1] + v[i]
    IN  upTo[Len(v)]

\* Testcases that the subtasks before i took by number.
Taken(ps, i) == SumOf([j \in 1 .. i - 1 |-> ps[j].count])

\* A subtask takes the next count testcases, or those of its list (or of
\* its pattern), in the order of the codenames.
members(ps, i) ==
    IF ps[i].count > 0 THEN Taken(ps, i) + 1 .. Taken(ps, i) + ps[i].count ELSE ps[i].list

\* Parameters that newGroup accepts.
newGroup(ps) ==
    /\ ps # <<>>
    /\ \A i \in DOMAIN ps : members(ps, i) # {} /\ members(ps, i) \subseteq Tests

outcomeOf(v) == IF v = Skipped THEN 0 ELSE v

\* The product of outcomes.
product(os) ==
    LET upTo[t \in 0 .. NumTests] ==
            IF t = 0 THEN 1 ELSE upTo[t - 1] * (IF t \in DOMAIN os THEN clamp01(os[t]) ELSE 1)
    IN  upTo[NumTests]

\* Numerator and denominator of what a subtask earns of its maximum.
fraction(k, p, os) ==
    CASE k = "GroupMin" -> [num |-> Min({2} \cup {clamp01(os[t]) : t \in DOMAIN os}), den |-> 2]
      [] k = "GroupMul" -> [num |-> product(os), den |-> 2 ^ Cardinality(DOMAIN os)]
      [] k = "GroupThreshold" ->
             [num |-> IF \A t \in DOMAIN os : os[t] > 0 /\ os[t] <= p.threshold THEN 1 ELSE 0, den |-> 1]

\* The score of subtask i; a testcase without a row counts as 0, and no
\* threshold is met before every testcase is there.
subtaskScore(k, ps, i, r) ==
    LET ms == members(ps, i)
        f == fraction(k, ps[i], [t \in ms |-> IF r[t] = None THEN 0 ELSE outcomeOf(r[t])])
    IN  IF k = "GroupThreshold" /\ \E t \in ms : r[t] = None THEN 0 ELSE round(ps[i].max * f.num, f.den)

\* Score and ranking details.
Compute(k, ps, r) ==
    IF k = "Sum"
    THEN <<round(SumOf([t \in Tests |-> clamp01(outcomeOf(IF r[t] = None THEN 0 ELSE r[t]))]), 2)>>
    ELSE [i \in DOMAIN ps |-> subtaskScore(k, ps, i, r)]
Score(k, ps, r) == SumOf(Compute(k, ps, r))
MaxScore(k, ps) == IF k = "Sum" THEN NumTests ELSE SumOf([i \in DOMAIN ps |-> ps[i].max])

\* A subtask is public when all of its testcases are.
publicSubtask(ps, i) == members(ps, i) \subseteq PublicTests
PublicScore(k, ps, r) ==
    IF k = "Sum"
    THEN Score(k, ps, [t \in Tests |-> IF t \in PublicTests THEN r[t] ELSE None])
    ELSE SumOf([i \in DOMAIN ps |-> IF publicSubtask(ps, i) THEN subtaskScore(k, ps, i, r) ELSE 0])
MaxPublicScore(k, ps) ==
    IF k = "Sum" THEN Cardinality(PublicTests)
    ELSE SumOf([i \in DOMAIN ps |-> IF publicSubtask(ps, i) THEN ps[i].max ELSE 0])

(***************************************************************************)
(* Short-circuit.                                                          *)
(***************************************************************************)
\* A mutant: one dead subtask is enough.
SkippableInAny(k, ps, r) ==
    LET dead == {i \in DOMAIN ps : \E t \in members(ps, i) : r[t] # None /\ clamp01(outcomeOf(r[t])) = 0}
    IN  IF k \notin {"GroupMin", "GroupMul"} THEN {}
        ELSE {t \in Tests : r[t] = None /\ \E i \in DOMAIN ps : t \in members(ps, i) /\ i \in dead}

\* Testcases without a row whose every subtask, and there is one, has a 0.
Skippable(k, ps, r) ==
    LET dead == {i \in DOMAIN ps : \E t \in members(ps, i) : r[t] # None /\ clamp01(outcomeOf(r[t])) = 0}
        in(t) == {i \in DOMAIN ps : t \in members(ps, i)}
    IN  IF k \notin {"GroupMin", "GroupMul"} THEN {}
        ELSE {t \in Tests : r[t] = None /\ in(t) # {} /\ in(t) \subseteq dead}

\* The marks are stored with the result that made them.
shortCircuit(r) == [t \in Tests |-> IF t \in Skippable(kind, params, r) THEN Skipped ELSE r[t]]

\* A result of the worker with the outcomes of the testcases ts; one that
\* was skipped may come all the same and replaces its mark.  Nothing is
\* stored once every testcase has a row.
applyEvaluations(ts) ==
    /\ \E t \in Tests : rows[t] = None
    /\ \A t \in ts : rows[t] \in {None, Skipped}
    /\ rows' = shortCircuit([t \in Tests |-> IF t \in ts THEN truth[t] ELSE rows[t]])
    /\ UNCHANGED <<kind, params, truth>>

ScoringInit ==
    /\ kind \in Kinds
    /\ params \in (IF kind = "Sum" THEN {<<>>} ELSE {ps \in Subtaskings : newGroup(ps)})
    /\ truth \in [Tests -> Outcomes]
    /\ rows = [t \in Tests |-> None]

ScoringNext == \E ts \in SUBSET Tests \ {{}} : applyEvaluations(ts)

ScoringSpec == ScoringInit /\ [][ScoringNext]_scoringVars

(***************************************************************************)
(* Verdict.  The status of a testcase that did not pass stands for the     *)
(* testcase itself: failureVerdict names what went wrong there.            *)
(***************************************************************************)
\* Testcases in the order the details list them.
DetailOrder(k, ps) ==
    IF k = "Sum" THEN [t \in Tests |-> t]
    ELSE LET upTo[i \in 0 .. Len(ps)] == IF i = 0 THEN <<>> ELSE upTo[i - 1] \o SetToSortSeq(members(ps, i), <)
         IN  upTo[Len(ps)]

\* "AC", the first testcase listed that failed, or "WA".
ICPCVerdict(k, ps, r) ==
    LET order == DetailOrder(k, ps)
        failing == {j \in DOMAIN order : r[order[j]] # Skipped /\ r[order[j]] < 2}
    IN  IF MaxScore(k, ps) > 0 /\ Score(k, ps, r) >= MaxScore(k, ps) THEN [verdict |-> "AC"]
        ELSE IF failing # {} THEN [verdict |-> "fails", on |-> order[Min(failing)]]
        ELSE [verdict |-> "WA"]

\* What a contest with points shows of a submission: partial with some.
Verdict(stored, score, max) ==
    IF max > 0 /\ score >= max THEN [verdict |-> "AC"]
    ELSE IF score > 0 THEN [verdict |-> "PA"]
    ELSE IF stored.verdict = "AC" THEN [verdict |-> "WA"] ELSE stored

\* The preview of the subtasks: testcases of none.
Uncovered(ps) == {t \in Tests : \A i \in DOMAIN ps : t \notin members(ps, i)}

(***************************************************************************)
(* Properties.                                                             *)
(***************************************************************************)
Judged == \A t \in Tests : rows[t] # None

\* Every variable of the scoring has its type, and marks are kept only
\* where the score type can be short-circuited.
ScoringTypeOK ==
    /\ rows \in [Tests -> Outcomes \cup {None, Skipped}]
    /\ kind \in {"Sum", "GroupThreshold"} => \A t \in Tests : rows[t] # Skipped

\* When the last row is stored every subtask has the score of a judging
\* without skips, in whatever order the results came and whichever skipped
\* testcases were run all the same.
SkipsHarmless == Judged => Compute(kind, params, rows) = Compute(kind, params, truth)

\* Before that, no subtask shows more than it ends with where outcomes can
\* only lower it (GroupMin and GroupMul count a missing row as 0).
NeverTooHigh ==
    kind \in {"GroupMin", "GroupMul", "Sum"} =>
        \A now \in {Compute(kind, params, rows)}, end \in {Compute(kind, params, truth)} :
            \A i \in DOMAIN now : now[i] <= end[i]

\* A submission that is not accepted is told of a testcase that was run and
\* failed, never of one that was skipped, unless its failures are in no
\* subtask or the threshold was passed over; an accepted one lost at most
\* half a unit in each subtask to rounding.  Both kinds of contest accept
\* the same submissions.
VerdictTrue ==
    Judged =>
        LET v == ICPCVerdict(kind, params, rows)
        IN  /\ v.verdict = "fails" => rows[v.on] = truth[v.on] /\ truth[v.on] < 2
            /\ (v.verdict = "AC") = (Verdict(v, Score(kind, params, rows), MaxScore(kind, params)).verdict = "AC")
            /\ v.verdict = "WA" => kind = "GroupThreshold" \/ MaxScore(kind, params) = 0
            /\ v.verdict = "AC" /\ kind = "GroupMin" =>
                  \A i \in DOMAIN params : \A t \in members(params, i) :
                      params[i].max * (2 - clamp01(truth[t])) <= 1

\* A testcase of no subtask never matters.
UncoveredIdle ==
    \A t \in Uncovered(params) : kind # "Sum" =>
        Compute(kind, params, rows) = Compute(kind, params, [rows EXCEPT ![t] = None])

\* The public score is that of the public testcases, whatever the private
\* ones did and whichever public ones a private failure skipped.
PublicApart ==
    LET hidden(r) == [t \in Tests |-> IF t \in PublicTests THEN r[t] ELSE None]
    IN  /\ PublicScore(kind, params, rows) = PublicScore(kind, params, hidden(rows))
        /\ PublicScore(kind, params, rows) <= MaxPublicScore(kind, params)
        /\ Judged => PublicScore(kind, params, rows) = PublicScore(kind, params, hidden(truth))

\* Scores, verdicts and skips agree with a full judging.
ScoringSound == SkipsHarmless /\ NeverTooHigh /\ VerdictTrue /\ UncoveredIdle /\ PublicApart
=============================================================================
