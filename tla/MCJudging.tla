----------------------------- MODULE MCJudging -----------------------------
(***************************************************************************)
(* Instances of Judging for TLC; the configurations choose which faults    *)
(* and which administrators' actions happen.                               *)
(***************************************************************************)
EXTENDS Judging

\* What a contestant sees of a row.  A row that failed to compile and is to
\* be evaluated again goes through the same case of advance as one that is
\* not compiled yet: nothing is evaluated.
Stage(s) ==
    IF s \notin submitted THEN "unsubmitted"
    ELSE IF row[s].err # "none" THEN "failed"
    ELSE IF row[s].scored THEN "judged"
    ELSE IF row[s].comp = "ok" THEN "evaluating" ELSE "compiling"

Life == INSTANCE SubmissionLife WITH
    Testcases <- FirstTestcases,
    stage <- [s \in Submissions |-> Stage(s)],
    done <- [s \in Submissions |-> Evaluated(evals[s])],
    asked <- invalidations

\* The pipeline of dispatcher, queues, workers and monitor implements the
\* life of a submission: duplicated, late and reordered messages, crashes and
\* reevaluations show a contestant nothing but its steps.  In particular no
\* message moves a submission back, and its verdict comes with the last
\* evaluation.
ImplementsLife == Life!Spec

=============================================================================
