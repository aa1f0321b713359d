--------------------------- MODULE SubmissionLife ---------------------------
(***************************************************************************)
(* What the judging promises a contestant, without queues, workers, rows   *)
(* or faults: a submission is compiled once, its testcases are evaluated   *)
(* in any order, it is judged at the very step that evaluates the last     *)
(* one, and a verdict stands until an administrator reopens the            *)
(* submission.                                                             *)
(***************************************************************************)
EXTENDS Naturals

CONSTANTS Submissions, Testcases

VARIABLES
    stage,   \* how far each submission is
    done,    \* its testcases that are evaluated
    asked    \* how often the administrators reopened a submission

lifeVars == <<stage, done, asked>>

Open == {"compiling", "evaluating"}
Closed == {"judged", "failed"}

Init ==
    /\ stage = [s \in Submissions |-> "unsubmitted"]
    /\ done = [s \in Submissions |-> {}]
    /\ asked = 0

GoOn(s, next) == stage' = [stage EXCEPT ![s] = next]

Submit(s) ==
    /\ stage[s] = "unsubmitted" /\ GoOn(s, "compiling")
    /\ UNCHANGED <<done, asked>>

\* A submission that does not compile is judged without evaluations.
Compile(s) ==
    /\ stage[s] = "compiling" /\ \E next \in {"evaluating", "judged"} : GoOn(s, next)
    /\ UNCHANGED <<done, asked>>

Evaluate(s, ts) ==
    /\ stage[s] = "evaluating"
    /\ done' = [done EXCEPT ![s] = @ \cup ts]
    /\ GoOn(s, IF done'[s] = Testcases THEN "judged" ELSE "evaluating")
    /\ UNCHANGED asked

\* A system error: after the attempts the judging allows itself, or when the
\* evaluations are all there and give no score.
GiveUp(s) ==
    /\ stage[s] \in Open /\ GoOn(s, "failed")
    /\ \/ UNCHANGED done
       \/ stage[s] = "evaluating" /\ done' = [done EXCEPT ![s] = Testcases]
    /\ UNCHANGED asked

\* An administrator asks for a new evaluation, or for a new score of the
\* evaluations there are.
Reopen(s) ==
    /\ stage[s] \in Open \cup Closed /\ \E next \in Open : GoOn(s, next)
    /\ UNCHANGED done \/ done' = [done EXCEPT ![s] = {}]
    /\ asked' = asked + 1

Next ==
    \E s \in Submissions :
        \/ Submit(s) \/ Compile(s) \/ GiveUp(s) \/ Reopen(s)
        \/ \E ts \in SUBSET Testcases : Evaluate(s, ts)

Spec == Init /\ [][Next]_lifeVars

=============================================================================
