----------------------------- MODULE MCServices -----------------------------
(***************************************************************************)
(* Services beside the judging of submissions: user tests with the         *)
(* testcase jobs, the compilation cache, printing, upgrades, the           *)
(* comparators of outputs, and what a worker does with a job.  They share  *)
(* no variable: a behaviour moves one of them, and the others stay as they *)
(* start.                                                                  *)
(***************************************************************************)
EXTENDS TestcaseJobs, CompileCache, Printing, Upgrade, Execution

VARIABLE moving

vars == <<moving, jobVars, compileVars, printVars, upgradeVars, checkVars, executionVars>>

\* Characters of the compared texts, and what isolate reports of runs.
MCCharacters == {"a", "1", "3", " ", "\n"}
MCMeta(status, cpu, mem, sig, code, says) ==
    [status |-> status, oom |-> FALSE, wall |-> status = "TO", cpu |-> cpu, mem |-> mem,
     sig |-> sig, code |-> code, says |-> says]
MCMetas ==
    {MCMeta("", 1, 50, "", 0, 0), MCMeta("", 3, 50, "", 0, 0), MCMeta("", 1, 101, "", 0, 0),
     MCMeta("TO", 1, 50, "KILL", 0, 0), MCMeta("SG", 1, 50, "PIPE", 0, 0),
     MCMeta("SG", 1, 98, "SEGV", 0, 0), MCMeta("XX", 0, 0, "", 0, 0)}
MCJudgeMetas ==
    {MCMeta("", 1, 50, "", 0, 100), MCMeta("", 1, 50, "", 0, -1), MCMeta("SG", 1, 50, "SEGV", 0, 0),
     MCMeta("RE", 1, 50, "", 3, 0), MCMeta("XX", 0, 0, "", 0, 0)}

\* Bound: a worker has another job after a failure of its boxes, a Batch
\* task up to the end of its first testcase, in the boxes the failure left.
ExecutionPart ==
    /\ (work'.jobs = 2 /\ work.jobs = 1) =>
          /\ work'.mode = "per_process"
          /\ boxFaults > 0 \/ \E i \in Boxes, k \in {0, 1} : isolated[i][k] = "gone"
    /\ work'.jobs = 2 => work'.type = "Batch" /\ work'.done = 0

Init ==
    /\ moving \in {"jobs", "compile", "printing", "upgrade", "check", "execution"}
    /\ JobsInit /\ CompileInit /\ PrintInit /\ UpgradeInit /\ CheckInit /\ ExecutionInit
    /\ moving # "check" => expected = <<>>

Next ==
    \/ /\ moving = "jobs" /\ JobsNext
       /\ UNCHANGED <<moving, compileVars, printVars, upgradeVars, checkVars, executionVars>>
    \/ /\ moving = "compile" /\ CompileNext
       /\ UNCHANGED <<moving, jobVars, printVars, upgradeVars, checkVars, executionVars>>
    \/ /\ moving = "printing" /\ PrintNext
       /\ UNCHANGED <<moving, jobVars, compileVars, upgradeVars, checkVars, executionVars>>
    \/ /\ moving = "upgrade" /\ UpgradeNext
       /\ UNCHANGED <<moving, jobVars, compileVars, printVars, checkVars, executionVars>>
    \/ /\ moving = "check" /\ CheckNext
       /\ UNCHANGED <<moving, jobVars, compileVars, printVars, upgradeVars, executionVars>>
    \/ /\ moving = "execution" /\ ExecutionNext /\ ExecutionPart
       /\ UNCHANGED <<moving, jobVars, compileVars, printVars, upgradeVars, checkVars>>

\* PrintFairness asks for a step of the service in its first state: it is
\* restated for the behaviours that move it.
Fairness ==
    /\ JobsFairness
    /\ WF_printVars(moving = "printing" /\ Serve)

Spec == Init /\ [][Next]_vars /\ Fairness

\* Every variable of the services has its type.
TypeOK ==
    CASE moving = "jobs" -> JobsTypeOK
      [] moving = "compile" -> CompileTypeOK
      [] moving = "printing" -> PrintTypeOK
      [] moving = "upgrade" -> UpgradeTypeOK
      [] moving = "check" -> CheckTypeOK
      [] moving = "execution" -> ExecutionTypeOK

\* Outputs are compared as their comparator says, every program runs in a
\* fresh box, and an evaluation follows from what its runs reported.
WorkSound ==
    /\ moving = "check" => CheckersSound
    /\ moving = "execution" => ExecutionSound

\* Every run of a testcase job or user test is completed and every print job
\* is printed or fails, whatever is lost or restarted on the way.
ServicesSettle == RunsEnd /\ PrintJobsEnd

=============================================================================
