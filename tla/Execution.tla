----------------------------- MODULE Execution -----------------------------
(***************************************************************************)
(* How a worker runs the programs of a job: the slot and its boxes         *)
(* (internal/sandbox), the task types (internal/tasktypes) and the         *)
(* executor (internal/worker/executor.go).                                 *)
(*                                                                         *)
(* Each logical box is two isolate boxes used in turn: while a program     *)
(* runs in one, the other is cleaned and initialised in the background.    *)
(* What isolate reports of a run is any of Metas; how isolate reaches it   *)
(* is outside.  An evaluation is a sequence of stages, each of them the    *)
(* programs that run at the same time, with the box of each.               *)
(***************************************************************************)
EXTENDS Checkers, FiniteSets

CONSTANTS
    Metas,          \* what isolate says of a run of a contestant,
    JudgeMetas,     \* and of a program of the task
    TaskTypes,      \* task types of the jobs
    Processes,      \* contestant processes of a Communication task
    LimitsModes,    \* of Communication tasks: "per_process", "total"
    TimeLimit,      \* CPU time limit of the contestants
    MemoryLimit,    \* memory limit, in hundredths of itself
    NumTestcases,   \* testcases of a job
    MaxBoxFaults,   \* bound: initialisations of a box that fail
    MaxJobs         \* bound: jobs of the worker

ASSUME ExecutionAssumption ==
    {Processes, TimeLimit, MemoryLimit, NumTestcases, MaxBoxFaults, MaxJobs} \subseteq Nat

\* BoxesPerSlot: the program, the checker, the compiler of managers, the
\* other processes.
Boxes == 0 .. Processes + 1

VARIABLES
    slot,           \* logical boxes: next, and ready, phys and err of the two
    isolated,       \* what each isolate box holds
    held,           \* the box of each stage that the job has, or none
    work,           \* the job: task type, stage, results of runs, testcases done
    built,          \* CheckerCache: the manager is compiled
    boxFaults,
    runs            \* history: what the runs of the evaluation reported

executionVars == <<slot, isolated, held, work, built, boxFaults, runs>>

NoRun == [status |-> "none"]
Idle(n) == [type |-> "none", mode |-> "per_process", jobs |-> n, stage |-> 0, got |-> <<>>, done |-> 0, last |-> NoRun, error |-> "none"]
NoBox == -1
EmptyBox == [next |-> 0, ready |-> [k \in {0, 1} |-> "none"], phys |-> [k \in {0, 1} |-> FALSE],
             err |-> [k \in {0, 1} |-> FALSE]]

\* A worker that crashed leaves its boxes as they are.
ExecutionInit ==
    /\ slot = [i \in Boxes |-> EmptyBox]
    /\ isolated = [i \in Boxes |-> [k \in {0, 1} |-> "used"]]
    /\ held = [i \in Boxes |-> NoBox] /\ work = Idle(0) /\ built = FALSE /\ boxFaults = 0 /\ runs = <<>>

(***************************************************************************)
(* Runs.                                                                   *)
(***************************************************************************)
\* classify: limits before the exit status.
classify(m) ==
    CASE m.status = "XX" -> "sandbox_error"
      [] m.oom -> "memory"
      [] m.status = "TO" /\ m.wall /\ m.cpu < TimeLimit -> "timeout_wall"
      [] m.status = "TO" -> "timeout"
      [] m.cpu > TimeLimit -> "timeout"
      [] m.status = "SG" /\ m.sig = "XFSZ" -> "output_limit"
      [] m.status = "SG" /\ m.sig = "SYS" -> "security"
      [] m.status \in {"SG", "RE"} /\ m.mem >= (MemoryLimit * 98) \div 100 -> "memory"
      [] m.status = "SG" -> "signal"
      [] m.status = "RE" -> "nonzero"
      [] OTHER -> "ok"

result(m, status) == [status |-> status, sig |-> m.sig, code |-> m.code, cpu |-> m.cpu, mem |-> m.mem, says |-> m.says]

\* Box.Run of a program of the task, and tasktypes.run of a contestant: the memory
\* limit also holds for the measured peak.
BoxRun(m) == result(m, classify(m))
runProgram(m) ==
    result(m, IF m.mem > MemoryLimit /\ classify(m) \notin {"timeout", "timeout_wall", "sandbox_error"}
              THEN "memory" ELSE classify(m))

(***************************************************************************)
(* Task types.  The stages of an evaluation: the program in each box.      *)
(***************************************************************************)
\* A dataset with a custom checker or a manager in source.
stagesBatch == <<(0 :> "user"), (1 :> "checker")>>
stagesTwoSteps == <<(0 :> "user"), (3 :> "user"), (1 :> "checker")>>
stagesOutputOnly == <<(0 :> "file"), (1 :> "checker")>>
stagesCommunication == <<(2 :> "compiler"), (0 :> "manager") @@ [i \in 2 .. Processes + 1 |-> "user"]>>
stagesInteractive == <<(2 :> "compiler"), (0 :> "manager") @@ (2 :> "user")>>

stages(type) ==
    CASE type = "Batch" -> stagesBatch
      [] type = "TwoSteps" -> stagesTwoSteps
      [] type = "OutputOnly" -> stagesOutputOnly
      [] type = "Communication" -> stagesCommunication
      [] type = "Interactive" -> stagesInteractive
Program(i) == stages(work.type)[work.stage][i]
ProgramsOf(type, s) == DOMAIN stages(type)[s]
BoxesNeeded == ProgramsOf(work.type, work.stage)

Evaluation(status, score, cpu, mem) == [status |-> status, score |-> score, cpu |-> cpu, mem |-> mem]
Failure(kind) == [error |-> kind]
evaluationFromRun(r) == Evaluation(r.status, 0, r.cpu, r.mem)
Sum2(rs, f(_)) == FoldLeft(LAMBDA n, r : n + f(r), 0, rs)
Highest(rs, f(_)) == FoldLeft(LAMBDA n, r : IF f(r) > n THEN f(r) ELSE n, 0, rs)
Scored(ev, score) == IF score = JudgeFailure THEN Failure("judge") ELSE [ev EXCEPT !.score = score]
brokenPipe(r) == r.status = "signal" /\ r.sig = "PIPE"

\* runChecker, with the testlib protocol.
runChecker(r, ev) ==
    IF r.status \notin {"ok", "nonzero"} THEN Failure("judge") ELSE Scored(ev, ParseTestlib(r.code, r.says))

\* Batch, TwoSteps and OutputOnly: the last program and then its checker.
\* The time of two steps is their sum.
EvaluateSteps(got) ==
    LET users == SelectSeq(got, LAMBDA s : \E i \in DOMAIN s : s[i].role = "user")
        rs == [n \in DOMAIN users |-> users[n][CHOOSE i \in DOMAIN users[n] : TRUE].r]
        ev == IF rs = <<>> THEN Evaluation("ok", 0, 0, 0)
              ELSE Evaluation(rs[Len(rs)].status, 0, Sum2(rs, LAMBDA r : r.cpu), Highest(rs, LAMBDA r : r.mem))
        last == got[Len(got)]
    IN  IF 1 \in DOMAIN last THEN runChecker(last[1].r, ev) ELSE ev

\* A mutant: a manager that fails is never the contestants' fault, but what
\* the contestants did is not looked at.
judgeManagerOnly(us, m, total) ==
    IF m.status # "ok" THEN Failure("judge")
    ELSE Scored(Evaluation("ok", 0, Sum2(us, LAMBDA r : r.cpu), Highest(us, LAMBDA r : r.mem)), ParseCMSChecker(m.says))

\* Communication.judge: the first contestant process that failed, unless
\* the manager hung up on it; the manager's failure is its own unless a
\* contestant process failed by itself.
judgeCommunication(us, m, total) ==
    LET failed == SelectSeq(us, LAMBDA u : u.status # "ok" /\ ~(m.status = "ok" /\ brokenPipe(u)))
        time == Sum2(us, LAMBDA r : r.cpu)
        memory == IF total THEN Sum2(us, LAMBDA r : r.mem) ELSE Highest(us, LAMBDA r : r.mem)
    IN  IF m.status # "ok" /\ (failed = <<>> \/ Head(failed).status = "timeout_wall") THEN Failure("judge")
        ELSE IF failed # <<>> THEN Evaluation(Head(failed).status, 0, time, Highest(us, LAMBDA r : r.mem))
        ELSE IF total /\ time > TimeLimit THEN Evaluation("timeout", 0, time, memory)
        ELSE IF total /\ memory > MemoryLimit THEN Evaluation("memory", 0, time, memory)
        ELSE Scored(Evaluation("ok", 0, time, memory), ParseCMSChecker(m.says))

limitExceeded(r) == r.status \in {"timeout", "timeout_wall", "memory", "output_limit", "security"}

\* Interactive.judge: limits of the contestant, then failures of the
\* interactor, then a crash of the contestant, then the interactor decides.
judgeInteractive(u, m) ==
    IF limitExceeded(u) THEN evaluationFromRun(u)
    ELSE IF m.status \notin {"ok", "nonzero"} \/ ParseTestlib(m.code, m.says) = JudgeFailure THEN Failure("judge")
    ELSE IF u.status # "ok" /\ ~brokenPipe(u) THEN evaluationFromRun(u)
    ELSE Evaluation("ok", ParseTestlib(m.code, m.says), u.cpu, u.mem)

\* The evaluation of the runs got, or the error that ends the job.
judge(type, mode, got) ==
    LET last == got[Len(got)]
        us == [n \in 1 .. (Cardinality(DOMAIN last) - 1) |-> last[n + 1].r]
    IN  CASE type = "Communication" -> judgeCommunication(us, last[0].r, mode = "total")
          [] type = "Interactive" -> judgeInteractive(last[2].r, last[0].r)
          [] OTHER -> EvaluateSteps(got)

(***************************************************************************)
(* The slot.                                                               *)
(***************************************************************************)
\* initAsync starts, in the boxes lb of index i.
initAsync(lb, k) == [lb EXCEPT !.ready[k] = "running"]

\* The background goroutine ends: the box is cleaned and initialised, or
\* isolate fails.
InitEnds(i, k, ok) ==
    /\ slot[i].ready[k] = "running" /\ (ok \/ boxFaults < MaxBoxFaults)
    /\ slot' = [slot EXCEPT ![i].ready[k] = "done", ![i].phys[k] = ok, ![i].err[k] = ~ok]
    /\ isolated' = [isolated EXCEPT ![i][k] = IF ok THEN "clean" ELSE "used"]
    /\ boxFaults' = IF ok THEN boxFaults ELSE boxFaults + 1
    /\ UNCHANGED <<held, work, built, runs>>

\* A mutant: the box in use is initialised again, not the other one.
handOutSame(lb, k) == [initAsync(lb, k) EXCEPT !.next = 1 - k]
\* Hand out k; recycle the other one for the next call.
handOut(lb, k) ==
    LET other == 1 - k
        l == IF lb.phys[other] \/ lb.ready[other] = "none" THEN initAsync(lb, other) ELSE lb
    IN  [l EXCEPT !.next = other, !.ready[k] = "none"]

\* Slot.Box(i): the first call starts the initialisation; a failed one is
\* retried from scratch by the next call, and ends this job.  A call that is
\* cancelled waits no longer, and its job is the one that ends.
wanted == {i \in BoxesNeeded : held[i] = NoBox}
Box(i) ==
    /\ work.stage > 0 /\ work.error = "none" /\ i \in wanted /\ \A j \in wanted : i <= j
    /\ LET lb == slot[i]
           k == lb.next
       IN  \/ /\ lb.ready[k] = "none"
              /\ slot' = [slot EXCEPT ![i] = initAsync(lb, k)]
              /\ UNCHANGED <<held, work>>
           \/ /\ lb.ready[k] = "running"
              /\ work' = [work EXCEPT !.error = "infra"] /\ UNCHANGED <<slot, held>>
           \/ /\ lb.ready[k] = "done" /\ lb.err[k]
              /\ slot' = [slot EXCEPT ![i].ready[k] = "none", ![i].phys[k] = FALSE, ![i].err[k] = FALSE]
              /\ work' = [work EXCEPT !.error = "infra"] /\ UNCHANGED held
           \/ /\ lb.ready[k] = "done" /\ ~lb.err[k]
              /\ slot' = [slot EXCEPT ![i] = handOut(lb, k)]
              /\ held' = [held EXCEPT ![i] = k] /\ UNCHANGED work
    /\ UNCHANGED <<isolated, built, boxFaults, runs>>

\* Recycle, after a sandbox error that reaches the executor as one: wait
\* for the initialisations, dispose of every box.
Recycle ==
    /\ work.error = "sandbox" /\ \A i \in Boxes, k \in {0, 1} : slot[i].ready[k] # "running"
    /\ slot' = [i \in Boxes |-> [EmptyBox EXCEPT !.next = slot[i].next]]
    /\ isolated' = [i \in Boxes |-> [k \in {0, 1} |-> IF slot[i].phys[k] THEN "gone" ELSE isolated[i][k]]]
    /\ work' = [work EXCEPT !.error = "infra"]
    /\ UNCHANGED <<held, built, boxFaults, runs>>

(***************************************************************************)
(* The executor.                                                           *)
(***************************************************************************)
FirstStage(type) == IF stages(type)[1] = (2 :> "compiler") /\ built THEN 2 ELSE 1
Released == [i \in Boxes |-> NoBox]

Execute(type, mode) ==
    /\ work.type = "none" /\ work.jobs < MaxJobs
    /\ type # "Communication" => mode = "per_process"
    /\ work' = [Idle(work.jobs + 1) EXCEPT !.type = type, !.mode = mode, !.stage = FirstStage(type)]
    /\ UNCHANGED <<slot, isolated, held, built, boxFaults, runs>>

\* The stage after those of got.  A program of Batch may leave no output
\* file: there is nothing to check.
NextStage(got, absent) ==
    LET last == got[Len(got)]
        stopped == \E i \in DOMAIN last : last[i].role = "user" /\ last[i].r.status # "ok"
    IN  IF work.stage = Len(stages(work.type)) \/ stopped \/ absent THEN 0 ELSE work.stage + 1

\* Only the errors of the manager's and the interactor's box reach the
\* executor as sandbox errors: the others are wrapped as text.
SandboxFailure(rs) ==
    IF 0 \in DOMAIN rs /\ rs[0].role = "manager" /\ rs[0].r.status = "sandbox_error" THEN "sandbox" ELSE "infra"

MetasOf(i) == IF Program(i) = "user" THEN Metas ELSE JudgeMetas
Ended(ms) ==
    [i \in BoxesNeeded |-> [role |-> Program(i),
                            r |-> IF Program(i) = "user" THEN runProgram(ms[i]) ELSE BoxRun(ms[i])]]

\* The programs of the stage run, each in its box, and end as ms says.
RunStage(ms, absent) ==
    LET rs == Ended(ms)
        got == Append(work.got, rs)
        compiler == \E i \in DOMAIN rs : rs[i].role = "compiler"
        failed == \E i \in DOMAIN rs : rs[i].r.status = "sandbox_error"
        to == NextStage(got, absent)
        ev == judge(work.type, work.mode, got)
    IN  /\ work.stage > 0 /\ work.error = "none" /\ wanted = {}
        /\ isolated' = [i \in Boxes |-> IF i \in BoxesNeeded THEN [isolated[i] EXCEPT ![held[i]] = "used"] ELSE isolated[i]]
        /\ held' = Released
        /\ runs' = IF work.got = <<>> THEN <<rs>> ELSE Append(runs, rs)
        /\ built' = (built \/ (compiler /\ rs[2].r.status = "ok"))
        /\ work' = IF failed THEN [work EXCEPT !.error = SandboxFailure(rs)]
                   ELSE IF compiler THEN IF rs[2].r.status = "ok" THEN [work EXCEPT !.stage = 2]
                                         ELSE [work EXCEPT !.error = "judge"]
                   ELSE IF to # 0 THEN [work EXCEPT !.stage = to, !.got = got]
                   ELSE IF "error" \in DOMAIN ev THEN [work EXCEPT !.error = ev.error]
                   ELSE [work EXCEPT !.done = @ + 1, !.last = ev, !.got = <<>>, !.stage = 0]
        /\ UNCHANGED <<slot, boxFaults>>

\* The output of a contestant is copied into a box without running.
PutFile ==
    /\ work.stage > 0 /\ work.error = "none" /\ wanted = {}
    /\ \E i \in BoxesNeeded : Program(i) = "file"
    /\ work' = [work EXCEPT !.stage = 2, !.got = <<>>]
    /\ held' = Released /\ isolated' = [isolated EXCEPT ![0][held[0]] = "used"] /\ runs' = <<>>
    /\ UNCHANGED <<slot, built, boxFaults>>

\* The loop of execute over the testcases.
NextTestcase ==
    /\ work.type # "none" /\ work.error = "none" /\ work.stage = 0 /\ work.done < NumTestcases
    /\ work' = [work EXCEPT !.stage = FirstStage(work.type), !.last = NoRun] /\ runs' = <<>>
    /\ UNCHANGED <<slot, isolated, held, built, boxFaults>>

\* The result is published: an error without evaluations, or all of them.
PublishResult ==
    /\ work.type # "none" /\ work.error # "sandbox"
    /\ work.error # "none" \/ (work.stage = 0 /\ work.done = NumTestcases)
    /\ work' = Idle(work.jobs) /\ held' = Released /\ runs' = <<>>
    /\ UNCHANGED <<slot, isolated, built, boxFaults>>

ExecutionNext ==
    \/ \E i \in Boxes, k \in {0, 1} : \E ok \in BOOLEAN : InitEnds(i, k, ok)
    \/ \E i \in Boxes : Box(i)
    \/ \E t \in TaskTypes, mode \in LimitsModes : Execute(t, mode)
    \/ /\ work.stage > 0 /\ work.error = "none" /\ wanted = {}
       /\ \A i \in BoxesNeeded : Program(i) # "file"
       /\ \E ms \in [BoxesNeeded -> Metas \cup JudgeMetas], absent \in {FALSE, work.type = "Batch" /\ work.stage = 1} :
            (\A i \in BoxesNeeded : ms[i] \in MetasOf(i)) /\ RunStage(ms, absent)
    \/ PutFile \/ Recycle \/ NextTestcase \/ PublishResult

ExecutionSpec == ExecutionInit /\ [][ExecutionNext]_executionVars

(***************************************************************************)
(* Properties.                                                             *)
(***************************************************************************)
\* The slot and the job have their type.
ExecutionTypeOK ==
    /\ \A i \in Boxes : held[i] \in {NoBox, 0, 1} /\ slot[i].next \in {0, 1}
    /\ work.stage \in 0 .. 3 /\ work.done <= NumTestcases
    /\ work.error \in {"none", "infra", "judge", "sandbox"} /\ boxFaults \in 0 .. MaxBoxFaults

\* A box that a job holds was cleaned since any program used it, and nothing
\* in the background touches it.
FreshBoxes ==
    \A i \in Boxes : held[i] # NoBox =>
        isolated[i][held[i]] = "clean" /\ slot[i].phys[held[i]] /\ slot[i].ready[held[i]] = "none"

\* What was reported of the contestant's programs, of any stage.
UserRuns ==
    UNION {{runs[n][i].r : i \in {k \in DOMAIN runs[n] : runs[n][k].role = "user"}} :
           n \in DOMAIN runs}

\* The newest evaluation, judged from the runs: points only for programs
\* that ended well within their limits (or whom a manager that was done
\* hung up on), a failure named only when some contestant's process had it,
\* or all of them together where their limits are of the total,
\* and no failure of the sandbox taken for a verdict.
JudgedRight ==
    work.last # NoRun =>
        LET ev == work.last
            tolerated(r) == r.status = "ok" \/ (brokenPipe(r) /\ work.type \in {"Communication", "Interactive"})
        IN  /\ ev.score > 0 => \A r \in UserRuns : tolerated(r) /\ r.mem <= MemoryLimit /\ r.cpu <= TimeLimit
            /\ ev.status \notin {"ok", "sandbox_error"} =>
                    /\ ev.score = 0
                    /\ \/ \E r \in UserRuns : r.status = ev.status
                       \/ work.mode = "total" /\ ev.status = "timeout" /\ ev.cpu > TimeLimit
                       \/ work.mode = "total" /\ ev.status = "memory" /\ ev.mem > MemoryLimit
            /\ ev.status # "sandbox_error" /\ ev.score \in 0 .. 100
            /\ ev.status = "ok" => \A r \in UserRuns : tolerated(r)

\* The worker runs every program in a fresh box, and its verdicts are right.
ExecutionSound == FreshBoxes /\ JudgedRight
=============================================================================
