------------------------------ MODULE Problems ------------------------------
(***************************************************************************)
(* Tasks and their datasets in the administration pages: the tasks of the  *)
(* contests, the live dataset of each task, testcases, managers, score     *)
(* parameters, statements, problem packages and clones (internal/adminweb, *)
(* internal/problempkg).                                                   *)
(*                                                                         *)
(* A handler loads rows (LoadTask, LoadDataset, ListTasks), decides, and   *)
(* writes in a later step.  UpdateTask and UpdateDataset write the whole   *)
(* row from what was loaded, SetActiveDataset and SetTaskContest write     *)
(* their columns only.  Score parameters are the codenames that subtasks   *)
(* list, none for the score type Sum.                                      *)
(***************************************************************************)
EXTENDS Integers, FiniteSets, SequencesExt

CONSTANTS
    Setters,        \* administrators at work at the same time
    TaskIds,        \* 1 .. n: ids of tasks, in order
    DatasetIds,     \* 1 .. n: ids of datasets, in order
    ContestIds,     \* 1 .. n: ids of contests, in order
    TaskNames,      \* names of tasks
    Codes,          \* codenames of testcases
    Managers,       \* names of manager files
    Packages,       \* problem packages: [name, tests, groups, managers]
    MaxSetterRequests \* bound: requests

ASSUME ProblemsAssumption ==
    /\ \A S \in {TaskIds, DatasetIds, ContestIds} : IsFiniteSet(S) /\ S = 1 .. Cardinality(S) /\ S # {}
    /\ {1, 2} \subseteq TaskIds \cap DatasetIds
    /\ IsFiniteSet(TaskNames) /\ Cardinality(TaskNames) >= 2
    /\ \A p \in Packages : p.groups \subseteq p.tests /\ p.tests \subseteq Codes
    /\ MaxSetterRequests \in Nat

VARIABLES
    bank,           \* the tables: tasks, datasets, contests
    setting,        \* what each setter has loaded
    setRequests,    \* number of requests
    home,           \* history: the contest the staff last put each task in
    pulled,         \* history: tasks a row loaded before a move was written to
    stripped,       \* history: tasks whose live dataset went under a check of another one
    loose           \* history: datasets whose testcases changed under their score parameters

problemsVars == <<bank, setting, setRequests, home, pulled, stripped, loose>>

NoTask == [name |-> "", contest |-> 0, num |-> -1, live |-> 0, primary |-> FALSE]
NoDataset == [task |-> 0, tests |-> {}, groups |-> {}, managers |-> {}]
SettingIdle == [at |-> "idle"]

\* What a check of the score parameters against the testcases finds
\* (scoring.New): every subtask lists testcases that exist.
fits(d) == d.tests = {} \/ d.groups \subseteq d.tests

\* One contest with one task, and a task of no contest.
ProblemsInit ==
    LET names == SetToSeq(TaskNames)
    IN  /\ bank = [tasks |-> [t \in TaskIds |->
                      CASE t = 1 -> [name |-> names[1], contest |-> 1, num |-> 0, live |-> 1, primary |-> FALSE]
                        [] t = 2 -> [name |-> names[2], contest |-> 0, num |-> -1, live |-> 2, primary |-> FALSE]
                        [] OTHER -> NoTask],
                   datasets |-> [d \in DatasetIds |-> IF d \in {1, 2} THEN [NoDataset EXCEPT !.task = d, !.tests = Codes]
                                                      ELSE NoDataset],
                   contests |-> {1}, lastTask |-> 2, lastDataset |-> 2, lastContest |-> 1]
        /\ setting = [s \in Setters |-> SettingIdle] /\ setRequests = 0
        /\ home = [t \in TaskIds |-> IF t = 1 THEN 1 ELSE 0]
        /\ pulled = {} /\ stripped = {} /\ loose = {}

(***************************************************************************)
(* Queries.                                                                *)
(***************************************************************************)
Tasks(b) == {t \in TaskIds : b.tasks[t] # NoTask}
DatasetsOf(b, t) == {d \in DatasetIds : b.datasets[d].task = t}
GetTaskByName(b, n) == {t \in Tasks(b) : b.tasks[t].name = n}
GetTask(b, t) == b.tasks[t]
GetDataset(b, d) == b.datasets[d]
ListTestcases(b, d) == b.datasets[d].tests

\* In the order of their places, which are unique.
ListTasksByContest(b, c) ==
    {[id |-> t, num |-> b.tasks[t].num] : t \in {u \in Tasks(b) : b.tasks[u].contest = c}}
AdminNextTaskNum(b, c) ==
    LET nums == {b.tasks[t].num : t \in {u \in Tasks(b) : b.tasks[u].contest = c}}
    IN  IF nums = {} THEN 0 ELSE Max(nums) + 1

nameFree(b, n, t) == GetTaskByName(b, n) \subseteq {t}

\* The constraints of the tables: a name once, a place of a contest once.
Allowed(b) ==
    /\ \A t, u \in Tasks(b) : t # u =>
          /\ b.tasks[t].name # b.tasks[u].name
          /\ b.tasks[t].contest # 0 /\ b.tasks[t].contest = b.tasks[u].contest /\ b.tasks[t].num # -1
                => b.tasks[t].num # b.tasks[u].num
    /\ \A t \in Tasks(b) : b.tasks[t].contest \in b.contests \cup {0}

\* Ids are given in order and not again; 0 when the bound is reached.
FreshTask(b) == IF b.lastTask + 1 \in TaskIds THEN b.lastTask + 1 ELSE 0
FreshDataset(b) == IF b.lastDataset + 1 \in DatasetIds THEN b.lastDataset + 1 ELSE 0

CreateTask(b, t, n, c) ==
    [b EXCEPT !.lastTask = t,
              !.tasks[t] = [NoTask EXCEPT !.name = n, !.contest = c,
                                          !.num = IF c = 0 THEN -1 ELSE AdminNextTaskNum(b, c)]]
CreateDataset(b, d, row) == [b EXCEPT !.lastDataset = d, !.datasets[d] = row]

\* Every column but the live dataset.
UpdateTask(b, t, row) ==
    IF b.tasks[t] = NoTask THEN b ELSE [b EXCEPT !.tasks[t] = [row EXCEPT !.live = b.tasks[t].live]]
\* Every column; the testcases and managers are rows of their own.
UpdateDataset(b, d, groups) ==
    IF b.datasets[d] = NoDataset THEN b ELSE [b EXCEPT !.datasets[d].groups = groups]
UpsertTestcase(b, d, new) ==
    IF b.datasets[d] = NoDataset THEN b ELSE [b EXCEPT !.datasets[d].tests = @ \cup new]
DeleteTestcase(b, d, x) == [b EXCEPT !.datasets[d].tests = @ \ {x}]
DeleteDatasetTestcases(b, d) == [b EXCEPT !.datasets[d].tests = {}]
UpsertManager(b, d, m) ==
    IF b.datasets[d] = NoDataset THEN b ELSE [b EXCEPT !.datasets[d].managers = @ \cup {m}]
DeleteManager(b, d, m) == [b EXCEPT !.datasets[d].managers = @ \ {m}]
DeleteDatasetManagers(b, d) == [b EXCEPT !.datasets[d].managers = {}]
CloneDatasetContents(b, from, to) ==
    [b EXCEPT !.datasets[to].tests = b.datasets[from].tests, !.datasets[to].managers = b.datasets[from].managers]
SetTaskContest(b, t, c, num) ==
    IF b.tasks[t] = NoTask THEN b ELSE [b EXCEPT !.tasks[t].contest = c, !.tasks[t].num = num]
SetActiveDataset(b, t, d) == IF b.tasks[t] = NoTask THEN b ELSE [b EXCEPT !.tasks[t].live = d]
DeleteDataset(b, d) ==
    [b EXCEPT !.datasets[d] = NoDataset,
              !.tasks = [t \in TaskIds |-> IF b.tasks[t].live = d THEN [b.tasks[t] EXCEPT !.live = 0] ELSE b.tasks[t]]]
DeleteTask(b, t) ==
    [b EXCEPT !.tasks[t] = NoTask,
              !.datasets = [d \in DatasetIds |-> IF b.datasets[d].task = t THEN NoDataset ELSE b.datasets[d]]]
DeleteContest(b, c) ==
    [b EXCEPT !.contests = @ \ {c},
              !.tasks = [t \in TaskIds |-> IF b.tasks[t].contest = c THEN [b.tasks[t] EXCEPT !.contest = 0] ELSE b.tasks[t]]]

(***************************************************************************)
(* What the handlers load.                                                 *)
(***************************************************************************)
SetterRequest(s) ==
    /\ setting[s] = SettingIdle /\ setRequests < MaxSetterRequests /\ setRequests' = setRequests + 1
SetterDone(s) == setting' = [setting EXCEPT ![s] = SettingIdle]

loadTask(s) ==
    \E t \in Tasks(bank) :
        /\ SetterRequest(s)
        /\ setting' = [setting EXCEPT ![s] = [at |-> "task", task |-> t, row |-> GetTask(bank, t)]]
        /\ UNCHANGED <<bank, home, pulled, stripped, loose>>

\* The dataset with its testcases, and its task.
loadDataset(s) ==
    \E d \in DatasetIds :
        LET t == bank.datasets[d].task
        IN  /\ t # 0 /\ SetterRequest(s)
            /\ setting' = [setting EXCEPT ![s] = [at |-> "dataset", task |-> t, row |-> GetTask(bank, t),
                                                  dataset |-> d, set |-> GetDataset(bank, d)]]
            /\ UNCHANGED <<bank, home, pulled, stripped, loose>>

listTasks(s) ==
    \E c \in bank.contests :
        /\ SetterRequest(s)
        /\ setting' = [setting EXCEPT ![s] = [at |-> "list", contest |-> c,
                                              list |-> ListTasksByContest(bank, c)]]
        /\ UNCHANGED <<bank, home, pulled, stripped, loose>>

(***************************************************************************)
(* Tasks and contests.  A write the tables refuse changes nothing.         *)
(***************************************************************************)
Write(b) == bank' = IF Allowed(b) THEN b ELSE bank
\* Tasks that a write of b puts in another contest than the one they are in.
Moved(b, ts) == IF Allowed(b) THEN {t \in ts : b.tasks[t].contest # bank.tasks[t].contest} ELSE {}

\* The task, its default dataset and the choice of it as live, at once.
handleTaskCreate(s) ==
    \E n \in TaskNames, c \in bank.contests \cup {0} :
        LET t == FreshTask(bank)
            d == FreshDataset(bank)
            b == SetActiveDataset(CreateDataset(CreateTask(bank, t, n, c), d, [NoDataset EXCEPT !.task = t]), t, d)
        IN  /\ SetterRequest(s) /\ t # 0 /\ d # 0 /\ GetTaskByName(bank, n) = {}
            /\ Write(b) /\ home' = [home EXCEPT ![t] = c]
            /\ UNCHANGED <<setting, pulled, stripped, loose>>

\* The form of the task: the row that was loaded, with a name that was free.
handleTaskUpdate(s) ==
    \E n \in TaskNames :
        LET r == setting[s]
            b == UpdateTask(bank, r.task, [r.row EXCEPT !.name = n])
        IN  /\ r.at = "task" /\ (n = r.row.name \/ GetTaskByName(bank, n) = {})
            /\ Write(b) /\ pulled' = pulled \cup Moved(b, {r.task})
            /\ SetterDone(s) /\ UNCHANGED <<setRequests, home, stripped, loose>>

\* handleStatementUpload and setPrimary write the row only where the
\* language was not, or was, an official one.
setPrimary(s) ==
    \E p \in BOOLEAN :
        LET r == setting[s]
            b == UpdateTask(bank, r.task, [r.row EXCEPT !.primary = p])
        IN  /\ r.at = "task" /\ p # r.row.primary
            /\ Write(b) /\ pulled' = pulled \cup Moved(b, {r.task})
            /\ SetterDone(s) /\ UNCHANGED <<setRequests, home, stripped, loose>>

handleTaskDelete(s) ==
    /\ setting[s].at = "task"
    /\ bank' = DeleteTask(bank, setting[s].task)
    /\ pulled' = pulled \ {setting[s].task} /\ stripped' = stripped \ {setting[s].task}
    /\ loose' = loose \ DatasetsOf(bank, setting[s].task)
    /\ SetterDone(s) /\ UNCHANGED <<setRequests, home>>

\* A task of no contest when it was loaded gets the next place.
handleContestAddTask(s) ==
    \E c \in ContestIds :
        LET r == setting[s]
            b == SetTaskContest(bank, r.task, c, AdminNextTaskNum(bank, c))
        IN  /\ r.at = "task" /\ r.row.contest = 0
            /\ Write(b)
            /\ IF Allowed(b) THEN home' = [home EXCEPT ![r.task] = c] /\ pulled' = pulled \ {r.task}
               ELSE UNCHANGED <<home, pulled>>
            /\ SetterDone(s) /\ UNCHANGED <<setRequests, stripped, loose>>

handleContestRemoveTask(s) ==
    LET r == setting[s]
        b == SetTaskContest(bank, r.task, 0, -1)
    IN  /\ r.at = "task" /\ r.row.contest # 0
        /\ Write(b) /\ home' = [home EXCEPT ![r.task] = 0] /\ pulled' = pulled \ {r.task}
        /\ SetterDone(s) /\ UNCHANGED <<setRequests, stripped, loose>>

\* x is parked, for the places are unique, then both get the other's.
MoveTask(b, c, x, y) == SetTaskContest(SetTaskContest(SetTaskContest(b, x.id, c, -1), y.id, c, x.num), x.id, c, y.num)

Neighbours(list, x, y) ==
    x.num # y.num /\ \A z \in list : ~(x.num < z.num /\ z.num < y.num) /\ ~(y.num < z.num /\ z.num < x.num)

\* The places of the list that was loaded, one up or one down.
handleContestMoveTask(s) ==
    LET r == setting[s]
    IN  /\ r.at = "list"
        /\ \E x, y \in r.list :
              LET mid == SetTaskContest(SetTaskContest(bank, x.id, r.contest, -1), y.id, r.contest, x.num)
                  b == MoveTask(bank, r.contest, x, y)
              IN  /\ Neighbours(r.list, x, y)
                  /\ bank' = IF Allowed(mid) /\ Allowed(b) THEN b ELSE bank
                  /\ pulled' = IF Allowed(mid) THEN pulled \cup Moved(b, {x.id, y.id}) ELSE pulled
        /\ SetterDone(s) /\ UNCHANGED <<setRequests, home, stripped, loose>>

handleContestDelete(s) ==
    \E c \in bank.contests :
        /\ SetterRequest(s)
        /\ bank' = DeleteContest(bank, c)
        /\ home' = [t \in TaskIds |-> IF bank.tasks[t].contest = c THEN 0 ELSE home[t]]
        /\ pulled' = {t \in pulled : bank.tasks[t].contest # c}
        /\ UNCHANGED <<setting, stripped, loose>>

(***************************************************************************)
(* Datasets.                                                               *)
(***************************************************************************)
Loaded(s) == setting[s].at = "dataset"
\* The dataset is what was loaded.
Unmoved(s) == bank.datasets[setting[s].dataset] = setting[s].set

\* A dataset with the parameters of one that was loaded, and its testcases
\* and managers of now (CloneDatasetContents); or an empty one.
handleDatasetCreate(s) ==
    \E clone \in BOOLEAN :
        LET r == setting[s]
            d == FreshDataset(bank)
            row == [NoDataset EXCEPT !.task = r.task, !.groups = IF clone THEN r.set.groups ELSE {}]
            made == CreateDataset(bank, d, row)
        IN  /\ Loaded(s) /\ d # 0
            /\ IF bank.tasks[r.task] # NoTask
               THEN /\ bank' = IF clone THEN CloneDatasetContents(made, r.dataset, d) ELSE made
                    /\ loose' = IF clone /\ (~Unmoved(s) \/ r.dataset \in loose) THEN loose \cup {d} ELSE loose
               ELSE UNCHANGED <<bank, loose>>
            /\ SetterDone(s) /\ UNCHANGED <<setRequests, home, pulled, stripped>>

\* Parameters that fit the testcases that were loaded are written to the
\* dataset of the tables b, which may hold a new row of the task.
SaveParams(s, g, b) ==
    LET r == setting[s]
        d == r.dataset
        c == UpdateDataset(b, d, g)
    IN  /\ Loaded(s) /\ fits([r.set EXCEPT !.groups = g])
        /\ Write(c)
        /\ loose' = IF ~Allowed(c) \/ bank.datasets[d] = NoDataset THEN loose
                    ELSE IF r.set.tests = bank.datasets[d].tests THEN loose \ {d} ELSE loose \cup {d}
        /\ pulled' = pulled \cup Moved(c, {r.task})
        /\ SetterDone(s) /\ UNCHANGED <<setRequests, home, stripped>>

handleDatasetUpdate(s) == \E g \in SUBSET Codes : SaveParams(s, g, bank)

\* The options form: the row of the task and the dataset in one transaction.
handleTaskOptions(s) ==
    \E g \in SUBSET Codes, n \in TaskNames :
        /\ Loaded(s) /\ (n = setting[s].row.name \/ GetTaskByName(bank, n) = {})
        /\ SaveParams(s, g, UpdateTask(bank, setting[s].task, [setting[s].row EXCEPT !.name = n]))

\* problem.yaml edited as text: the name is looked up inside the
\* transaction, and a dataset that is gone undoes it.
ApplyConfig(s) ==
    \E g \in SUBSET Codes, n \in TaskNames :
        LET r == setting[s]
        IN  /\ Loaded(s) /\ nameFree(bank, n, r.task) /\ bank.datasets[r.dataset] # NoDataset
            /\ SaveParams(s, g, UpdateTask(bank, r.task, [r.row EXCEPT !.name = n]))

\* The new description is written with the parameters that were loaded.
handleDatasetRename(s) ==
    LET r == setting[s]
    IN  /\ Loaded(s)
        /\ bank' = UpdateDataset(bank, r.dataset, r.set.groups)
        /\ loose' = IF bank.datasets[r.dataset] # NoDataset /\ ~Unmoved(s) THEN loose \cup {r.dataset} ELSE loose
        /\ SetterDone(s) /\ UNCHANGED <<setRequests, home, pulled, stripped>>

\* ChangeLiveDataset; a dataset that is gone is refused by its key.
handleDatasetActivate(s) ==
    LET r == setting[s]
    IN  /\ Loaded(s)
        /\ IF bank.datasets[r.dataset] # NoDataset
           THEN bank' = SetActiveDataset(bank, r.task, r.dataset) /\ stripped' = stripped \ {r.task}
           ELSE UNCHANGED <<bank, stripped>>
        /\ SetterDone(s) /\ UNCHANGED <<setRequests, home, pulled, loose>>

\* A mutant: nobody asks which dataset is live.
MayDeleteAny(r) == TRUE

\* The task that was loaded with the dataset decides.
MayDelete(r) == r.row.live # r.dataset

handleDatasetDelete(s) ==
    LET r == setting[s]
    IN  /\ Loaded(s) /\ MayDelete(r)
        /\ bank' = DeleteDataset(bank, r.dataset)
        /\ stripped' = stripped \cup {t \in Tasks(bank) : bank.tasks[t].live = r.dataset /\ r.row.live # r.dataset}
        /\ loose' = loose \ {r.dataset}
        /\ SetterDone(s) /\ UNCHANGED <<setRequests, home, pulled>>

handleManagerUpload(s) ==
    \E m \in Managers :
        LET r == setting[s]
        IN  /\ Loaded(s)
            /\ bank' = UpsertManager(bank, r.dataset, m)
            /\ SetterDone(s) /\ UNCHANGED <<setRequests, home, pulled, stripped, loose>>

handleManagerDelete(s) ==
    \E m \in Managers :
        LET r == setting[s]
        IN  /\ Loaded(s) /\ m \in bank.datasets[r.dataset].managers
            /\ bank' = DeleteManager(bank, r.dataset, m)
            /\ SetterDone(s) /\ UNCHANGED <<setRequests, home, pulled, stripped, loose>>

\* Testcases are added and replaced in one transaction; those that were
\* there when the archive was read are kept unless the form says otherwise.
importArchive(s) ==
    \E new \in SUBSET Codes \ {{}}, overwrite \in BOOLEAN :
        LET r == setting[s]
            add == IF overwrite THEN new ELSE new \ r.set.tests
        IN  /\ Loaded(s)
            /\ IF bank.datasets[r.dataset] # NoDataset
               THEN /\ bank' = UpsertTestcase(bank, r.dataset, add)
                    /\ loose' = IF add \subseteq bank.datasets[r.dataset].tests THEN loose ELSE loose \cup {r.dataset}
               ELSE UNCHANGED <<bank, loose>>
            /\ SetterDone(s) /\ UNCHANGED <<setRequests, home, pulled, stripped>>

handleTestcaseDelete(s) ==
    \E d \in DatasetIds : \E x \in ListTestcases(bank, d) :
        /\ SetterRequest(s)
        /\ bank' = DeleteTestcase(bank, d, x)
        /\ loose' = loose \cup {d}
        /\ UNCHANGED <<setting, home, pulled, stripped>>

\* Every testcase goes, to import a new set: no parameters are asked.
handleTestcasesClear(s) ==
    LET d == setting[s].dataset
    IN  /\ Loaded(s)
        /\ bank' = DeleteDatasetTestcases(bank, d)
        /\ SetterDone(s) /\ UNCHANGED <<setRequests, home, pulled, stripped, loose>>

(***************************************************************************)
(* Packages and clones: every row in one transaction.                      *)
(***************************************************************************)
PackageRow(p, t) == [NoDataset EXCEPT !.task = t, !.groups = p.groups]
writeDataset(b, d, p) ==
    [b EXCEPT !.datasets[d].tests = @ \cup p.tests, !.datasets[d].managers = @ \cup p.managers]

\* A new task with the package's dataset live, or another dataset of a task.
Import(s) ==
    \E p \in Packages, t \in Tasks(bank) \cup {0}, c \in bank.contests \cup {0} :
        LET new == FreshTask(bank)
            d == FreshDataset(bank)
            made == IF t = 0 THEN CreateTask(bank, new, p.name, c) ELSE bank
            id == IF t = 0 THEN new ELSE t
            b == writeDataset(CreateDataset(made, d, PackageRow(p, id)), d, p)
        IN  /\ SetterRequest(s) /\ d # 0
            /\ IF t = 0 THEN new # 0 /\ GetTaskByName(bank, p.name) = {} ELSE c = 0
            /\ bank' = IF t = 0 THEN SetActiveDataset(b, new, d) ELSE b
            /\ home' = IF t = 0 THEN [home EXCEPT ![new] = c] ELSE home
            /\ UNCHANGED <<setting, pulled, stripped, loose>>

\* The task and the dataset become what the package says; the task keeps
\* its name where the package's belongs to another one.
Fill(s) ==
    \E p \in Packages, d \in DatasetIds :
        LET t == bank.datasets[d].task
            row == IF nameFree(bank, p.name, t) THEN [bank.tasks[t] EXCEPT !.name = p.name] ELSE bank.tasks[t]
        IN  /\ t # 0 /\ SetterRequest(s)
            /\ bank' = writeDataset(DeleteDatasetManagers(DeleteDatasetTestcases(
                          UpdateDataset(UpdateTask(bank, t, row), d, p.groups), d), d), d, p)
            /\ loose' = loose \ {d}
            /\ UNCHANGED <<setting, home, pulled, stripped>>

\* The contest's tasks under new names, in their places, each with copies
\* of its datasets and the copy of the live one live.
cloneContest(s) ==
    \E c \in bank.contests, n \in TaskNames, old \in Tasks(bank) :
        LET new == bank.lastContest + 1
            t == FreshTask(bank)
            olds == DatasetsOf(bank, old)
            copyOf(d) == bank.lastDataset + Cardinality({e \in olds : e <= d})
            row == [bank.tasks[old] EXCEPT !.name = n, !.contest = new,
                                           !.live = IF @ = 0 THEN 0 ELSE copyOf(@)]
        IN  /\ SetterRequest(s) /\ new \in ContestIds /\ t # 0
            /\ {x.id : x \in ListTasksByContest(bank, c)} = {old}
            /\ {copyOf(d) : d \in olds} \subseteq DatasetIds /\ GetTaskByName(bank, n) = {}
            /\ bank' = [bank EXCEPT
                  !.contests = @ \cup {new}, !.lastContest = new, !.lastTask = t, !.tasks[t] = row,
                  !.lastDataset = @ + Cardinality(olds),
                  !.datasets = [d \in DatasetIds |->
                      IF \E e \in olds : d = copyOf(e)
                      THEN [bank.datasets[CHOOSE e \in olds : d = copyOf(e)] EXCEPT !.task = t]
                      ELSE bank.datasets[d]]]
            /\ home' = [home EXCEPT ![t] = new]
            /\ loose' = loose \cup {copyOf(d) : d \in olds \cap loose}
            /\ stripped' = IF old \in stripped THEN stripped \cup {t} ELSE stripped
            /\ UNCHANGED <<setting, pulled>>

ProblemsNext ==
    \E s \in Setters :
        \/ loadTask(s) \/ loadDataset(s) \/ listTasks(s)
        \/ handleTaskCreate(s) \/ handleTaskUpdate(s) \/ setPrimary(s) \/ handleTaskDelete(s)
        \/ handleContestAddTask(s) \/ handleContestRemoveTask(s) \/ handleContestMoveTask(s)
        \/ handleContestDelete(s)
        \/ handleDatasetCreate(s) \/ handleDatasetUpdate(s) \/ handleTaskOptions(s) \/ ApplyConfig(s)
        \/ handleDatasetRename(s)
        \/ handleDatasetActivate(s) \/ handleDatasetDelete(s)
        \/ handleManagerUpload(s) \/ handleManagerDelete(s) \/ importArchive(s) \/ handleTestcaseDelete(s)
        \/ handleTestcasesClear(s)
        \/ Import(s) \/ Fill(s) \/ cloneContest(s)

ProblemsSpec == ProblemsInit /\ [][ProblemsNext]_problemsVars

(***************************************************************************)
(* Properties.                                                             *)
(***************************************************************************)
\* Every variable of the problems has its type, and the tables keep their
\* keys.
ProblemsTypeOK ==
    /\ Allowed(bank) /\ setRequests \in 0 .. MaxSetterRequests
    /\ \A t \in TaskIds : bank.tasks[t].num \in -1 .. Cardinality(TaskIds)
    /\ \A d \in DatasetIds : bank.datasets[d] = NoDataset \/ bank.datasets[d].task \in Tasks(bank)

\* The live dataset of a task is one of its own, through imports and clones,
\* and a task is left without one only where another dataset was live when
\* the deletion was checked.
LiveIsOwn ==
    \A t \in Tasks(bank) :
        IF bank.tasks[t].live = 0 THEN t \in stripped
        ELSE bank.datasets[bank.tasks[t].live].task = t

\* A dataset's score parameters fit its testcases unless testcases were
\* added or deleted under them, or a form was saved over a change that came
\* after it was loaded.
ParamsFit == \A d \in DatasetIds : fits(bank.datasets[d]) \/ d \in loose

\* A task is in the contest the staff put it in, unless a form loaded before
\* the move was saved after it; a task of a contest has a place in it.
PlacesKept ==
    \A t \in Tasks(bank) :
        /\ bank.tasks[t].contest = home[t] \/ t \in pulled
        /\ bank.tasks[t].contest # 0 => bank.tasks[t].num # -1

\* Administrators at work on the same problems leave what can be judged.
ProblemsSound == LiveIsOwn /\ ParamsFit /\ PlacesKept
=============================================================================
