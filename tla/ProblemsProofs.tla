---------------------------- MODULE ProblemsProofs ----------------------------
(***************************************************************************)
(* Proofs about Problems, for any number of administrators, tasks,         *)
(* datasets, contests, packages and files.                                 *)
(***************************************************************************)
EXTENDS Problems, Sums, TLAPS

(***************************************************************************)
(* The tables of the problems and what the queries do to them.             *)
(***************************************************************************)
Titles == TaskNames \cup {""} \cup {p.name : p \in Packages}
Files4 == Managers \cup UNION {p.managers : p \in Packages}
TaskRow == [name : Titles, contest : ContestIds \cup {0}, num : Nat \cup {-1}, live : DatasetIds \cup {0},
            primary : BOOLEAN]
DatasetRow == [task : TaskIds \cup {0}, tests : SUBSET Codes, groups : SUBSET Codes, managers : SUBSET Files4]
Banks == [tasks : [TaskIds -> TaskRow], datasets : [DatasetIds -> DatasetRow], contests : SUBSET ContestIds,
          lastTask : Nat, lastDataset : Nat, lastContest : Nat]

\* The ids of tasks, datasets and contests are numbers from 1 on.
LEMMA ProblemIds ==
    /\ \A t \in TaskIds : t \in Nat /\ t # 0
    /\ \A d \in DatasetIds : d \in Nat /\ d # 0
    /\ \A c \in ContestIds : c \in Nat /\ c # 0
    /\ IsFiniteSet(TaskIds) /\ IsFiniteSet(DatasetIds)
<1>1. ASSUME NEW S \in {TaskIds, DatasetIds, ContestIds} PROVE IsFiniteSet(S) /\ \A i \in S : i \in Nat /\ i # 0
  <2>1. IsFiniteSet(S) /\ S = 1 .. Cardinality(S)
    BY ProblemsAssumption, Zenon
  <2>2. Cardinality(S) \in Nat
    BY <2>1, FS_CardinalityType
  <2>3. PICK n \in Nat : n = Cardinality(S)
    BY <2>2
  <2>4. S = 1 .. n
    BY <2>1, <2>3
  <2> QED BY <2>1, <2>4
<1> QED
  BY <1>1

\* Rows that are not there are rows.
LEMMA NoRowsOfBank == NoTask \in TaskRow /\ NoDataset \in DatasetRow /\ NoTask.contest = 0 /\ NoDataset.task = 0
                      /\ NoTask.live = 0 /\ fits(NoDataset)
BY DEF NoTask, NoDataset, TaskRow, DatasetRow, Titles, fits

\* What a bank holds.
LEMMA BankHolds ==
    ASSUME NEW b \in Banks
    PROVE  /\ b.tasks \in [TaskIds -> TaskRow] /\ b.datasets \in [DatasetIds -> DatasetRow]
           /\ b.contests \in SUBSET ContestIds /\ b.lastTask \in Nat /\ b.lastDataset \in Nat /\ b.lastContest \in Nat
BY DEF Banks

\* Tables e that have these tasks, and the rest of b.
TasksOf(e, b, T) ==
    /\ e \in Banks /\ e.tasks = T /\ e.datasets = b.datasets /\ e.contests = b.contests
    /\ e.lastTask = b.lastTask /\ e.lastDataset = b.lastDataset /\ e.lastContest = b.lastContest
\* Tables e that have these datasets, and the rest of b.
DatasetsAre(e, b, D) ==
    /\ e \in Banks /\ e.datasets = D /\ e.tasks = b.tasks /\ e.contests = b.contests
    /\ e.lastTask = b.lastTask /\ e.lastDataset = b.lastDataset /\ e.lastContest = b.lastContest

\* Other tasks in the tables.
LEMMA NewTasks ==
    ASSUME NEW b \in Banks, NEW T \in [TaskIds -> TaskRow], NEW e, e = [b EXCEPT !.tasks = T]
    PROVE  TasksOf(e, b, T)
BY DEF TasksOf, Banks

\* Other datasets in the tables.
LEMMA NewDatasets ==
    ASSUME NEW b \in Banks, NEW D \in [DatasetIds -> DatasetRow], NEW e, e = [b EXCEPT !.datasets = D]
    PROVE  DatasetsAre(e, b, D)
BY DEF DatasetsAre, Banks

\* An update of one row is an update of the table.
LEMMA BankRowUpdates ==
    ASSUME NEW A, NEW B, NEW C, NEW L, NEW b \in [tasks : A, datasets : B, contests : C, lastTask : L, lastDataset : L,
                                                 lastContest : L], NEW i, NEW r, NEW v
    PROVE  /\ [b EXCEPT !.tasks[i] = r] = [b EXCEPT !.tasks = [b.tasks EXCEPT ![i] = r]]
           /\ [b EXCEPT !.datasets[i] = r] = [b EXCEPT !.datasets = [b.datasets EXCEPT ![i] = r]]
           /\ [b EXCEPT !.lastTask = v, !.tasks[i] = r] = [b EXCEPT !.lastTask = v, !.tasks = [b.tasks EXCEPT ![i] = r]]
           /\ [b EXCEPT !.lastDataset = v, !.datasets[i] = r] =
                 [b EXCEPT !.lastDataset = v, !.datasets = [b.datasets EXCEPT ![i] = r]]
OBVIOUS

\* A row of a task: the columns that the forms write, and those of the
\* place and of the live dataset.
LEMMA TaskRowWritten ==
    ASSUME NEW r \in TaskRow, NEW n \in Titles, NEW c \in ContestIds \cup {0}, NEW k \in Nat \cup {-1},
           NEW d \in DatasetIds \cup {0}, NEW p \in BOOLEAN
    PROVE  /\ \A w : w = [r EXCEPT !.name = n] => /\ w \in TaskRow /\ w.name = n /\ w.contest = r.contest
                                                 /\ w.num = r.num /\ w.live = r.live
           /\ \A w : w = [r EXCEPT !.primary = p] => /\ w \in TaskRow /\ w.name = r.name /\ w.contest = r.contest
                                                 /\ w.num = r.num /\ w.live = r.live
           /\ \A w : w = [r EXCEPT !.live = d] => /\ w \in TaskRow /\ w.name = r.name /\ w.contest = r.contest
                                                 /\ w.num = r.num /\ w.live = d
           /\ \A w : w = [r EXCEPT !.contest = c, !.num = k] => /\ w \in TaskRow /\ w.name = r.name /\ w.contest = c
                                                 /\ w.num = k /\ w.live = r.live
           /\ \A w : w = [r EXCEPT !.contest = c] => /\ w \in TaskRow /\ w.name = r.name /\ w.contest = c
                                                 /\ w.num = r.num /\ w.live = r.live
           /\ \A w : w = [r EXCEPT !.name = n, !.contest = c, !.num = k] =>
                                                 /\ w \in TaskRow /\ w.name = n /\ w.contest = c
                                                 /\ w.num = k /\ w.live = r.live
           /\ \A w : w = [r EXCEPT !.name = n, !.contest = c, !.live = d] =>
                                                 /\ w \in TaskRow /\ w.name = n /\ w.contest = c
                                                 /\ w.num = r.num /\ w.live = d
BY DEF TaskRow

\* UpdateTask: every column but the live dataset.
LEMMA UpdateTaskIs ==
    ASSUME NEW b \in Banks, NEW t \in TaskIds, NEW row \in TaskRow
    PROVE  \E T : /\ TasksOf(UpdateTask(b, t, row), b, T) /\ \A u \in TaskIds \ {t} : T[u] = b.tasks[u]
                  /\ T[t].live = b.tasks[t].live
                  /\ IF b.tasks[t] = NoTask THEN T[t] = NoTask
                     ELSE T[t].name = row.name /\ T[t].contest = row.contest /\ T[t].num = row.num
<1>1. CASE b.tasks[t] = NoTask
  <2>1. UpdateTask(b, t, row) = b
    BY <1>1 DEF UpdateTask
  <2> QED BY <2>1, <1>1 DEF TasksOf
<1>2. CASE b.tasks[t] # NoTask
  <2>1. PICK w : w = [row EXCEPT !.live = b.tasks[t].live]
    OBVIOUS
  <2>2. b.tasks \in [TaskIds -> TaskRow] /\ b.tasks[t].live \in DatasetIds \cup {0}
    BY BankHolds DEF TaskRow
  <2>3. w \in TaskRow /\ w.name = row.name /\ w.contest = row.contest /\ w.num = row.num /\ w.live = b.tasks[t].live
    BY <2>1, <2>2 DEF TaskRow
  <2>4. PICK T : T = [b.tasks EXCEPT ![t] = w]
    OBVIOUS
  <2>5. UpdateTask(b, t, row) = [b EXCEPT !.tasks = T]
    BY <1>2, <2>1, <2>4, BankRowUpdates DEF UpdateTask, Banks
  <2>6. T \in [TaskIds -> TaskRow] /\ T[t] = w /\ \A u \in TaskIds \ {t} : T[u] = b.tasks[u]
    BY <2>2, <2>3, <2>4
  <2>7. TasksOf(UpdateTask(b, t, row), b, T)
    BY <2>5, <2>6, NewTasks, Zenon
  <2> QED BY <1>2, <2>3, <2>6, <2>7
<1> QED
  BY <1>1, <1>2

\* SetTaskContest: the contest and the place in it.
LEMMA SetTaskContestIs ==
    ASSUME NEW b \in Banks, NEW t \in TaskIds, NEW c \in ContestIds \cup {0}, NEW k \in Nat \cup {-1}
    PROVE  \E T : /\ TasksOf(SetTaskContest(b, t, c, k), b, T) /\ \A u \in TaskIds \ {t} : T[u] = b.tasks[u]
                  /\ T[t].live = b.tasks[t].live /\ T[t].name = b.tasks[t].name
                  /\ IF b.tasks[t] = NoTask THEN T[t] = NoTask ELSE T[t].contest = c /\ T[t].num = k
<1>1. CASE b.tasks[t] = NoTask
  <2>1. SetTaskContest(b, t, c, k) = b
    BY <1>1 DEF SetTaskContest
  <2> QED BY <2>1, <1>1 DEF TasksOf
<1>2. CASE b.tasks[t] # NoTask
  <2>1. PICK w : w = [b.tasks[t] EXCEPT !.contest = c, !.num = k]
    OBVIOUS
  <2>2. b.tasks \in [TaskIds -> TaskRow] /\ b.tasks[t] \in TaskRow
    BY BankHolds
  <2>3. /\ w \in TaskRow /\ w.name = b.tasks[t].name /\ w.contest = c /\ w.num = k
        /\ w.live = b.tasks[t].live
    BY <2>1, <2>2 DEF TaskRow
  <2>4. PICK T : T = [b.tasks EXCEPT ![t] = w]
    OBVIOUS
  <2>5. SetTaskContest(b, t, c, k) = [b EXCEPT !.tasks = T]
    <3>1. [b EXCEPT !.tasks[t].contest = c, !.tasks[t].num = k] = [b EXCEPT !.tasks[t] = w]
      BY <2>1, <2>2 DEF Banks
    <3>2. [b EXCEPT !.tasks[t] = w] = [b EXCEPT !.tasks = T]
      BY <2>4, BankRowUpdates DEF Banks
    <3> QED BY <1>2, <3>1, <3>2 DEF SetTaskContest
  <2>6. T \in [TaskIds -> TaskRow] /\ T[t] = w /\ \A u \in TaskIds \ {t} : T[u] = b.tasks[u]
    BY <2>2, <2>3, <2>4
  <2>7. TasksOf(SetTaskContest(b, t, c, k), b, T)
    BY <2>5, <2>6, NewTasks, Zenon
  <2> QED BY <1>2, <2>3, <2>6, <2>7
<1> QED
  BY <1>1, <1>2

\* SetActiveDataset: the live dataset.
LEMMA SetActiveDatasetIs ==
    ASSUME NEW b \in Banks, NEW t \in TaskIds, NEW d \in DatasetIds
    PROVE  \E T : /\ TasksOf(SetActiveDataset(b, t, d), b, T) /\ \A u \in TaskIds \ {t} : T[u] = b.tasks[u]
                  /\ IF b.tasks[t] = NoTask THEN T[t] = NoTask
                     ELSE /\ T[t].live = d /\ T[t].name = b.tasks[t].name /\ T[t].contest = b.tasks[t].contest
                          /\ T[t].num = b.tasks[t].num
<1>1. CASE b.tasks[t] = NoTask
  <2>1. SetActiveDataset(b, t, d) = b
    BY <1>1 DEF SetActiveDataset
  <2> QED BY <2>1, <1>1 DEF TasksOf
<1>2. CASE b.tasks[t] # NoTask
  <2>1. PICK w : w = [b.tasks[t] EXCEPT !.live = d]
    OBVIOUS
  <2>2. b.tasks \in [TaskIds -> TaskRow] /\ b.tasks[t] \in TaskRow
    BY BankHolds
  <2>3. /\ w \in TaskRow /\ w.name = b.tasks[t].name /\ w.contest = b.tasks[t].contest /\ w.num = b.tasks[t].num
        /\ w.live = d
    BY <2>1, <2>2 DEF TaskRow
  <2>4. PICK T : T = [b.tasks EXCEPT ![t] = w]
    OBVIOUS
  <2>5. SetActiveDataset(b, t, d) = [b EXCEPT !.tasks = T]
    <3>1. [b EXCEPT !.tasks[t].live = d] = [b EXCEPT !.tasks[t] = w]
      BY <2>1, <2>2 DEF Banks
    <3>2. [b EXCEPT !.tasks[t] = w] = [b EXCEPT !.tasks = T]
      BY <2>4, BankRowUpdates DEF Banks
    <3> QED BY <1>2, <3>1, <3>2 DEF SetActiveDataset
  <2>6. T \in [TaskIds -> TaskRow] /\ T[t] = w /\ \A u \in TaskIds \ {t} : T[u] = b.tasks[u]
    BY <2>2, <2>3, <2>4
  <2>7. TasksOf(SetActiveDataset(b, t, d), b, T)
    BY <2>5, <2>6, NewTasks, Zenon
  <2> QED BY <1>2, <2>3, <2>6, <2>7
<1> QED
  BY <1>1, <1>2

\* CreateDataset: the next id gets the row.
LEMMA CreateDatasetIs ==
    ASSUME NEW b \in Banks, NEW d \in DatasetIds, NEW row \in DatasetRow, NEW e, e = CreateDataset(b, d, row)
    PROVE  /\ e \in Banks /\ e.tasks = b.tasks /\ e.contests = b.contests /\ e.lastTask = b.lastTask
           /\ e.lastContest = b.lastContest /\ e.lastDataset = d
           /\ e.datasets[d] = row /\ \A x \in DatasetIds \ {d} : e.datasets[x] = b.datasets[x]
<1>1. b.datasets \in [DatasetIds -> DatasetRow] /\ d \in Nat
  BY BankHolds, ProblemIds
<1>2. PICK D : D = [b.datasets EXCEPT ![d] = row]
  OBVIOUS
<1>3. D \in [DatasetIds -> DatasetRow] /\ D[d] = row /\ \A x \in DatasetIds \ {d} : D[x] = b.datasets[x]
  BY <1>1, <1>2
<1>4. e = [b EXCEPT !.lastDataset = d, !.datasets = D]
  BY <1>2, BankRowUpdates DEF CreateDataset, Banks
<1> QED
  BY <1>1, <1>3, <1>4 DEF Banks

\* CreateTask: the next id gets a row, in the next place of its contest.
LEMMA CreateTaskIs ==
    ASSUME NEW b \in Banks, NEW t \in TaskIds, NEW n \in Titles, NEW c \in ContestIds \cup {0}, NEW e,
           c # 0 => AdminNextTaskNum(b, c) \in Nat, e = CreateTask(b, t, n, c)
    PROVE  /\ e \in Banks /\ e.datasets = b.datasets /\ e.contests = b.contests /\ e.lastDataset = b.lastDataset
           /\ e.lastContest = b.lastContest /\ e.lastTask = t
           /\ e.tasks[t].name = n /\ e.tasks[t].contest = c /\ e.tasks[t].live = 0
           /\ e.tasks[t].num = IF c = 0 THEN -1 ELSE AdminNextTaskNum(b, c)
           /\ \A u \in TaskIds \ {t} : e.tasks[u] = b.tasks[u]
<1>1. b.tasks \in [TaskIds -> TaskRow] /\ t \in Nat /\ NoTask \in TaskRow /\ NoTask.live = 0
  BY BankHolds, ProblemIds, NoRowsOfBank
<1>2. PICK k : k = IF c = 0 THEN -1 ELSE AdminNextTaskNum(b, c)
  OBVIOUS
<1>3. k \in Nat \cup {-1}
  BY <1>2
<1>4. PICK w : w = [NoTask EXCEPT !.name = n, !.contest = c, !.num = k]
  OBVIOUS
<1>5. w \in TaskRow /\ w.name = n /\ w.contest = c /\ w.num = k /\ w.live = 0
  BY <1>1, <1>3, <1>4 DEF TaskRow
<1>6. PICK T : T = [b.tasks EXCEPT ![t] = w]
  OBVIOUS
<1>7. T \in [TaskIds -> TaskRow] /\ T[t] = w /\ \A u \in TaskIds \ {t} : T[u] = b.tasks[u]
  BY <1>1, <1>5, <1>6
<1>8. e = [b EXCEPT !.lastTask = t, !.tasks = T]
  <2>1. e = [b EXCEPT !.lastTask = t, !.tasks[t] = w]
    BY <1>2, <1>4, Zenon DEF CreateTask
  <2> QED BY <2>1, <1>6, BankRowUpdates DEF Banks
<1>9. e \in Banks /\ e.tasks = T
  BY <1>1, <1>7, <1>8 DEF Banks
<1> QED
  BY <1>2, <1>5, <1>7, <1>8, <1>9 DEF Banks

\* The row of a dataset is replaced.
LEMMA DatasetReplaced ==
    ASSUME NEW b \in Banks, NEW d \in DatasetIds, NEW row \in DatasetRow, NEW e, e = [b EXCEPT !.datasets[d] = row]
    PROVE  \E D : /\ DatasetsAre(e, b, D) /\ D[d] = row /\ \A x \in DatasetIds \ {d} : D[x] = b.datasets[x]
<1>1. b.datasets \in [DatasetIds -> DatasetRow]
  BY BankHolds
<1>2. PICK D : D = [b.datasets EXCEPT ![d] = row]
  OBVIOUS
<1>3. D \in [DatasetIds -> DatasetRow] /\ D[d] = row /\ \A x \in DatasetIds \ {d} : D[x] = b.datasets[x]
  BY <1>1, <1>2
<1>4. e = [b EXCEPT !.datasets = D]
  BY <1>2, BankRowUpdates DEF Banks
<1>5. DatasetsAre(e, b, D)
  BY <1>3, <1>4, NewDatasets, Zenon
<1> QED
  BY <1>3, <1>5

\* A row of a dataset: the score parameters, the testcases, the managers.
LEMMA DatasetRowWritten ==
    ASSUME NEW r \in DatasetRow, NEW g \in SUBSET Codes, NEW m \in SUBSET Files4
    PROVE  /\ \A w : w = [r EXCEPT !.groups = g] => /\ w \in DatasetRow /\ w.task = r.task /\ w.tests = r.tests
                                                   /\ w.groups = g /\ w.managers = r.managers
           /\ \A w : w = [r EXCEPT !.tests = g] => /\ w \in DatasetRow /\ w.task = r.task /\ w.tests = g
                                                  /\ w.groups = r.groups /\ w.managers = r.managers
           /\ \A w : w = [r EXCEPT !.managers = m] => /\ w \in DatasetRow /\ w.task = r.task /\ w.tests = r.tests
                                                     /\ w.groups = r.groups /\ w.managers = m
           /\ \A w : w = [r EXCEPT !.tests = g, !.managers = m] =>
                        /\ w \in DatasetRow /\ w.task = r.task /\ w.tests = g /\ w.groups = r.groups /\ w.managers = m
BY DEF DatasetRow

\* Tables e are those of b with this row of the dataset d.
Rewritten(e, b, d, row) == e = [b EXCEPT !.datasets[d] = row]

\* A write of one field of a dataset writes the row.
LEMMA GroupsField ==
    ASSUME NEW b \in Banks, NEW d \in DatasetIds, NEW g, NEW w, NEW e,
           e = [b EXCEPT !.datasets[d].groups = g], w = [b.datasets[d] EXCEPT !.groups = g]
    PROVE  Rewritten(e, b, d, w)
BY BankHolds DEF Banks, DatasetRow, Rewritten

\* The same of the testcases.
LEMMA TestsField ==
    ASSUME NEW b \in Banks, NEW d \in DatasetIds, NEW g, NEW w, NEW e,
           e = [b EXCEPT !.datasets[d].tests = g], w = [b.datasets[d] EXCEPT !.tests = g]
    PROVE  Rewritten(e, b, d, w)
BY BankHolds DEF Banks, DatasetRow, Rewritten

\* The same of the managers.
LEMMA ManagersField ==
    ASSUME NEW b \in Banks, NEW d \in DatasetIds, NEW g, NEW w, NEW e,
           e = [b EXCEPT !.datasets[d].managers = g], w = [b.datasets[d] EXCEPT !.managers = g]
    PROVE  Rewritten(e, b, d, w)
BY BankHolds DEF Banks, DatasetRow, Rewritten

\* The same of both.
LEMMA BothFields ==
    ASSUME NEW b \in Banks, NEW d \in DatasetIds, NEW g, NEW m, NEW w, NEW e,
           e = [b EXCEPT !.datasets[d].tests = g, !.datasets[d].managers = m],
           w = [b.datasets[d] EXCEPT !.tests = g, !.managers = m]
    PROVE  Rewritten(e, b, d, w)
BY BankHolds DEF Banks, DatasetRow, Rewritten

\* Tables e that differ from b in the row of the dataset d at most.
OnlyDataset(e, b, d) ==
    /\ e \in Banks /\ e.tasks = b.tasks /\ e.contests = b.contests
    /\ e.lastTask = b.lastTask /\ e.lastDataset = b.lastDataset /\ e.lastContest = b.lastContest
    /\ \A x \in DatasetIds \ {d} : e.datasets[x] = b.datasets[x]

\* A row written is one row.
LEMMA OneDataset ==
    ASSUME NEW b \in Banks, NEW d \in DatasetIds, NEW row \in DatasetRow, NEW e, Rewritten(e, b, d, row)
    PROVE  OnlyDataset(e, b, d) /\ e.datasets[d] = row
<1>0. e = [b EXCEPT !.datasets[d] = row]
  BY DEF Rewritten
<1>1. PICK D : /\ DatasetsAre(e, b, D) /\ D[d] = row /\ \A x \in DatasetIds \ {d} : D[x] = b.datasets[x]
  BY <1>0, DatasetReplaced
<1> QED
  BY <1>1 DEF DatasetsAre, OnlyDataset

\* UpdateDataset: the score parameters of a dataset that is there.
LEMMA UpdateDatasetIs ==
    ASSUME NEW b \in Banks, NEW d \in DatasetIds, NEW g \in SUBSET Codes, NEW e, e = UpdateDataset(b, d, g)
    PROVE  /\ OnlyDataset(e, b, d)
           /\ IF b.datasets[d] = NoDataset THEN e.datasets[d] = NoDataset
              ELSE /\ e.datasets[d].task = b.datasets[d].task /\ e.datasets[d].tests = b.datasets[d].tests
                   /\ e.datasets[d].groups = g
<1>1. CASE b.datasets[d] = NoDataset
  <2>1. e = b
    BY <1>1 DEF UpdateDataset
  <2> QED BY <2>1, <1>1 DEF OnlyDataset
<1>2. CASE b.datasets[d] # NoDataset
  <2>1. b.datasets[d] \in DatasetRow
    BY BankHolds
  <2>2. PICK w : w = [b.datasets[d] EXCEPT !.groups = g]
    OBVIOUS
  <2>3. w \in DatasetRow /\ w.task = b.datasets[d].task /\ w.tests = b.datasets[d].tests /\ w.groups = g
    BY <2>1, <2>2 DEF DatasetRow
  <2>4. Rewritten(e, b, d, w)
    <3>1. e = [b EXCEPT !.datasets[d].groups = g]
      BY <1>2 DEF UpdateDataset
    <3> QED BY <3>1, <2>2, GroupsField
  <2>o. OnlyDataset(e, b, d) /\ e.datasets[d] = w
    <3>1. w \in DatasetRow
      BY <1>2, <2>3, <2>4
    <3> QED BY <3>1, <1>2, <2>3, <2>4, OneDataset, Zenon
  <2> QED BY <2>o, <1>2, <2>3, <2>4
<1> QED BY <1>1, <1>2

\* UpsertTestcase: testcases come to a dataset that is there.
LEMMA UpsertTestcaseIs ==
    ASSUME NEW b \in Banks, NEW d \in DatasetIds, NEW g \in SUBSET Codes, NEW e, e = UpsertTestcase(b, d, g)
    PROVE  /\ OnlyDataset(e, b, d)
           /\ IF b.datasets[d] = NoDataset THEN e.datasets[d] = NoDataset
              ELSE /\ e.datasets[d].task = b.datasets[d].task /\ e.datasets[d].tests = b.datasets[d].tests \cup g
                   /\ e.datasets[d].groups = b.datasets[d].groups
<1>1. CASE b.datasets[d] = NoDataset
  <2>1. e = b
    BY <1>1 DEF UpsertTestcase
  <2> QED BY <2>1, <1>1 DEF OnlyDataset
<1>2. CASE b.datasets[d] # NoDataset
  <2>1. b.datasets[d] \in DatasetRow
    BY BankHolds
  <2>2. PICK x : x = b.datasets[d].tests \cup g
    OBVIOUS
  <2>3. x \in SUBSET Codes
    BY <2>1, <2>2 DEF DatasetRow
  <2>4. PICK w : w = [b.datasets[d] EXCEPT !.tests = x]
    OBVIOUS
  <2>5. w \in DatasetRow /\ w.task = b.datasets[d].task /\ w.tests = x /\ w.groups = b.datasets[d].groups
    BY <2>1, <2>3, <2>4 DEF DatasetRow
  <2>6. e = [b EXCEPT !.datasets[d].tests = x]
    <3>1. [b EXCEPT !.datasets[d].tests = @ \cup g] = [b EXCEPT !.datasets[d].tests = x]
      BY <2>2, BankHolds DEF Banks, DatasetRow
    <3> QED BY <3>1, <1>2 DEF UpsertTestcase
  <2>7. Rewritten(e, b, d, w)
    BY <2>4, <2>6, TestsField
  <2>o. OnlyDataset(e, b, d) /\ e.datasets[d] = w
    <3>1. w \in DatasetRow
      BY <1>2, <2>2, <2>5, <2>7
    <3> QED BY <3>1, <1>2, <2>2, <2>5, <2>7, OneDataset, Zenon
  <2> QED BY <2>o, <1>2, <2>2, <2>5, <2>7
<1> QED BY <1>1, <1>2

\* The testcases of a dataset are replaced by fewer: DeleteTestcase and
\* DeleteDatasetTestcases.
LEMMA DeleteTestcaseIs ==
    ASSUME NEW b \in Banks, NEW d \in DatasetIds, NEW x, NEW e,
           e = DeleteTestcase(b, d, x) \/ e = DeleteDatasetTestcases(b, d)
    PROVE  /\ OnlyDataset(e, b, d) /\ e.datasets[d].task = b.datasets[d].task
           /\ e.datasets[d].groups = b.datasets[d].groups /\ e.datasets[d].managers = b.datasets[d].managers
           /\ e.datasets[d].tests \subseteq b.datasets[d].tests
           /\ e = DeleteDatasetTestcases(b, d) => e.datasets[d].tests = {}
<1>1. b.datasets[d] \in DatasetRow
  BY BankHolds
<1>2. PICK y : /\ y \in SUBSET Codes /\ y \subseteq b.datasets[d].tests /\ e = [b EXCEPT !.datasets[d].tests = y]
               /\ e = DeleteDatasetTestcases(b, d) => y = {}
  <2>1. CASE e = DeleteDatasetTestcases(b, d)
    <3>1. PICK y : y = {}
      OBVIOUS
    <3>2. e = [b EXCEPT !.datasets[d].tests = y]
      BY <2>1, <3>1 DEF DeleteDatasetTestcases
    <3> QED BY <3>1, <3>2
  <2>2. CASE e = DeleteTestcase(b, d, x) /\ e # DeleteDatasetTestcases(b, d)
    <3>1. PICK y : y = b.datasets[d].tests \ {x}
      OBVIOUS
    <3>2. [b EXCEPT !.datasets[d].tests = @ \ {x}] = [b EXCEPT !.datasets[d].tests = y]
      BY <3>1, BankHolds DEF Banks, DatasetRow
    <3>3. e = [b EXCEPT !.datasets[d].tests = y]
      BY <3>2, <2>2 DEF DeleteTestcase
    <3>4. y \in SUBSET Codes /\ y \subseteq b.datasets[d].tests
      BY <3>1, <1>1 DEF DatasetRow
    <3> QED BY <3>3, <3>4, <2>2
  <2> QED BY <2>1, <2>2
<1>3. PICK w : w = [b.datasets[d] EXCEPT !.tests = y]
  OBVIOUS
<1>4. /\ w \in DatasetRow /\ w.task = b.datasets[d].task /\ w.tests = y /\ w.groups = b.datasets[d].groups
      /\ w.managers = b.datasets[d].managers
  BY <1>1, <1>2, <1>3 DEF DatasetRow
<1>5. Rewritten(e, b, d, w)
  BY <1>2, <1>3, TestsField
<1>o. OnlyDataset(e, b, d) /\ e.datasets[d] = w
  <2>1. w \in DatasetRow
    BY <1>2, <1>4, <1>5
  <2> QED BY <2>1, <1>5, OneDataset
<1> QED BY <1>o, <1>2, <1>4, <1>5

\* The managers of a dataset change: what is judged with them does not.
LEMMA ManagersIs ==
    ASSUME NEW b \in Banks, NEW d \in DatasetIds, NEW m \in Managers, NEW e,
           \/ e = UpsertManager(b, d, m)
           \/ e = DeleteManager(b, d, m) /\ m \in b.datasets[d].managers
    PROVE  /\ OnlyDataset(e, b, d) /\ e.datasets[d].task = b.datasets[d].task
           /\ e.datasets[d].groups = b.datasets[d].groups /\ e.datasets[d].tests = b.datasets[d].tests
           /\ b.datasets[d] = NoDataset => e.datasets[d] = NoDataset
<1>1. b.datasets[d] \in DatasetRow
  BY BankHolds
<1>2. CASE b.datasets[d] = NoDataset
  <2>1. b.datasets[d].managers = {}
    BY <1>2 DEF NoDataset
  <2>2. e = b
    BY <1>2, <2>1 DEF UpsertManager
  <2> QED BY <2>2, <1>2 DEF OnlyDataset
<1>3. CASE b.datasets[d] # NoDataset
  <2>1. PICK y : y \in SUBSET Files4 /\ e = [b EXCEPT !.datasets[d].managers = y]
    <3>1. CASE e = UpsertManager(b, d, m)
      <4>1. PICK y : y = b.datasets[d].managers \cup {m}
        OBVIOUS
      <4>2. [b EXCEPT !.datasets[d].managers = @ \cup {m}] = [b EXCEPT !.datasets[d].managers = y]
        BY <4>1, BankHolds DEF Banks, DatasetRow
      <4>3. e = [b EXCEPT !.datasets[d].managers = y]
        BY <4>2, <3>1, <1>3 DEF UpsertManager
      <4>4. y \in SUBSET Files4
        BY <4>1, <1>1 DEF DatasetRow, Files4
      <4> QED BY <4>3, <4>4
    <3>2. CASE e = DeleteManager(b, d, m)
      <4>1. PICK y : y = b.datasets[d].managers \ {m}
        OBVIOUS
      <4>2. [b EXCEPT !.datasets[d].managers = @ \ {m}] = [b EXCEPT !.datasets[d].managers = y]
        BY <4>1, BankHolds DEF Banks, DatasetRow
      <4>3. e = [b EXCEPT !.datasets[d].managers = y]
        BY <4>2, <3>2 DEF DeleteManager
      <4>4. y \in SUBSET Files4
        BY <4>1, <1>1 DEF DatasetRow
      <4> QED BY <4>3, <4>4
    <3> QED BY <3>1, <3>2
  <2>2. PICK w : w = [b.datasets[d] EXCEPT !.managers = y]
    OBVIOUS
  <2>3. w \in DatasetRow /\ w.task = b.datasets[d].task /\ w.tests = b.datasets[d].tests /\ w.groups = b.datasets[d].groups
    BY <1>1, <2>1, <2>2 DEF DatasetRow
  <2>4. Rewritten(e, b, d, w)
    BY <2>1, <2>2, ManagersField
  <2>o. OnlyDataset(e, b, d) /\ e.datasets[d] = w
    <3>1. w \in DatasetRow
      BY <1>3, <2>3, <2>4
    <3> QED BY <3>1, <1>3, <2>3, <2>4, OneDataset, Zenon
  <2> QED BY <2>o, <1>3, <2>3, <2>4
<1> QED BY <1>2, <1>3

\* DeleteDatasetManagers leaves the rest.
LEMMA DeleteDatasetManagersIs ==
    ASSUME NEW b \in Banks, NEW d \in DatasetIds, NEW e, e = DeleteDatasetManagers(b, d)
    PROVE  /\ OnlyDataset(e, b, d) /\ e.datasets[d].task = b.datasets[d].task
           /\ e.datasets[d].groups = b.datasets[d].groups /\ e.datasets[d].tests = b.datasets[d].tests
<1>1. b.datasets[d] \in DatasetRow
  BY BankHolds
<1>2. PICK y : y = {}
  OBVIOUS
<1>3. y \in SUBSET Files4 /\ e = [b EXCEPT !.datasets[d].managers = y]
  BY <1>2 DEF DeleteDatasetManagers
<1>4. PICK w : w = [b.datasets[d] EXCEPT !.managers = y]
  OBVIOUS
<1>5. w \in DatasetRow /\ w.task = b.datasets[d].task /\ w.tests = b.datasets[d].tests /\ w.groups = b.datasets[d].groups
  BY <1>1, <1>3, <1>4 DEF DatasetRow
<1>6. Rewritten(e, b, d, w)
  BY <1>3, <1>4, ManagersField
<1>o. OnlyDataset(e, b, d) /\ e.datasets[d] = w
  <2>1. w \in DatasetRow
    BY <1>5, <1>6
  <2> QED BY <2>1, <1>5, <1>6, OneDataset, Zenon
<1> QED BY <1>o, <1>5, <1>6

\* CloneDatasetContents: the testcases and managers of another dataset.
LEMMA CloneDatasetContentsIs ==
    ASSUME NEW b \in Banks, NEW d \in DatasetIds, NEW f \in DatasetIds, NEW e, e = CloneDatasetContents(b, f, d)
    PROVE  /\ OnlyDataset(e, b, d) /\ e.datasets[d].task = b.datasets[d].task
           /\ e.datasets[d].groups = b.datasets[d].groups /\ e.datasets[d].tests = b.datasets[f].tests
<1>1. b.datasets[d] \in DatasetRow /\ b.datasets[f] \in DatasetRow
  BY BankHolds
<1>2. PICK x, y : x = b.datasets[f].tests /\ y = b.datasets[f].managers
  OBVIOUS
<1>3. x \in SUBSET Codes /\ y \in SUBSET Files4
  BY <1>1, <1>2 DEF DatasetRow
<1>4. e = [b EXCEPT !.datasets[d].tests = x, !.datasets[d].managers = y]
  BY <1>2, Zenon DEF CloneDatasetContents
<1>5. PICK w : w = [b.datasets[d] EXCEPT !.tests = x, !.managers = y]
  OBVIOUS
<1>6. w \in DatasetRow /\ w.task = b.datasets[d].task /\ w.tests = x /\ w.groups = b.datasets[d].groups
  BY <1>1, <1>3, <1>5 DEF DatasetRow
<1>7. Rewritten(e, b, d, w)
  BY <1>4, <1>5, BothFields
<1>o. OnlyDataset(e, b, d) /\ e.datasets[d] = w
  <2>1. w \in DatasetRow
    BY <1>2, <1>6, <1>7
  <2> QED BY <2>1, <1>7, OneDataset
<1> QED BY <1>o, <1>2, <1>6, <1>7

\* A package's testcases and managers come to the dataset.
LEMMA writeDatasetIs ==
    ASSUME NEW b \in Banks, NEW d \in DatasetIds, NEW p \in Packages, NEW e, e = writeDataset(b, d, p)
    PROVE  /\ OnlyDataset(e, b, d) /\ e.datasets[d].task = b.datasets[d].task
           /\ e.datasets[d].groups = b.datasets[d].groups /\ e.datasets[d].tests = b.datasets[d].tests \cup p.tests
<1>1. b.datasets[d] \in DatasetRow /\ p.tests \subseteq Codes
  BY BankHolds, ProblemsAssumption
<1>2. PICK x, y : x = b.datasets[d].tests \cup p.tests /\ y = b.datasets[d].managers \cup p.managers
  OBVIOUS
<1>3. x \in SUBSET Codes /\ y \in SUBSET Files4
  BY <1>1, <1>2 DEF DatasetRow, Files4
<1>4. e = [b EXCEPT !.datasets[d].tests = x, !.datasets[d].managers = y]
  <2>1. [b EXCEPT !.datasets[d].tests = @ \cup p.tests, !.datasets[d].managers = @ \cup p.managers]
          = [b EXCEPT !.datasets[d].tests = x, !.datasets[d].managers = y]
    BY <1>2, BankHolds DEF Banks, DatasetRow
  <2> QED BY <2>1 DEF writeDataset
<1>5. PICK w : w = [b.datasets[d] EXCEPT !.tests = x, !.managers = y]
  OBVIOUS
<1>6. w \in DatasetRow /\ w.task = b.datasets[d].task /\ w.tests = x /\ w.groups = b.datasets[d].groups
  BY <1>1, <1>3, <1>5 DEF DatasetRow
<1>7. Rewritten(e, b, d, w)
  BY <1>4, <1>5, BothFields
<1>o. OnlyDataset(e, b, d) /\ e.datasets[d] = w
  <2>1. w \in DatasetRow
    BY <1>2, <1>6, <1>7
  <2> QED BY <2>1, <1>7, OneDataset
<1> QED BY <1>o, <1>2, <1>6, <1>7

\* DeleteDataset: the row goes, and no task has it live any more.
LEMMA DeleteDatasetIs ==
    ASSUME NEW b \in Banks, NEW d \in DatasetIds, NEW e, e = DeleteDataset(b, d)
    PROVE  /\ e \in Banks /\ e.contests = b.contests
           /\ e.lastTask = b.lastTask /\ e.lastDataset = b.lastDataset /\ e.lastContest = b.lastContest
           /\ e.datasets[d] = NoDataset /\ \A x \in DatasetIds \ {d} : e.datasets[x] = b.datasets[x]
           /\ \A t \in TaskIds : /\ b.tasks[t].live # d => e.tasks[t] = b.tasks[t]
                                 /\ e.tasks[t].live = IF b.tasks[t].live = d THEN 0 ELSE b.tasks[t].live
                                 /\ e.tasks[t].name = b.tasks[t].name /\ e.tasks[t].contest = b.tasks[t].contest
                                 /\ e.tasks[t].num = b.tasks[t].num
<1>1. b.tasks \in [TaskIds -> TaskRow] /\ b.datasets \in [DatasetIds -> DatasetRow] /\ NoDataset \in DatasetRow
  BY BankHolds, NoRowsOfBank
<1>2. PICK T : T = [t \in TaskIds |-> IF b.tasks[t].live = d THEN [b.tasks[t] EXCEPT !.live = 0] ELSE b.tasks[t]]
  OBVIOUS
<1>3. ASSUME NEW t \in TaskIds
      PROVE  /\ T[t] \in TaskRow /\ (b.tasks[t].live # d => T[t] = b.tasks[t])
             /\ T[t].live = IF b.tasks[t].live = d THEN 0 ELSE b.tasks[t].live
             /\ T[t].name = b.tasks[t].name /\ T[t].contest = b.tasks[t].contest /\ T[t].num = b.tasks[t].num
  <2>1. b.tasks[t] \in TaskRow
    BY <1>1
  <2>2. CASE b.tasks[t].live # d
    BY <2>1, <2>2, <1>2
  <2>3. CASE b.tasks[t].live = d
    <3>1. PICK w : w = [b.tasks[t] EXCEPT !.live = 0]
      OBVIOUS
    <3>2. w \in TaskRow /\ w.live = 0 /\ w.name = b.tasks[t].name /\ w.contest = b.tasks[t].contest /\ w.num = b.tasks[t].num
      BY <2>1, <3>1 DEF TaskRow
    <3>3. T[t] = w
      BY <1>2, <2>3, <3>1
    <3> QED BY <2>3, <3>2, <3>3
  <2> QED BY <2>2, <2>3
<1>4. T \in [TaskIds -> TaskRow]
  BY <1>2, <1>3
<1>5. PICK D : D = [b.datasets EXCEPT ![d] = NoDataset]
  OBVIOUS
<1>6. D \in [DatasetIds -> DatasetRow] /\ D[d] = NoDataset /\ \A x \in DatasetIds \ {d} : D[x] = b.datasets[x]
  BY <1>1, <1>5
<1>7. e = [b EXCEPT !.datasets = D, !.tasks = T]
  <2>1. e = [b EXCEPT !.datasets[d] = NoDataset, !.tasks = T]
    BY <1>2 DEF DeleteDataset
  <2> QED BY <2>1, <1>5, BankHolds DEF Banks
<1>8. e \in Banks /\ e.datasets = D /\ e.tasks = T
  BY <1>4, <1>6, <1>7 DEF Banks
<1> QED
  BY <1>3, <1>6, <1>7, <1>8 DEF Banks

\* DeleteTask: the row goes, and the datasets of the task with it.
LEMMA DeleteTaskIs ==
    ASSUME NEW b \in Banks, NEW t \in TaskIds, NEW e, e = DeleteTask(b, t)
    PROVE  /\ e \in Banks /\ e.contests = b.contests
           /\ e.lastTask = b.lastTask /\ e.lastDataset = b.lastDataset /\ e.lastContest = b.lastContest
           /\ e.tasks[t] = NoTask /\ \A u \in TaskIds \ {t} : e.tasks[u] = b.tasks[u]
           /\ \A d \in DatasetIds : e.datasets[d] = IF b.datasets[d].task = t THEN NoDataset ELSE b.datasets[d]
<1>1. b.tasks \in [TaskIds -> TaskRow] /\ b.datasets \in [DatasetIds -> DatasetRow]
      /\ NoDataset \in DatasetRow /\ NoTask \in TaskRow
  BY BankHolds, NoRowsOfBank
<1>2. PICK D : D = [d \in DatasetIds |-> IF b.datasets[d].task = t THEN NoDataset ELSE b.datasets[d]]
  OBVIOUS
<1>3. D \in [DatasetIds -> DatasetRow]
  BY <1>1, <1>2
<1>4. PICK T : T = [b.tasks EXCEPT ![t] = NoTask]
  OBVIOUS
<1>5. T \in [TaskIds -> TaskRow] /\ T[t] = NoTask /\ \A u \in TaskIds \ {t} : T[u] = b.tasks[u]
  BY <1>1, <1>4
<1>6. e = [b EXCEPT !.tasks = T, !.datasets = D]
  <2>1. e = [b EXCEPT !.tasks[t] = NoTask, !.datasets = D]
    BY <1>2 DEF DeleteTask
  <2> QED BY <2>1, <1>4, BankHolds DEF Banks
<1>7. e \in Banks /\ e.datasets = D /\ e.tasks = T
  BY <1>3, <1>5, <1>6 DEF Banks
<1>8. /\ e.contests = b.contests /\ e.lastTask = b.lastTask /\ e.lastDataset = b.lastDataset
      /\ e.lastContest = b.lastContest
  BY <1>6 DEF Banks
<1>9. \A d \in DatasetIds : D[d] = IF b.datasets[d].task = t THEN NoDataset ELSE b.datasets[d]
  BY <1>2
<1> QED
  BY <1>5, <1>7, <1>8, <1>9

\* DeleteContest: its tasks stay, in no contest.
LEMMA DeleteContestIs ==
    ASSUME NEW b \in Banks, NEW c \in ContestIds, NEW e, e = DeleteContest(b, c)
    PROVE  /\ e \in Banks /\ e.contests = b.contests \ {c} /\ e.datasets = b.datasets
           /\ e.lastTask = b.lastTask /\ e.lastDataset = b.lastDataset /\ e.lastContest = b.lastContest
           /\ \A t \in TaskIds :
                 /\ b.tasks[t].contest # c => e.tasks[t] = b.tasks[t]
                 /\ e.tasks[t].contest = IF b.tasks[t].contest = c THEN 0 ELSE b.tasks[t].contest
                 /\ e.tasks[t].live = b.tasks[t].live /\ e.tasks[t].name = b.tasks[t].name
                 /\ e.tasks[t].num = b.tasks[t].num
<1>1. b.tasks \in [TaskIds -> TaskRow]
  BY BankHolds
<1>2. PICK T : T = [t \in TaskIds |-> IF b.tasks[t].contest = c THEN [b.tasks[t] EXCEPT !.contest = 0] ELSE b.tasks[t]]
  OBVIOUS
<1>3. ASSUME NEW t \in TaskIds
      PROVE  /\ T[t] \in TaskRow /\ (b.tasks[t].contest # c => T[t] = b.tasks[t])
             /\ T[t].contest = IF b.tasks[t].contest = c THEN 0 ELSE b.tasks[t].contest
             /\ T[t].live = b.tasks[t].live /\ T[t].name = b.tasks[t].name /\ T[t].num = b.tasks[t].num
  <2>1. b.tasks[t] \in TaskRow
    BY <1>1
  <2>2. CASE b.tasks[t].contest # c
    BY <2>1, <2>2, <1>2
  <2>3. CASE b.tasks[t].contest = c
    <3>1. PICK w : w = [b.tasks[t] EXCEPT !.contest = 0]
      OBVIOUS
    <3>2. w \in TaskRow /\ w.contest = 0 /\ w.name = b.tasks[t].name /\ w.live = b.tasks[t].live /\ w.num = b.tasks[t].num
      BY <2>1, <3>1 DEF TaskRow
    <3>3. T[t] = w
      BY <1>2, <2>3, <3>1
    <3> QED BY <2>3, <3>2, <3>3
  <2> QED BY <2>2, <2>3
<1>4. T \in [TaskIds -> TaskRow]
  BY <1>2, <1>3
<1>5. PICK K : K = b.contests \ {c}
  OBVIOUS
<1>6. e = [b EXCEPT !.contests = K, !.tasks = T]
  BY <1>2, <1>5 DEF DeleteContest, Banks
<1>7. e \in Banks /\ e.contests = K /\ e.tasks = T
  BY <1>4, <1>5, <1>6 DEF Banks
<1> QED
  BY <1>3, <1>5, <1>6, <1>7 DEF Banks

\* The next place of a contest is after those that are taken.
LEMMA NextPlace ==
    ASSUME NEW b \in Banks, NEW c, \A u \in Tasks(b) : b.tasks[u].contest = c => b.tasks[u].num \in Nat
    PROVE  /\ AdminNextTaskNum(b, c) \in Nat
           /\ \A u \in Tasks(b) : b.tasks[u].contest = c => b.tasks[u].num # AdminNextTaskNum(b, c)
<1> DEFINE U == {u \in Tasks(b) : b.tasks[u].contest = c}
           nums == {b.tasks[t].num : t \in U}
           k == [t \in TaskIds |-> b.tasks[t].num]
<1>1. AdminNextTaskNum(b, c) = IF nums = {} THEN 0 ELSE Max(nums) + 1
  BY DEF AdminNextTaskNum
<1>2. U \subseteq TaskIds
  BY DEF Tasks
<1>3. IsFiniteSet(U)
  BY <1>2, ProblemIds, FS_Subset
<1>4. nums = {k[t] : t \in U}
  BY <1>2
<1>5. IsFiniteSet({k[t] : t \in U})
  <2> HIDE DEF U, k
  <2> QED BY <1>3, ImageFinite
<1>6. nums \in SUBSET Nat /\ IsFiniteSet(nums)
  <2>1. nums \in SUBSET Nat
    OBVIOUS
  <2>2. IsFiniteSet(nums)
    <3> HIDE DEF nums, U, k
    <3> QED BY <1>4, <1>5
  <2> QED BY <2>1, <2>2
<1>7. \A u \in U : b.tasks[u].num \in nums
  OBVIOUS
<1>8. \A u \in Tasks(b) : b.tasks[u].contest = c => u \in U
  OBVIOUS
<1> HIDE DEF nums, U
<1>9. CASE nums = {}
  BY <1>1, <1>7, <1>8, <1>9
<1>10. CASE nums # {}
  <2>1. Max(nums) \in nums /\ \A y \in nums : Max(nums) >= y
    BY <1>6, <1>10, MaxNat
  <2>2. PICK m : m = Max(nums)
    OBVIOUS
  <2>3. m \in Nat /\ \A y \in nums : y \in Nat /\ m >= y
    BY <2>1, <2>2, <1>6
  <2>4. AdminNextTaskNum(b, c) = m + 1
    BY <1>1, <1>10, <2>2
  <2> QED BY <2>3, <2>4, <1>7, <1>8
<1> QED
  BY <1>9, <1>10

(***************************************************************************)
(* The inductive invariant of the problems.                                *)
(***************************************************************************)
\* The tables have their types, and so have the history and the setters.
BankShape == bank \in Banks /\ DOMAIN home = TaskIds /\ DOMAIN setting = Setters

\* An id that was not given yet has no row.
IdsUnused ==
    /\ \A t \in TaskIds : t > bank.lastTask => bank.tasks[t] = NoTask
    /\ \A d \in DatasetIds : d > bank.lastDataset => bank.datasets[d] = NoDataset
    /\ \A c \in bank.contests : c <= bank.lastContest

\* A dataset that is there is of a task.
Owned == \A d \in DatasetIds : bank.datasets[d].task = 0 => bank.datasets[d] = NoDataset

\* A task of a contest has a place.
Placed(row) == row.contest # 0 => row.num # -1

\* What a setter loaded: rows of the tables, and a dataset that is still of
\* the task it was loaded with, or gone.
SettingFits(r) ==
    /\ r.at \in {"task", "dataset"} => r.task \in TaskIds /\ r.row \in TaskRow /\ Placed(r.row)
    /\ r.at = "dataset" => /\ r.dataset \in DatasetIds /\ r.dataset <= bank.lastDataset /\ r.set \in DatasetRow
                           /\ bank.datasets[r.dataset].task \in {0, r.task}
    /\ r.at = "list" => r.contest \in ContestIds /\ \A x \in r.list : x.id \in TaskIds /\ x.num \in Nat
SettingsFit == \A s \in Setters : SettingFits(setting[s])

\* The inductive invariant.
ProblemsInv ==
    BankShape /\ IdsUnused /\ Owned /\ Allowed(bank) /\ SettingsFit /\ LiveIsOwn /\ ParamsFit /\ PlacesKept

\* The rows of the tables are rows.
LEMMA BankIs ==
    ASSUME ProblemsInv
    PROVE  /\ bank \in Banks /\ bank.tasks \in [TaskIds -> TaskRow] /\ bank.datasets \in [DatasetIds -> DatasetRow]
           /\ bank.contests \in SUBSET ContestIds /\ bank.lastTask \in Nat /\ bank.lastDataset \in Nat
           /\ bank.lastContest \in Nat
           /\ \A t \in TaskIds : bank.tasks[t] # NoTask => Placed(bank.tasks[t])
           /\ \A t \in TaskIds : t \in Tasks(bank) <=> bank.tasks[t] # NoTask
<1>1. bank \in Banks
  BY DEF ProblemsInv, BankShape
<1>2. \A t \in TaskIds : t \in Tasks(bank) <=> bank.tasks[t] # NoTask
  BY DEF Tasks
<1>3. \A t \in TaskIds : bank.tasks[t] # NoTask => Placed(bank.tasks[t])
  BY <1>2 DEF ProblemsInv, PlacesKept, Placed
<1> QED
  BY <1>1, <1>2, <1>3, BankHolds

\* Who is done holds nothing.
LEMMA SettingRests == SettingFits(SettingIdle)
BY DEF SettingFits, SettingIdle

\* What the others loaded fits while datasets stay with their task, or go.
LEMMA SettingsStay ==
    ASSUME ProblemsInv, NEW s \in Setters, SetterDone(s) \/ setting' = setting,
           bank'.lastDataset \in Nat, bank'.lastDataset >= bank.lastDataset,
           \A d \in DatasetIds : d <= bank.lastDataset => bank'.datasets[d].task \in {0, bank.datasets[d].task}
    PROVE  SettingsFit' /\ DOMAIN setting' = Setters
<1>1. DOMAIN setting = Setters
  BY DEF ProblemsInv, BankShape
<1>2. \A t \in Setters : setting'[t] = setting[t] \/ setting'[t] = SettingIdle
  BY <1>1 DEF SetterDone
<1>3. DOMAIN setting' = Setters
  BY <1>1 DEF SetterDone
<1>4. ASSUME NEW t \in Setters PROVE SettingFits(setting[t])'
  <2>1. CASE setting'[t] = SettingIdle
    BY <2>1 DEF SettingFits, SettingIdle
  <2>2. CASE setting'[t] = setting[t]
    <3>1. PICK r : r = setting[t]
      OBVIOUS
    <3>2. SettingFits(r)
      BY <3>1 DEF ProblemsInv, SettingsFit
    <3>3. /\ r.at \in {"task", "dataset"} => r.task \in TaskIds /\ r.row \in TaskRow /\ Placed(r.row)
          /\ r.at = "list" => r.contest \in ContestIds /\ \A x \in r.list : x.id \in TaskIds /\ x.num \in Nat
      BY <3>2 DEF SettingFits
    <3>4. ASSUME r.at = "dataset"
          PROVE  /\ r.dataset \in DatasetIds /\ r.dataset <= bank'.lastDataset /\ r.set \in DatasetRow
                 /\ bank'.datasets[r.dataset].task \in {0, r.task}
      <4>1. /\ r.dataset \in DatasetIds /\ r.dataset <= bank.lastDataset /\ r.set \in DatasetRow
            /\ bank.datasets[r.dataset].task \in {0, r.task}
        BY <3>2, <3>4 DEF SettingFits
      <4>2. r.dataset \in Nat /\ bank.lastDataset \in Nat
        BY <4>1, ProblemIds, BankIs
      <4> QED BY <4>1, <4>2
    <3>5. setting'[t] = r
      BY <2>2, <3>1
    <3> QED BY <3>3, <3>4, <3>5 DEF SettingFits
  <2> QED BY <1>2, <2>1, <2>2
<1> QED BY <1>3, <1>4 DEF SettingsFit

\* A setter loads rows of the tables.
LEMMA SettingLoaded ==
    ASSUME ProblemsInv, NEW s \in Setters, NEW r, SettingFits(r), setting' = [setting EXCEPT ![s] = r],
           UNCHANGED <<bank, home, pulled, stripped, loose>>
    PROVE  ProblemsInv'
<1>1. DOMAIN setting = Setters
  BY DEF ProblemsInv, BankShape
<1>2. DOMAIN setting' = Setters
  BY <1>1
<1>3. ASSUME NEW t \in Setters PROVE SettingFits(setting[t])'
  <2>1. SettingFits(setting[t])
    BY DEF ProblemsInv, SettingsFit
  <2>2. setting'[t] = r \/ setting'[t] = setting[t]
    BY <1>1
  <2>3. bank' = bank
    OBVIOUS
  <2>4. SettingFits(setting'[t])
    BY <2>1, <2>2
  <2> QED BY <2>3, <2>4 DEF SettingFits
<1>4. BankShape'
  BY <1>2 DEF ProblemsInv, BankShape
<1>5. SettingsFit'
  BY <1>3 DEF SettingsFit
<1>6. IdsUnused' /\ Owned'
  BY DEF ProblemsInv, IdsUnused, Owned
<1>7. Allowed(bank)'
  BY DEF ProblemsInv
<1>8. LiveIsOwn'
  BY DEF ProblemsInv, LiveIsOwn, Tasks
<1>9. ParamsFit' /\ PlacesKept'
  BY DEF ProblemsInv, ParamsFit, PlacesKept, Tasks, fits
<1> QED BY <1>4, <1>5, <1>6, <1>7, <1>8, <1>9 DEF ProblemsInv

\* loadTask, loadDataset and ListTasks.
LEMMA RowsLoaded ==
    ASSUME ProblemsInv, NEW s \in Setters, loadTask(s) \/ loadDataset(s) \/ listTasks(s)
    PROVE  ProblemsInv'
<1>1. ASSUME NEW t \in TaskIds PROVE bank.tasks[t] \in TaskRow /\ Placed(bank.tasks[t])
  <2>1. bank.tasks[t] \in TaskRow /\ (bank.tasks[t] # NoTask => Placed(bank.tasks[t]))
    BY BankIs
  <2>2. Placed(NoTask)
    BY NoRowsOfBank DEF Placed
  <2> QED BY <2>1, <2>2
<1>2. CASE loadTask(s)
  <2>1. PICK t \in Tasks(bank) :
           /\ setting' = [setting EXCEPT ![s] = [at |-> "task", task |-> t, row |-> GetTask(bank, t)]]
           /\ UNCHANGED <<bank, home, pulled, stripped, loose>>
    BY <1>2 DEF loadTask
  <2>2. PICK r : r = [at |-> "task", task |-> t, row |-> bank.tasks[t]]
    OBVIOUS
  <2>3. t \in TaskIds
    BY DEF Tasks
  <2>4. SettingFits(r)
    BY <1>1, <2>2, <2>3 DEF SettingFits
  <2> QED BY <2>1, <2>2, <2>4, SettingLoaded DEF GetTask
<1>3. CASE loadDataset(s)
  <2>1. PICK d \in DatasetIds :
           /\ bank.datasets[d].task # 0
           /\ setting' = [setting EXCEPT ![s] = [at |-> "dataset", task |-> bank.datasets[d].task,
                                                 row |-> bank.tasks[bank.datasets[d].task],
                                                 dataset |-> d, set |-> bank.datasets[d]]]
           /\ UNCHANGED <<bank, home, pulled, stripped, loose>>
    BY <1>3 DEF loadDataset, GetTask, GetDataset
  <2>2. PICK t : t = bank.datasets[d].task
    OBVIOUS
  <2>3. PICK r : r = [at |-> "dataset", task |-> t, row |-> bank.tasks[t], dataset |-> d, set |-> bank.datasets[d]]
    OBVIOUS
  <2>4. bank.datasets[d] \in DatasetRow /\ t \in TaskIds
    BY <2>1, <2>2, BankIs DEF DatasetRow
  <2>5. d <= bank.lastDataset
    <3>1. d > bank.lastDataset => bank.datasets[d] = NoDataset
      BY DEF ProblemsInv, IdsUnused
    <3>2. d \in Nat /\ bank.lastDataset \in Nat
      BY ProblemIds, BankIs
    <3>3. NoDataset.task = 0
      BY NoRowsOfBank
    <3> QED BY <2>1, <3>1, <3>2, <3>3
  <2>6. SettingFits(r)
    BY <1>1, <2>2, <2>3, <2>4, <2>5 DEF SettingFits
  <2>7. setting' = [setting EXCEPT ![s] = r]
    BY <2>1, <2>2, <2>3
  <2> QED BY <2>1, <2>6, <2>7, SettingLoaded
<1>4. CASE listTasks(s)
  <2>1. PICK c \in bank.contests :
           /\ setting' = [setting EXCEPT ![s] = [at |-> "list", contest |-> c, list |-> ListTasksByContest(bank, c)]]
           /\ UNCHANGED <<bank, home, pulled, stripped, loose>>
    BY <1>4 DEF listTasks
  <2>2. c \in ContestIds /\ c # 0
    BY BankIs, ProblemIds
  <2>3. PICK list : list = ListTasksByContest(bank, c)
    OBVIOUS
  <2>4. ASSUME NEW x \in list PROVE x.id \in TaskIds /\ x.num \in Nat
    <3>1. PICK t \in Tasks(bank) : bank.tasks[t].contest = c /\ x = [id |-> t, num |-> bank.tasks[t].num]
      BY <2>3 DEF ListTasksByContest
    <3>2. t \in TaskIds /\ bank.tasks[t] # NoTask
      BY DEF Tasks
    <3>3. bank.tasks[t] \in TaskRow /\ bank.tasks[t].num # -1
      BY <3>1, <3>2, <2>2, BankIs DEF Placed
    <3> QED BY <3>1, <3>2, <3>3 DEF TaskRow
  <2>5. PICK r : r = [at |-> "list", contest |-> c, list |-> list]
    OBVIOUS
  <2>6. SettingFits(r)
    BY <2>2, <2>4, <2>5 DEF SettingFits
  <2> QED BY <2>1, <2>3, <2>5, <2>6, SettingLoaded
<1> QED BY <1>2, <1>3, <1>4

(***************************************************************************)
(* Steps of the tasks.                                                     *)
(***************************************************************************)
\* Rows of tasks change or go, and the datasets stay.
LEMMA TasksWritten ==
    ASSUME ProblemsInv, NEW s \in Setters, SetterDone(s) \/ setting' = setting,
           bank' \in Banks, bank'.datasets = bank.datasets, bank'.contests \subseteq bank.contests,
           bank'.lastTask = bank.lastTask, bank'.lastDataset = bank.lastDataset,
           bank'.lastContest = bank.lastContest, DOMAIN home' = TaskIds,
           \A t \in TaskIds : /\ bank'.tasks[t].live = bank.tasks[t].live
                              /\ bank.tasks[t] = NoTask => bank'.tasks[t] = NoTask,
           Allowed(bank'), PlacesKept', UNCHANGED <<stripped, loose>>
    PROVE  ProblemsInv'
<1>1. SettingsFit' /\ DOMAIN setting' = Setters
  <2>1. bank'.lastDataset \in Nat /\ bank'.lastDataset >= bank.lastDataset
    BY BankIs
  <2>2. \A d \in DatasetIds : bank'.datasets[d].task \in {0, bank.datasets[d].task}
    OBVIOUS
  <2> QED BY <2>1, <2>2, SettingsStay
<1>2. BankShape'
  BY <1>1 DEF BankShape
<1>3. IdsUnused' /\ Owned'
  BY DEF ProblemsInv, IdsUnused, Owned
<1>4. \A t \in TaskIds : t \in Tasks(bank)' => t \in Tasks(bank)
  BY DEF Tasks
<1>5. LiveIsOwn'
  BY <1>4 DEF ProblemsInv, LiveIsOwn, Tasks
<1>6. ParamsFit'
  BY DEF ProblemsInv, ParamsFit
<1> QED BY <1>1, <1>2, <1>3, <1>5, <1>6 DEF ProblemsInv

\* Tables e that differ in the row of the task t at most, which keeps its
\* live dataset.
TaskForm(e, t) ==
    /\ e \in Banks /\ e.datasets = bank.datasets /\ e.contests = bank.contests
    /\ e.lastTask = bank.lastTask /\ e.lastDataset = bank.lastDataset /\ e.lastContest = bank.lastContest
    /\ \A u \in TaskIds \ {t} : e.tasks[u] = bank.tasks[u]
    /\ e.tasks[t].live = bank.tasks[t].live
    /\ IF bank.tasks[t] = NoTask THEN e.tasks[t] = NoTask ELSE Placed(e.tasks[t])

\* The form of a task makes such tables, whatever row was loaded.
LEMMA FormWritten ==
    ASSUME ProblemsInv, NEW t \in TaskIds, NEW row \in TaskRow, Placed(row), NEW e, e = UpdateTask(bank, t, row)
    PROVE  TaskForm(e, t)
<1>1. PICK T : /\ TasksOf(e, bank, T) /\ \A u \in TaskIds \ {t} : T[u] = bank.tasks[u]
               /\ T[t].live = bank.tasks[t].live
               /\ IF bank.tasks[t] = NoTask THEN T[t] = NoTask
                  ELSE T[t].name = row.name /\ T[t].contest = row.contest /\ T[t].num = row.num
  BY BankIs, UpdateTaskIs
<1> QED
  BY <1>1 DEF TasksOf, TaskForm, Placed

\* No form is such tables too.
LEMMA NoForm == ProblemsInv => \A t \in TaskIds : TaskForm(bank, t)
BY BankIs DEF TaskForm

\* A task whose contest a form changed is on record.
LEMMA FormPlaces ==
    ASSUME ProblemsInv, NEW t \in TaskIds, NEW e, TaskForm(e, t),
           bank'.tasks = e.tasks => \A u \in {t} : e.tasks[u].contest # bank.tasks[u].contest => u \in pulled',
           bank'.tasks \in {e.tasks, bank.tasks}, pulled \subseteq pulled', home' = home
    PROVE  PlacesKept'
<1>1. ASSUME NEW u \in Tasks(bank)'
      PROVE  (bank'.tasks[u].contest = home'[u] \/ u \in pulled') /\ Placed(bank'.tasks[u])
  <2>1. u \in TaskIds /\ bank'.tasks[u] # NoTask
    BY DEF Tasks
  <2>2. CASE bank'.tasks[u] = bank.tasks[u]
    <3>1. u \in Tasks(bank)
      BY <2>1, <2>2 DEF Tasks
    <3> QED BY <2>2, <3>1 DEF ProblemsInv, PlacesKept, Placed
  <2>3. CASE bank'.tasks[u] # bank.tasks[u]
    <3>1. u = t /\ bank'.tasks = e.tasks
      BY <2>1, <2>3 DEF TaskForm
    <3>2. bank.tasks[t] # NoTask /\ Placed(e.tasks[t])
      BY <2>1, <3>1 DEF TaskForm
    <3>3. bank.tasks[t].contest = home[t] \/ t \in pulled
      BY <3>2 DEF ProblemsInv, PlacesKept, Tasks
    <3> QED BY <3>1, <3>2, <3>3
  <2> QED BY <2>2, <2>3
<1> QED BY <1>1 DEF PlacesKept, Placed

\* The row of a task is saved where the tables allow it.
LEMMA TaskSaved ==
    ASSUME ProblemsInv, NEW s \in Setters, SetterDone(s), NEW t \in TaskIds, NEW e, TaskForm(e, t),
           Write(e), pulled' = pulled \cup Moved(e, {t}), UNCHANGED <<home, stripped, loose>>
    PROVE  ProblemsInv'
<1>1. Allowed(bank) /\ bank \in Banks /\ DOMAIN home = TaskIds
  BY DEF ProblemsInv, BankShape
<1>2. Allowed(bank') /\ (bank' = bank \/ (bank' = e /\ Allowed(e)))
  BY <1>1 DEF Write
<1>3. TaskForm(bank', t)
  BY <1>2, NoForm
<1>4. PlacesKept'
  <2>1. bank' = e /\ Allowed(e) => \A u \in {t} : e.tasks[u].contest # bank.tasks[u].contest => u \in pulled'
    BY DEF Moved
  <2>2. bank' = bank => bank'.tasks = bank.tasks
    OBVIOUS
  <2>3. CASE bank' = e /\ Allowed(e)
    BY <2>1, <2>3, FormPlaces
  <2>4. CASE bank' = bank
    <3>1. TaskForm(bank, t)
      BY NoForm
    <3>2. bank'.tasks \in {bank.tasks, bank.tasks} /\ pulled \subseteq pulled' /\ home' = home
      BY <2>4
    <3> QED BY <3>1, <3>2, FormPlaces
  <2> QED BY <1>2, <2>3, <2>4
<1>5. \A u \in TaskIds : /\ bank'.tasks[u].live = bank.tasks[u].live
                         /\ bank.tasks[u] = NoTask => bank'.tasks[u] = NoTask
  BY <1>3 DEF TaskForm
<1>6. /\ bank' \in Banks /\ bank'.datasets = bank.datasets /\ bank'.contests \subseteq bank.contests
      /\ bank'.lastTask = bank.lastTask /\ bank'.lastDataset = bank.lastDataset
      /\ bank'.lastContest = bank.lastContest /\ DOMAIN home' = TaskIds
  BY <1>1, <1>3 DEF TaskForm
<1> QED BY <1>2, <1>4, <1>5, <1>6, TasksWritten

\* The setters' rows.
LEMMA SettingIs ==
    ASSUME ProblemsInv, NEW s \in Setters, setting[s].at \in {"task", "dataset"}
    PROVE  /\ setting[s].task \in TaskIds /\ setting[s].row \in TaskRow /\ Placed(setting[s].row)
           /\ setting[s].at = "dataset" =>
                 /\ setting[s].dataset \in DatasetIds /\ setting[s].dataset <= bank.lastDataset
                 /\ setting[s].set \in DatasetRow
                 /\ bank.datasets[setting[s].dataset].task \in {0, setting[s].task}
<1>1. SettingFits(setting[s])
  BY DEF ProblemsInv, SettingsFit
<1> QED BY <1>1 DEF SettingFits

\* handleTaskUpdate and setPrimary: the row that was loaded, with a new
\* name or another primary statement.
LEMMA FormSaved ==
    ASSUME ProblemsInv, NEW s \in Setters, handleTaskUpdate(s) \/ setPrimary(s)
    PROVE  ProblemsInv'
<1>1. PICK r : r = setting[s]
  OBVIOUS
<1>2. r.at = "task"
  BY <1>1 DEF handleTaskUpdate, setPrimary
<1>3. r.task \in TaskIds /\ r.row \in TaskRow /\ Placed(r.row)
  BY <1>1, <1>2, SettingIs
<1>4. PICK row, e : /\ row \in TaskRow /\ Placed(row) /\ e = UpdateTask(bank, r.task, row)
                    /\ Write(e) /\ pulled' = pulled \cup Moved(e, {r.task})
                    /\ SetterDone(s) /\ UNCHANGED <<home, stripped, loose>>
  <2>1. CASE handleTaskUpdate(s)
    <3>1. PICK n \in TaskNames :
             /\ Write(UpdateTask(bank, r.task, [r.row EXCEPT !.name = n]))
             /\ pulled' = pulled \cup Moved(UpdateTask(bank, r.task, [r.row EXCEPT !.name = n]), {r.task})
             /\ SetterDone(s) /\ UNCHANGED <<home, stripped, loose>>
      BY <2>1, <1>1, Zenon DEF handleTaskUpdate
    <3>2. PICK row : row = [r.row EXCEPT !.name = n]
      OBVIOUS
    <3>3. row \in TaskRow /\ Placed(row)
      BY <1>3, <3>2 DEF TaskRow, Titles, Placed
    <3> QED BY <3>1, <3>2, <3>3
  <2>2. CASE setPrimary(s)
    <3>1. PICK p \in BOOLEAN :
             /\ Write(UpdateTask(bank, r.task, [r.row EXCEPT !.primary = p]))
             /\ pulled' = pulled \cup Moved(UpdateTask(bank, r.task, [r.row EXCEPT !.primary = p]), {r.task})
             /\ SetterDone(s) /\ UNCHANGED <<home, stripped, loose>>
      BY <2>2, <1>1, Zenon DEF setPrimary
    <3>2. PICK row : row = [r.row EXCEPT !.primary = p]
      OBVIOUS
    <3>3. row \in TaskRow /\ Placed(row)
      BY <1>3, <3>2 DEF TaskRow, Placed
    <3> QED BY <3>1, <3>2, <3>3
  <2> QED BY <2>1, <2>2
<1>5. TaskForm(e, r.task)
  BY <1>3, <1>4, FormWritten
<1> QED BY <1>3, <1>4, <1>5, TaskSaved

\* Rows of the tables that are fewer, or move to no contest, break no key.
LEMMA AllowedFewer ==
    ASSUME ProblemsInv, NEW e,
           \A t \in TaskIds : e.tasks[t] # NoTask =>
              /\ bank.tasks[t] # NoTask /\ e.tasks[t].name = bank.tasks[t].name
              /\ \/ e.tasks[t].contest = 0
                 \/ /\ e.tasks[t].contest = bank.tasks[t].contest /\ e.tasks[t].num = bank.tasks[t].num
                    /\ e.tasks[t].contest \in e.contests \cup {0}
    PROVE  Allowed(e)
<1>1. Allowed(bank)
  BY DEF ProblemsInv
<1>2. \A t \in Tasks(e) : t \in TaskIds /\ t \in Tasks(bank) /\ e.tasks[t] # NoTask
  BY DEF Tasks
<1>3. ASSUME NEW t \in Tasks(e), NEW u \in Tasks(e), t # u
      PROVE  /\ e.tasks[t].name # e.tasks[u].name
             /\ e.tasks[t].contest # 0 /\ e.tasks[t].contest = e.tasks[u].contest /\ e.tasks[t].num # -1
                   => e.tasks[t].num # e.tasks[u].num
  <2>1. /\ bank.tasks[t].name # bank.tasks[u].name
        /\ bank.tasks[t].contest # 0 /\ bank.tasks[t].contest = bank.tasks[u].contest /\ bank.tasks[t].num # -1
              => bank.tasks[t].num # bank.tasks[u].num
    BY <1>1, <1>2, <1>3 DEF Allowed
  <2> QED BY <1>2, <2>1
<1>4. \A t \in Tasks(e) : e.tasks[t].contest \in e.contests \cup {0}
  BY <1>2
<1> QED BY <1>3, <1>4 DEF Allowed

\* handleTaskDelete: the row goes with its datasets.
LEMMA TaskDeleted ==
    ASSUME ProblemsInv, NEW s \in Setters, handleTaskDelete(s)
    PROVE  ProblemsInv'
<1>1. PICK t : t = setting[s].task
  OBVIOUS
<1>2. /\ bank' = DeleteTask(bank, t) /\ pulled' = pulled \ {t} /\ stripped' = stripped \ {t}
      /\ loose' = loose \ DatasetsOf(bank, t) /\ SetterDone(s) /\ home' = home /\ setting[s].at = "task"
  BY <1>1 DEF handleTaskDelete
<1>3. t \in TaskIds
  BY <1>1, <1>2, SettingIs
<1>4. /\ bank' \in Banks /\ bank'.contests = bank.contests
      /\ bank'.lastTask = bank.lastTask /\ bank'.lastDataset = bank.lastDataset /\ bank'.lastContest = bank.lastContest
      /\ bank'.tasks[t] = NoTask /\ \A u \in TaskIds \ {t} : bank'.tasks[u] = bank.tasks[u]
      /\ \A d \in DatasetIds : bank'.datasets[d] = IF bank.datasets[d].task = t THEN NoDataset ELSE bank.datasets[d]
  BY <1>2, <1>3, BankIs, DeleteTaskIs
<1>5. t # 0 /\ NoDataset.task = 0 /\ fits(NoDataset)
  BY <1>3, ProblemIds, NoRowsOfBank
<1>6. SettingsFit' /\ DOMAIN setting' = Setters
  <2>1. bank'.lastDataset \in Nat /\ bank'.lastDataset >= bank.lastDataset
    BY <1>4, BankIs
  <2>2. \A d \in DatasetIds : bank'.datasets[d].task \in {0, bank.datasets[d].task}
    BY <1>4, <1>5
  <2> QED BY <1>2, <2>1, <2>2, SettingsStay
<1>7. BankShape' /\ IdsUnused' /\ Owned'
  BY <1>2, <1>4, <1>6 DEF ProblemsInv, BankShape, IdsUnused, Owned
<1>8. Allowed(bank')
  <2>1. \A u \in TaskIds : bank.tasks[u] # NoTask => bank.tasks[u].contest \in bank.contests \cup {0}
    BY DEF ProblemsInv, Allowed, Tasks
  <2>2. \A u \in TaskIds : bank'.tasks[u] # NoTask => bank'.tasks[u] = bank.tasks[u]
    BY <1>4
  <2> QED BY <1>4, <2>1, <2>2, AllowedFewer
<1>9. \A u \in Tasks(bank)' : u \in Tasks(bank) /\ u # t /\ bank'.tasks[u] = bank.tasks[u]
  BY <1>4 DEF Tasks
<1>10. LiveIsOwn'
  <2>1. ASSUME NEW u \in Tasks(bank)'
        PROVE  IF bank'.tasks[u].live = 0 THEN u \in stripped' ELSE bank'.datasets[bank'.tasks[u].live].task = u
    <3>1. u \in Tasks(bank) /\ u # t /\ bank'.tasks[u] = bank.tasks[u] /\ u \in TaskIds
      BY <1>9 DEF Tasks
    <3>2. IF bank.tasks[u].live = 0 THEN u \in stripped ELSE bank.datasets[bank.tasks[u].live].task = u
      BY <3>1 DEF ProblemsInv, LiveIsOwn
    <3>3. bank.tasks[u].live \in DatasetIds \cup {0}
      BY <3>1, BankIs DEF TaskRow
    <3> QED BY <1>2, <1>4, <3>1, <3>2, <3>3
  <2> QED BY <2>1 DEF LiveIsOwn
<1>11. ParamsFit'
  <2>1. ASSUME NEW d \in DatasetIds PROVE fits(bank'.datasets[d]) \/ d \in loose'
    <3>1. fits(bank.datasets[d]) \/ d \in loose
      BY DEF ProblemsInv, ParamsFit
    <3> QED BY <1>2, <1>4, <1>5, <3>1 DEF DatasetsOf
  <2> QED BY <2>1 DEF ParamsFit, fits
<1>12. PlacesKept'
  BY <1>2, <1>9 DEF ProblemsInv, PlacesKept
<1> QED BY <1>6, <1>7, <1>8, <1>10, <1>11, <1>12 DEF ProblemsInv

\* A task's contest and place.
LEMMA PlaceWritten ==
    ASSUME ProblemsInv, NEW t \in TaskIds, NEW c \in ContestIds \cup {0}, NEW k \in Nat \cup {-1}, c # 0 => k # -1,
           NEW e, e = SetTaskContest(bank, t, c, k)
    PROVE  /\ TaskForm(e, t) /\ e.tasks[t].name = bank.tasks[t].name
           /\ bank.tasks[t] # NoTask => e.tasks[t].contest = c /\ e.tasks[t].num = k
<1>1. PICK T : /\ TasksOf(e, bank, T) /\ \A u \in TaskIds \ {t} : T[u] = bank.tasks[u]
               /\ T[t].live = bank.tasks[t].live /\ T[t].name = bank.tasks[t].name
               /\ IF bank.tasks[t] = NoTask THEN T[t] = NoTask ELSE T[t].contest = c /\ T[t].num = k
  <2>1. bank \in Banks
    BY BankIs
  <2> QED BY <2>1, SetTaskContestIs
<1> QED BY <1>1 DEF TasksOf, TaskForm, Placed

\* The place of a task changes and the history says where it is.
LEMMA TaskPlaced ==
    ASSUME ProblemsInv, NEW s \in Setters, SetterDone(s), NEW t \in TaskIds, TaskForm(bank', t), Allowed(bank'),
           DOMAIN home' = TaskIds, \A u \in TaskIds \ {t} : home'[u] = home[u],
           \A u \in TaskIds \ {t} : u \in pulled => u \in pulled',
           \/ bank.tasks[t] = NoTask
           \/ bank'.tasks[t].contest = home'[t]
           \/ bank' = bank /\ home'[t] = home[t] /\ (t \in pulled => t \in pulled'),
           UNCHANGED <<stripped, loose>>
    PROVE  ProblemsInv'
<1>1. ASSUME NEW u \in Tasks(bank)'
      PROVE  (bank'.tasks[u].contest = home'[u] \/ u \in pulled') /\ Placed(bank'.tasks[u])
  <2>1. u \in TaskIds /\ bank'.tasks[u] # NoTask
    BY DEF Tasks
  <2>2. u # t => bank'.tasks[u] = bank.tasks[u]
    BY <2>1 DEF TaskForm
  <2>3. bank.tasks[u] # NoTask
    <3>1. u = t => bank.tasks[u] # NoTask
      BY <2>1 DEF TaskForm
    <3> QED BY <2>1, <2>2, <3>1
  <2>4. (bank.tasks[u].contest = home[u] \/ u \in pulled) /\ Placed(bank.tasks[u])
    BY <2>1, <2>3 DEF ProblemsInv, PlacesKept, Placed, Tasks
  <2>5. CASE u # t
    BY <2>1, <2>2, <2>4, <2>5
  <2>6. CASE u = t
    <3>1. Placed(bank'.tasks[t])
      BY <2>3, <2>6 DEF TaskForm
    <3> QED BY <2>3, <2>4, <2>6, <3>1
  <2> QED BY <2>5, <2>6
<1>2. PlacesKept'
  BY <1>1 DEF PlacesKept, Placed
<1>3. \A u \in TaskIds : /\ bank'.tasks[u].live = bank.tasks[u].live
                         /\ bank.tasks[u] = NoTask => bank'.tasks[u] = NoTask
  BY DEF TaskForm
<1>4. /\ bank' \in Banks /\ bank'.datasets = bank.datasets /\ bank'.contests \subseteq bank.contests
      /\ bank'.lastTask = bank.lastTask /\ bank'.lastDataset = bank.lastDataset
      /\ bank'.lastContest = bank.lastContest
  BY DEF TaskForm
<1> QED BY <1>2, <1>3, <1>4, TasksWritten

\* The next place of a contest.
LEMMA NextPlaceIs ==
    ASSUME ProblemsInv, NEW c \in ContestIds
    PROVE  /\ AdminNextTaskNum(bank, c) \in Nat
           /\ \A u \in Tasks(bank) : bank.tasks[u].contest = c => bank.tasks[u].num # AdminNextTaskNum(bank, c)
<1>1. ASSUME NEW u \in Tasks(bank), bank.tasks[u].contest = c PROVE bank.tasks[u].num \in Nat
  <2>1. u \in TaskIds /\ bank.tasks[u] # NoTask
    BY DEF Tasks
  <2>2. bank.tasks[u] \in TaskRow /\ Placed(bank.tasks[u]) /\ c # 0
    BY <2>1, BankIs, ProblemIds
  <2> QED BY <1>1, <2>2 DEF Placed, TaskRow
<1>2. bank \in Banks
  BY BankIs
<1> QED BY <1>1, <1>2, NextPlace

\* handleContestAddTask and handleContestRemoveTask: the next place of the
\* contest, or none.
LEMMA TaskMoved ==
    ASSUME ProblemsInv, NEW s \in Setters, handleContestAddTask(s) \/ handleContestRemoveTask(s)
    PROVE  ProblemsInv'
<1>1. PICK t : t = setting[s].task
  OBVIOUS
<1>2. setting[s].at = "task" /\ SetterDone(s) /\ UNCHANGED <<stripped, loose>>
  BY DEF handleContestAddTask, handleContestRemoveTask
<1>3. t \in TaskIds
  BY <1>1, <1>2, SettingIs
<1>4. DOMAIN home = TaskIds /\ Allowed(bank)
  BY DEF ProblemsInv, BankShape
<1>5. CASE handleContestAddTask(s)
  <2>1. PICK c \in ContestIds :
           /\ Write(SetTaskContest(bank, t, c, AdminNextTaskNum(bank, c)))
           /\ IF Allowed(SetTaskContest(bank, t, c, AdminNextTaskNum(bank, c)))
              THEN home' = [home EXCEPT ![t] = c] /\ pulled' = pulled \ {t}
              ELSE UNCHANGED <<home, pulled>>
    BY <1>5, <1>1 DEF handleContestAddTask
  <2>2. PICK k : k = AdminNextTaskNum(bank, c)
    OBVIOUS
  <2>3. k \in Nat /\ c # 0
    BY <2>2, NextPlaceIs, ProblemIds
  <2>4. PICK e : e = SetTaskContest(bank, t, c, k)
    OBVIOUS
  <2>5. /\ TaskForm(e, t) /\ (bank.tasks[t] # NoTask => e.tasks[t].contest = c /\ e.tasks[t].num = k)
    BY <1>3, <2>3, <2>4, PlaceWritten
  <2>6. CASE Allowed(e)
    <3>1. bank' = e /\ home' = [home EXCEPT ![t] = c] /\ pulled' = pulled \ {t}
      BY <2>1, <2>2, <2>4, <2>6 DEF Write
    <3>2. DOMAIN home' = TaskIds /\ (\A u \in TaskIds \ {t} : home'[u] = home[u]) /\ home'[t] = c
      BY <3>1, <1>3, <1>4
    <3>3. \A u \in TaskIds \ {t} : u \in pulled => u \in pulled'
      BY <3>1
    <3>4. bank.tasks[t] = NoTask \/ bank'.tasks[t].contest = home'[t]
      BY <2>5, <3>1, <3>2
    <3> QED BY <1>2, <1>3, <2>5, <2>6, <3>1, <3>2, <3>3, <3>4, TaskPlaced
  <2>7. CASE ~Allowed(e)
    <3>1. bank' = bank /\ home' = home /\ pulled' = pulled
      BY <2>1, <2>2, <2>4, <2>7 DEF Write
    <3>2. TaskForm(bank', t) /\ Allowed(bank')
      BY <1>3, <1>4, <3>1, NoForm
    <3> QED BY <1>2, <1>3, <1>4, <3>1, <3>2, TaskPlaced
  <2> QED BY <2>6, <2>7
<1>6. CASE handleContestRemoveTask(s)
  <2>1. /\ Write(SetTaskContest(bank, t, 0, -1))
        /\ home' = [home EXCEPT ![t] = 0] /\ pulled' = pulled \ {t}
    BY <1>6, <1>1 DEF handleContestRemoveTask
  <2>2. PICK k : k = -1
    OBVIOUS
  <2>3. PICK e : e = SetTaskContest(bank, t, 0, k)
    OBVIOUS
  <2>4. /\ TaskForm(e, t) /\ e.tasks[t].name = bank.tasks[t].name
        /\ bank.tasks[t] # NoTask => e.tasks[t].contest = 0 /\ e.tasks[t].num = k
    <3>1. k \in Nat \cup {-1}
      BY <2>2
    <3> QED BY <1>3, <2>3, <3>1, PlaceWritten
  <2>5. Allowed(e)
    <3>1. \A u \in TaskIds : bank.tasks[u] # NoTask => bank.tasks[u].contest \in bank.contests \cup {0}
      BY DEF ProblemsInv, Allowed, Tasks
    <3>2. e.contests = bank.contests /\ \A u \in TaskIds \ {t} : e.tasks[u] = bank.tasks[u]
      BY <2>4 DEF TaskForm
    <3>3. e.tasks[t] # NoTask => bank.tasks[t] # NoTask
      BY <2>4 DEF TaskForm
    <3>4. ASSUME NEW u \in TaskIds, e.tasks[u] # NoTask
          PROVE  /\ bank.tasks[u] # NoTask /\ e.tasks[u].name = bank.tasks[u].name
                 /\ \/ e.tasks[u].contest = 0
                    \/ /\ e.tasks[u].contest = bank.tasks[u].contest /\ e.tasks[u].num = bank.tasks[u].num
                       /\ e.tasks[u].contest \in e.contests \cup {0}
      BY <2>4, <3>1, <3>2, <3>3, <3>4
    <3> QED BY <3>4, AllowedFewer
  <2>6. bank' = e
    BY <2>1, <2>2, <2>3, <2>5 DEF Write
  <2>7. DOMAIN home' = TaskIds /\ (\A u \in TaskIds \ {t} : home'[u] = home[u]) /\ home'[t] = 0
    BY <2>1, <1>3, <1>4
  <2>8. \A u \in TaskIds \ {t} : u \in pulled => u \in pulled'
    BY <2>1
  <2>9. bank.tasks[t] = NoTask \/ bank'.tasks[t].contest = home'[t]
    BY <2>4, <2>6, <2>7
  <2> QED BY <1>2, <1>3, <2>4, <2>5, <2>6, <2>7, <2>8, <2>9, TaskPlaced
<1> QED BY <1>5, <1>6

\* The rows of two tasks change places: a row that has a contest is there.
LEMMA PlacesSwapped ==
    ASSUME ProblemsInv, NEW c \in ContestIds, NEW x, NEW y, x.id \in TaskIds, y.id \in TaskIds,
           x.num \in Nat, y.num \in Nat, NEW e, e = MoveTask(bank, c, x, y)
    PROVE  /\ e \in Banks /\ e.datasets = bank.datasets /\ e.contests = bank.contests
           /\ e.lastTask = bank.lastTask /\ e.lastDataset = bank.lastDataset /\ e.lastContest = bank.lastContest
           /\ \A u \in TaskIds \ {x.id, y.id} : e.tasks[u] = bank.tasks[u]
           /\ \A u \in TaskIds : /\ e.tasks[u].live = bank.tasks[u].live
                                 /\ bank.tasks[u] = NoTask => e.tasks[u] = NoTask
           /\ \A u \in {x.id, y.id} : bank.tasks[u] # NoTask => Placed(e.tasks[u])
<1>1. PICK i, j, m, n, k : i = x.id /\ j = y.id /\ m = x.num /\ n = y.num /\ k = -1
  OBVIOUS
<1>2. i \in TaskIds /\ j \in TaskIds /\ m \in Nat /\ n \in Nat /\ k \in Nat \cup {-1} /\ c # 0 /\ NoTask.contest = 0
  BY <1>1, ProblemIds, NoRowsOfBank
<1>3. PICK p : p = SetTaskContest(bank, i, c, k)
  OBVIOUS
<1>4. PICK q : q = SetTaskContest(p, j, c, m)
  OBVIOUS
<1>5. e = SetTaskContest(q, i, c, n)
  BY <1>1, <1>3, <1>4 DEF MoveTask
<1>6. bank \in Banks
  BY BankIs
<1>7. PICK P : /\ TasksOf(p, bank, P) /\ \A u \in TaskIds \ {i} : P[u] = bank.tasks[u]
               /\ P[i].live = bank.tasks[i].live
               /\ IF bank.tasks[i] = NoTask THEN P[i] = NoTask ELSE P[i].contest = c
  BY <1>2, <1>3, <1>6, SetTaskContestIs
<1>8. p \in Banks /\ p.tasks = P
  BY <1>7 DEF TasksOf
<1>9. PICK Q : /\ TasksOf(q, p, Q) /\ \A u \in TaskIds \ {j} : Q[u] = p.tasks[u]
               /\ Q[j].live = p.tasks[j].live
               /\ IF p.tasks[j] = NoTask THEN Q[j] = NoTask ELSE Q[j].contest = c /\ Q[j].num = m
  BY <1>2, <1>4, <1>8, SetTaskContestIs
<1>10. q \in Banks /\ q.tasks = Q
  BY <1>9 DEF TasksOf
<1>11. PICK T : /\ TasksOf(e, q, T) /\ \A u \in TaskIds \ {i} : T[u] = q.tasks[u]
                /\ T[i].live = q.tasks[i].live
                /\ IF q.tasks[i] = NoTask THEN T[i] = NoTask ELSE T[i].contest = c /\ T[i].num = n
  BY <1>2, <1>5, <1>10, SetTaskContestIs
<1>12. /\ e \in Banks /\ e.datasets = bank.datasets /\ e.contests = bank.contests
       /\ e.lastTask = bank.lastTask /\ e.lastDataset = bank.lastDataset /\ e.lastContest = bank.lastContest
       /\ e.tasks = T
  BY <1>7, <1>9, <1>11 DEF TasksOf
<1>13. \A u \in TaskIds : /\ P[u].live = bank.tasks[u].live /\ Q[u].live = P[u].live /\ T[u].live = Q[u].live
                          /\ bank.tasks[u] = NoTask <=> P[u] = NoTask
                          /\ P[u] = NoTask <=> Q[u] = NoTask
                          /\ Q[u] = NoTask <=> T[u] = NoTask
  BY <1>2, <1>7, <1>8, <1>9, <1>10, <1>11
<1>14. bank.tasks[i] # NoTask => T[i].num = n
  BY <1>2, <1>10, <1>11, <1>13
<1>15. bank.tasks[j] # NoTask => T[j].num \in {m, n}
  BY <1>2, <1>8, <1>9, <1>10, <1>11, <1>13
<1>16. \A u \in TaskIds \ {i, j} : T[u] = bank.tasks[u]
  BY <1>7, <1>8, <1>9, <1>10, <1>11
<1>17. \A u \in {i, j} : bank.tasks[u] # NoTask => Placed(T[u])
  BY <1>2, <1>14, <1>15 DEF Placed
<1> QED BY <1>1, <1>12, <1>13, <1>16, <1>17

\* handleContestMoveTask: the places of the list that was loaded.
LEMMA TasksSwapped ==
    ASSUME ProblemsInv, NEW s \in Setters, handleContestMoveTask(s)
    PROVE  ProblemsInv'
<1>1. PICK r : r = setting[s]
  OBVIOUS
<1>2. r.at = "list" /\ SetterDone(s) /\ UNCHANGED <<home, stripped, loose>>
  BY <1>1 DEF handleContestMoveTask
<1>3. PICK x \in r.list, y \in r.list :
         LET mid == SetTaskContest(SetTaskContest(bank, x.id, r.contest, -1), y.id, r.contest, x.num)
             b == MoveTask(bank, r.contest, x, y)
         IN  /\ bank' = IF Allowed(mid) /\ Allowed(b) THEN b ELSE bank
             /\ pulled' = IF Allowed(mid) THEN pulled \cup Moved(b, {x.id, y.id}) ELSE pulled
  BY <1>1 DEF handleContestMoveTask
<1>4. r.contest \in ContestIds /\ x.id \in TaskIds /\ x.num \in Nat /\ y.id \in TaskIds /\ y.num \in Nat
  BY <1>1, <1>2 DEF ProblemsInv, SettingsFit, SettingFits
<1>5. PICK e : e = MoveTask(bank, r.contest, x, y)
  OBVIOUS
<1>6. \/ bank' = e /\ Allowed(e) /\ pulled' = pulled \cup Moved(e, {x.id, y.id})
      \/ bank' = bank /\ pulled \subseteq pulled'
  BY <1>3, <1>5
<1>7. bank \in Banks /\ DOMAIN home = TaskIds /\ Allowed(bank)
  BY DEF ProblemsInv, BankShape
<1>8. CASE bank' = e /\ Allowed(e) /\ pulled' = pulled \cup Moved(e, {x.id, y.id})
  <2>1. /\ e \in Banks /\ e.datasets = bank.datasets /\ e.contests = bank.contests
        /\ e.lastTask = bank.lastTask /\ e.lastDataset = bank.lastDataset /\ e.lastContest = bank.lastContest
        /\ \A u \in TaskIds \ {x.id, y.id} : e.tasks[u] = bank.tasks[u]
        /\ \A u \in TaskIds : /\ e.tasks[u].live = bank.tasks[u].live
                              /\ bank.tasks[u] = NoTask => e.tasks[u] = NoTask
        /\ \A u \in {x.id, y.id} : bank.tasks[u] # NoTask => Placed(e.tasks[u])
    BY <1>4, <1>5, PlacesSwapped
  <2>2. ASSUME NEW u \in Tasks(bank)'
        PROVE  (bank'.tasks[u].contest = home'[u] \/ u \in pulled') /\ Placed(bank'.tasks[u])
    <3>1. u \in TaskIds /\ e.tasks[u] # NoTask
      BY <1>8 DEF Tasks
    <3>2. bank.tasks[u] # NoTask /\ u \in Tasks(bank)
      BY <2>1, <3>1 DEF Tasks
    <3>3. (bank.tasks[u].contest = home[u] \/ u \in pulled) /\ Placed(bank.tasks[u])
      BY <3>2 DEF ProblemsInv, PlacesKept, Placed
    <3>4. CASE u \in {x.id, y.id}
      <4>1. Placed(e.tasks[u])
        BY <2>1, <3>2, <3>4
      <4>2. e.tasks[u].contest # bank.tasks[u].contest => u \in pulled'
        BY <1>8, <3>4 DEF Moved
      <4> QED BY <1>2, <1>8, <3>3, <4>1, <4>2
    <3>5. CASE u \notin {x.id, y.id}
      <4>1. e.tasks[u] = bank.tasks[u]
        BY <2>1, <3>1, <3>5
      <4> QED BY <1>2, <1>8, <3>3, <4>1
    <3> QED BY <3>4, <3>5
  <2>3. PlacesKept'
    BY <2>2 DEF PlacesKept, Placed
  <2>4. Allowed(bank')
    BY <1>8
  <2> QED BY <1>2, <1>7, <1>8, <2>1, <2>3, <2>4, TasksWritten
<1>9. CASE bank' = bank /\ pulled \subseteq pulled'
  <2>1. PlacesKept'
    BY <1>2, <1>9 DEF ProblemsInv, PlacesKept, Tasks
  <2>2. Allowed(bank')
    BY <1>7, <1>9
  <2> QED BY <1>2, <1>7, <1>9, <2>1, <2>2, TasksWritten
<1> QED BY <1>6, <1>8, <1>9

\* handleContestDelete: its tasks are in no contest.
LEMMA ContestDeleted ==
    ASSUME ProblemsInv, NEW s \in Setters, handleContestDelete(s)
    PROVE  ProblemsInv'
<1>1. PICK c \in bank.contests :
         /\ bank' = DeleteContest(bank, c)
         /\ home' = [t \in TaskIds |-> IF bank.tasks[t].contest = c THEN 0 ELSE home[t]]
         /\ pulled' = {t \in pulled : bank.tasks[t].contest # c}
         /\ UNCHANGED <<setting, stripped, loose>>
  BY DEF handleContestDelete
<1>2. c \in ContestIds /\ bank \in Banks
  BY BankIs
<1>3. /\ bank' \in Banks /\ bank'.contests = bank.contests \ {c} /\ bank'.datasets = bank.datasets
      /\ bank'.lastTask = bank.lastTask /\ bank'.lastDataset = bank.lastDataset /\ bank'.lastContest = bank.lastContest
      /\ \A t \in TaskIds :
            /\ bank.tasks[t].contest # c => bank'.tasks[t] = bank.tasks[t]
            /\ bank'.tasks[t].contest = IF bank.tasks[t].contest = c THEN 0 ELSE bank.tasks[t].contest
            /\ bank'.tasks[t].live = bank.tasks[t].live /\ bank'.tasks[t].name = bank.tasks[t].name
            /\ bank'.tasks[t].num = bank.tasks[t].num
  BY <1>1, <1>2, DeleteContestIs
<1>4. NoTask.contest = 0 /\ c # 0
  BY <1>2, ProblemIds, NoRowsOfBank
<1>5. \A t \in TaskIds : bank.tasks[t] = NoTask => bank'.tasks[t] = NoTask
  BY <1>3, <1>4
<1>6. ASSUME NEW t \in TaskIds, bank'.tasks[t] # NoTask
      PROVE  /\ bank.tasks[t] # NoTask /\ t \in Tasks(bank)
             /\ bank'.tasks[t].contest = home'[t] \/ t \in pulled'
             /\ Placed(bank'.tasks[t])
             /\ \/ bank'.tasks[t].contest = 0
                \/ /\ bank'.tasks[t].contest = bank.tasks[t].contest
                   /\ bank'.tasks[t].contest \in bank'.contests \cup {0}
  <2>1. bank.tasks[t] # NoTask /\ t \in Tasks(bank)
    BY <1>5, <1>6 DEF Tasks
  <2>2. (bank.tasks[t].contest = home[t] \/ t \in pulled) /\ Placed(bank.tasks[t])
    BY <2>1 DEF ProblemsInv, PlacesKept, Placed
  <2>3. bank.tasks[t].contest \in bank.contests \cup {0}
    BY <2>1 DEF ProblemsInv, Allowed
  <2>4. CASE bank.tasks[t].contest = c
    BY <1>1, <1>3, <2>1, <2>4 DEF Placed
  <2>5. CASE bank.tasks[t].contest # c
    BY <1>1, <1>3, <2>1, <2>2, <2>3, <2>5
  <2> QED BY <2>4, <2>5
<1>7. PlacesKept'
  BY <1>6 DEF PlacesKept, Placed, Tasks
<1>8. Allowed(bank')
  BY <1>3, <1>6, AllowedFewer
<1>9. DOMAIN home' = TaskIds
  BY <1>1
<1> QED BY <1>1, <1>3, <1>5, <1>7, <1>8, <1>9, TasksWritten

(***************************************************************************)
(* Steps of the datasets.                                                  *)
(***************************************************************************)
\* Rows of tasks and datasets change, none comes and none goes.
LEMMA RowsWritten ==
    ASSUME ProblemsInv, NEW s \in Setters, SetterDone(s) \/ setting' = setting,
           bank' \in Banks, bank'.contests = bank.contests,
           bank'.lastTask = bank.lastTask, bank'.lastDataset = bank.lastDataset,
           bank'.lastContest = bank.lastContest, DOMAIN home' = TaskIds,
           \A t \in TaskIds : /\ bank'.tasks[t].live = bank.tasks[t].live
                              /\ bank.tasks[t] = NoTask => bank'.tasks[t] = NoTask,
           \A d \in DatasetIds : /\ bank'.datasets[d].task = bank.datasets[d].task
                                 /\ bank.datasets[d] = NoDataset => bank'.datasets[d] = NoDataset,
           Allowed(bank'), PlacesKept', ParamsFit', UNCHANGED stripped
    PROVE  ProblemsInv'
<1>1. SettingsFit' /\ DOMAIN setting' = Setters
  <2>1. bank'.lastDataset \in Nat /\ bank'.lastDataset >= bank.lastDataset
    BY BankIs
  <2>2. \A d \in DatasetIds : bank'.datasets[d].task \in {0, bank.datasets[d].task}
    OBVIOUS
  <2> QED BY <2>1, <2>2, SettingsStay
<1>2. BankShape'
  BY <1>1 DEF BankShape
<1>3. IdsUnused' /\ Owned'
  BY DEF ProblemsInv, IdsUnused, Owned
<1>4. \A t \in TaskIds : t \in Tasks(bank)' => t \in Tasks(bank)
  BY DEF Tasks
<1>5. LiveIsOwn'
  <2>1. ASSUME NEW u \in Tasks(bank)'
        PROVE  IF bank'.tasks[u].live = 0 THEN u \in stripped' ELSE bank'.datasets[bank'.tasks[u].live].task = u
    <3>1. u \in Tasks(bank) /\ bank'.tasks[u].live = bank.tasks[u].live /\ u \in TaskIds
      BY <1>4 DEF Tasks
    <3>2. IF bank.tasks[u].live = 0 THEN u \in stripped ELSE bank.datasets[bank.tasks[u].live].task = u
      BY <3>1 DEF ProblemsInv, LiveIsOwn
    <3>3. bank.tasks[u].live \in DatasetIds \cup {0}
      BY <3>1, BankIs DEF TaskRow
    <3> QED BY <3>1, <3>2, <3>3
  <2> QED BY <2>1 DEF LiveIsOwn
<1> QED BY <1>1, <1>2, <1>3, <1>5 DEF ProblemsInv

\* The tasks stay as they are.
LEMMA TasksStay ==
    ASSUME ProblemsInv, bank'.tasks = bank.tasks, bank'.contests = bank.contests, UNCHANGED <<home, pulled>>
    PROVE  Allowed(bank') /\ PlacesKept' /\ DOMAIN home' = TaskIds
<1>1. Allowed(bank')
  BY DEF ProblemsInv, Allowed, Tasks
<1>2. PlacesKept'
  BY DEF ProblemsInv, PlacesKept, Tasks
<1> QED BY <1>1, <1>2 DEF ProblemsInv, BankShape

\* One dataset changes, with the parameters and testcases that fit or are on
\* record.
LEMMA DatasetTouched ==
    ASSUME ProblemsInv, NEW s \in Setters, SetterDone(s) \/ setting' = setting,
           NEW d \in DatasetIds, OnlyDataset(bank', bank, d), bank'.datasets[d].task = bank.datasets[d].task,
           bank.datasets[d] = NoDataset => bank'.datasets[d] = NoDataset,
           fits(bank'.datasets[d]) \/ d \in loose', \A x \in DatasetIds \ {d} : x \in loose => x \in loose',
           UNCHANGED <<home, pulled, stripped>>
    PROVE  ProblemsInv'
<1>1. Allowed(bank') /\ PlacesKept' /\ DOMAIN home' = TaskIds
  BY TasksStay DEF OnlyDataset
<1>2. ParamsFit'
  <2>1. ASSUME NEW x \in DatasetIds PROVE fits(bank'.datasets[x]) \/ x \in loose'
    <3>1. fits(bank.datasets[x]) \/ x \in loose
      BY DEF ProblemsInv, ParamsFit
    <3>2. x # d => bank'.datasets[x] = bank.datasets[x]
      BY DEF OnlyDataset
    <3> QED BY <3>1, <3>2
  <2> QED BY <2>1 DEF ParamsFit, fits
<1>3. \A t \in TaskIds : /\ bank'.tasks[t].live = bank.tasks[t].live
                         /\ bank.tasks[t] = NoTask => bank'.tasks[t] = NoTask
  BY DEF OnlyDataset
<1>4. \A x \in DatasetIds : /\ bank'.datasets[x].task = bank.datasets[x].task
                            /\ bank.datasets[x] = NoDataset => bank'.datasets[x] = NoDataset
  BY DEF OnlyDataset
<1>5. /\ bank' \in Banks /\ bank'.contests = bank.contests /\ bank'.lastTask = bank.lastTask
      /\ bank'.lastDataset = bank.lastDataset /\ bank'.lastContest = bank.lastContest
  BY DEF OnlyDataset
<1> QED BY <1>1, <1>2, <1>3, <1>4, <1>5, RowsWritten

\* No dataset changes.
LEMMA NothingTouched ==
    ASSUME ProblemsInv, NEW s \in Setters, SetterDone(s) \/ setting' = setting,
           UNCHANGED <<bank, home, pulled, stripped>>, loose \subseteq loose'
    PROVE  ProblemsInv'
<1>1. /\ Allowed(bank') /\ PlacesKept' /\ DOMAIN home' = TaskIds
  BY TasksStay
<1>2. ParamsFit'
  BY DEF ProblemsInv, ParamsFit, fits
<1>3. bank' \in Banks
  BY BankIs
<1> QED BY <1>1, <1>2, <1>3, RowsWritten

\* A dataset that is there is of a task.
LEMMA DatasetIs ==
    ASSUME ProblemsInv, NEW d \in DatasetIds
    PROVE  /\ bank \in Banks /\ bank.datasets[d] \in DatasetRow /\ NoDataset.task = 0 /\ NoDataset.tests = {}
           /\ bank.datasets[d].task = 0 <=> bank.datasets[d] = NoDataset
           /\ fits(bank.datasets[d]) \/ d \in loose
           /\ fits(NoDataset)
BY BankIs, NoRowsOfBank DEF ProblemsInv, Owned, ParamsFit, NoDataset

\* handleDatasetRename: parameters that were loaded, over what came since.
LEMMA DatasetRenamed ==
    ASSUME ProblemsInv, NEW s \in Setters, handleDatasetRename(s)
    PROVE  ProblemsInv'
<1>1. PICK r, d : r = setting[s] /\ d = setting[s].dataset
  OBVIOUS
<1>2. /\ r.at = "dataset" /\ bank' = UpdateDataset(bank, d, r.set.groups)
      /\ loose' = IF bank.datasets[d] # NoDataset /\ bank.datasets[d] # r.set THEN loose \cup {d} ELSE loose
      /\ SetterDone(s) /\ UNCHANGED <<home, pulled, stripped>>
  BY <1>1 DEF handleDatasetRename, Loaded, Unmoved
<1>3. d \in DatasetIds /\ r.set \in DatasetRow
  BY <1>1, <1>2, SettingIs
<1>4. r.set.groups \in SUBSET Codes
  BY <1>3 DEF DatasetRow
<1>5. bank \in Banks /\ (fits(bank.datasets[d]) \/ d \in loose) /\ fits(NoDataset)
  BY <1>3, DatasetIs
<1>6. /\ OnlyDataset(bank', bank, d)
      /\ IF bank.datasets[d] = NoDataset THEN bank'.datasets[d] = NoDataset
         ELSE /\ bank'.datasets[d].task = bank.datasets[d].task /\ bank'.datasets[d].tests = bank.datasets[d].tests
              /\ bank'.datasets[d].groups = r.set.groups
  BY <1>2, <1>3, <1>4, <1>5, UpdateDatasetIs
<1>7. fits(bank'.datasets[d]) \/ d \in loose'
  <2>1. CASE bank.datasets[d] = NoDataset
    BY <1>5, <1>6, <2>1
  <2>2. CASE bank.datasets[d] # NoDataset /\ bank.datasets[d] # r.set
    BY <1>2, <2>2
  <2>3. CASE bank.datasets[d] # NoDataset /\ bank.datasets[d] = r.set
    BY <1>2, <1>5, <1>6, <2>3 DEF fits
  <2> QED BY <2>1, <2>2, <2>3
<1>8. \A x \in DatasetIds \ {d} : x \in loose => x \in loose'
  BY <1>2
<1>9. bank'.datasets[d].task = bank.datasets[d].task
  BY <1>6
<1> QED BY <1>2, <1>3, <1>6, <1>7, <1>8, <1>9, DatasetTouched

\* Managers come and go, and testcases are cleared.
LEMMA ManagersChanged ==
    ASSUME ProblemsInv, NEW s \in Setters, handleManagerUpload(s) \/ handleManagerDelete(s)
    PROVE  ProblemsInv'
<1>1. PICK d : d = setting[s].dataset
  OBVIOUS
<1>2. PICK m \in Managers : /\ \/ bank' = UpsertManager(bank, d, m)
                               \/ bank' = DeleteManager(bank, d, m) /\ m \in bank.datasets[d].managers
                            /\ SetterDone(s) /\ UNCHANGED <<home, pulled, stripped, loose>>
                            /\ setting[s].at = "dataset"
  BY <1>1 DEF handleManagerUpload, handleManagerDelete, Loaded
<1>3. d \in DatasetIds
  BY <1>1, <1>2, SettingIs
<1>4. bank \in Banks /\ (fits(bank.datasets[d]) \/ d \in loose)
  BY <1>3, DatasetIs
<1>5. /\ OnlyDataset(bank', bank, d) /\ bank'.datasets[d].task = bank.datasets[d].task
      /\ bank'.datasets[d].groups = bank.datasets[d].groups /\ bank'.datasets[d].tests = bank.datasets[d].tests
      /\ bank.datasets[d] = NoDataset => bank'.datasets[d] = NoDataset
  BY <1>2, <1>3, <1>4, ManagersIs
<1>6. fits(bank'.datasets[d]) \/ d \in loose'
  BY <1>2, <1>4, <1>5 DEF fits
<1> QED BY <1>2, <1>3, <1>5, <1>6, DatasetTouched

\* importArchive, handleTestcaseDelete and handleTestcasesClear.
LEMMA TestcasesChanged ==
    ASSUME ProblemsInv, NEW s \in Setters,
           importArchive(s) \/ handleTestcaseDelete(s) \/ handleTestcasesClear(s)
    PROVE  ProblemsInv'
<1>1. CASE importArchive(s)
  <2>1. PICK r, d : r = setting[s] /\ d = setting[s].dataset
    OBVIOUS
  <2>2. PICK new \in SUBSET Codes \ {{}}, overwrite \in BOOLEAN :
           LET add == IF overwrite THEN new ELSE new \ r.set.tests
           IN  /\ r.at = "dataset"
               /\ IF bank.datasets[d] # NoDataset
                  THEN /\ bank' = UpsertTestcase(bank, d, add)
                       /\ loose' = IF add \subseteq bank.datasets[d].tests THEN loose ELSE loose \cup {d}
                  ELSE UNCHANGED <<bank, loose>>
               /\ SetterDone(s) /\ UNCHANGED <<home, pulled, stripped>>
    BY <1>1, <2>1 DEF importArchive, Loaded
  <2>3. d \in DatasetIds
    BY <2>1, <2>2, SettingIs
  <2>4. PICK add : add = IF overwrite THEN new ELSE new \ r.set.tests
    OBVIOUS
  <2>5. add \in SUBSET Codes
    BY <2>4
  <2>6. CASE bank.datasets[d] # NoDataset
    <3>1. /\ bank' = UpsertTestcase(bank, d, add)
          /\ loose' = IF add \subseteq bank.datasets[d].tests THEN loose ELSE loose \cup {d}
      BY <2>2, <2>4, <2>6
    <3>2. /\ OnlyDataset(bank', bank, d)
          /\ bank'.datasets[d].task = bank.datasets[d].task
          /\ bank'.datasets[d].tests = bank.datasets[d].tests \cup add
          /\ bank'.datasets[d].groups = bank.datasets[d].groups
      BY <2>3, <2>5, <2>6, <3>1, BankIs, UpsertTestcaseIs
    <3>3. fits(bank.datasets[d]) \/ d \in loose
      BY <2>3, DatasetIs
    <3>4. fits(bank'.datasets[d]) \/ d \in loose'
      <4>1. CASE add \subseteq bank.datasets[d].tests
        <5>1. bank'.datasets[d].tests = bank.datasets[d].tests
          BY <3>2, <4>1
        <5> QED BY <3>1, <3>2, <3>3, <4>1, <5>1 DEF fits
      <4>2. CASE ~(add \subseteq bank.datasets[d].tests)
        BY <3>1, <4>2
      <4> QED BY <4>1, <4>2
    <3>5. \A x \in DatasetIds \ {d} : x \in loose => x \in loose'
      BY <3>1
    <3> QED BY <2>2, <2>3, <2>6, <3>2, <3>4, <3>5, DatasetTouched
  <2>7. CASE bank.datasets[d] = NoDataset
    BY <2>2, <2>7, NothingTouched
  <2> QED BY <2>6, <2>7
<1>2. CASE handleTestcaseDelete(s)
  <2>1. PICK d \in DatasetIds : \E x \in bank.datasets[d].tests :
           /\ bank' = DeleteTestcase(bank, d, x) /\ loose' = loose \cup {d}
           /\ UNCHANGED <<setting, home, pulled, stripped>>
    BY <1>2 DEF handleTestcaseDelete, ListTestcases
  <2>2. PICK x \in bank.datasets[d].tests : bank' = DeleteTestcase(bank, d, x)
    BY <2>1
  <2>3. OnlyDataset(bank', bank, d) /\ bank'.datasets[d].task = bank.datasets[d].task
    BY <2>2, BankIs, DeleteTestcaseIs
  <2>4. bank.datasets[d] # NoDataset
    BY <2>2, DatasetIs
  <2> QED BY <2>1, <2>3, <2>4, DatasetTouched
<1>3. CASE handleTestcasesClear(s)
  <2>1. PICK d : d = setting[s].dataset
    OBVIOUS
  <2>2. /\ setting[s].at = "dataset" /\ bank' = DeleteDatasetTestcases(bank, d) /\ SetterDone(s)
        /\ UNCHANGED <<home, pulled, stripped, loose>>
    BY <1>3, <2>1 DEF handleTestcasesClear, Loaded
  <2>3. d \in DatasetIds
    BY <2>1, <2>2, SettingIs
  <2>4. /\ OnlyDataset(bank', bank, d) /\ bank'.datasets[d].task = bank.datasets[d].task
        /\ bank'.datasets[d].groups = bank.datasets[d].groups
        /\ bank'.datasets[d].managers = bank.datasets[d].managers
        /\ bank'.datasets[d].tests = {}
    BY <2>2, <2>3, BankIs, DeleteTestcaseIs
  <2>5. fits(bank'.datasets[d])
    BY <2>4 DEF fits
  <2>6. bank.datasets[d] = NoDataset => bank'.datasets[d] = NoDataset
    <3>1. bank'.datasets[d] \in DatasetRow
      BY <2>3, <2>4, BankHolds DEF OnlyDataset
    <3>2. PICK w : w = bank'.datasets[d]
      OBVIOUS
    <3>3. w = [task |-> w.task, tests |-> w.tests, groups |-> w.groups, managers |-> w.managers]
      BY <3>1, <3>2 DEF DatasetRow
    <3>4. NoDataset.task = 0 /\ NoDataset.tests = {} /\ NoDataset.groups = {} /\ NoDataset.managers = {}
      BY DEF NoDataset
    <3>5. SUFFICES ASSUME bank.datasets[d] = NoDataset PROVE w = NoDataset
      BY <3>2
    <3>6. w.task = 0 /\ w.tests = {} /\ w.groups = {} /\ w.managers = {}
      BY <2>4, <3>2, <3>4, <3>5
    <3> QED BY <3>3, <3>6 DEF NoDataset
  <2> QED BY <2>2, <2>3, <2>4, <2>5, <2>6, DatasetTouched
<1> QED BY <1>1, <1>2, <1>3

\* Parameters that fit what was loaded are saved, perhaps with the row of
\* the task.
LEMMA ParamsSaved ==
    ASSUME ProblemsInv, NEW s \in Setters, NEW g \in SUBSET Codes, NEW b, Loaded(s), TaskForm(b, setting[s].task),
           SaveParams(s, g, b)
    PROVE  ProblemsInv'
<1>1. PICK r, t, d : r = setting[s] /\ t = setting[s].task /\ d = setting[s].dataset
  OBVIOUS
<1>2. PICK c : c = UpdateDataset(b, d, g)
  OBVIOUS
<1>3. /\ fits([r.set EXCEPT !.groups = g]) /\ Write(c)
      /\ loose' = IF ~Allowed(c) \/ bank.datasets[d] = NoDataset THEN loose
                  ELSE IF r.set.tests = bank.datasets[d].tests THEN loose \ {d} ELSE loose \cup {d}
      /\ pulled' = pulled \cup Moved(c, {t})
      /\ SetterDone(s) /\ UNCHANGED <<home, stripped>>
  BY <1>1, <1>2 DEF SaveParams
<1>4. r.at = "dataset" /\ TaskForm(b, t)
  BY <1>1 DEF Loaded
<1>5. t \in TaskIds /\ d \in DatasetIds /\ r.set \in DatasetRow
  BY <1>1, <1>4, SettingIs
<1>6. r.set.tests = {} \/ g \subseteq r.set.tests
  BY <1>3, <1>5 DEF fits, DatasetRow
<1>7. b \in Banks
  BY <1>4 DEF TaskForm
<1>8. /\ OnlyDataset(c, b, d)
      /\ IF b.datasets[d] = NoDataset THEN c.datasets[d] = NoDataset
         ELSE /\ c.datasets[d].task = b.datasets[d].task /\ c.datasets[d].tests = b.datasets[d].tests
              /\ c.datasets[d].groups = g
  BY <1>2, <1>5, <1>7, UpdateDatasetIs
<1>9. b.datasets = bank.datasets /\ TaskForm(b, t)
  BY <1>4 DEF TaskForm
<1>10. DOMAIN home = TaskIds /\ Allowed(bank)
  BY DEF ProblemsInv, BankShape
<1>11. CASE ~Allowed(c)
  <2>1. bank' = bank /\ pulled' = pulled /\ loose' = loose
    BY <1>3, <1>11 DEF Write, Moved
  <2> QED BY <1>3, <2>1, NothingTouched
<1>12. CASE Allowed(c)
  <2>1. bank' = c
    BY <1>3, <1>12 DEF Write
  <2>2. bank'.tasks = b.tasks
    BY <1>8, <2>1 DEF OnlyDataset
  <2>3. PlacesKept'
    <3>1. \A u \in {t} : b.tasks[u].contest # bank.tasks[u].contest => u \in pulled'
      BY <1>3, <1>12, <2>1, <2>2 DEF Moved
    <3>2. pulled \subseteq pulled' /\ home' = home /\ bank'.tasks \in {b.tasks, bank.tasks}
      BY <1>3, <2>2
    <3> QED BY <1>4, <1>5, <3>1, <3>2, FormPlaces
  <2>4. \A x \in DatasetIds \ {d} : bank'.datasets[x] = bank.datasets[x]
    BY <1>8, <1>9, <2>1 DEF OnlyDataset
  <2>5. IF bank.datasets[d] = NoDataset THEN bank'.datasets[d] = NoDataset
        ELSE /\ bank'.datasets[d].task = bank.datasets[d].task /\ bank'.datasets[d].tests = bank.datasets[d].tests
             /\ bank'.datasets[d].groups = g
    BY <1>8, <1>9, <2>1
  <2>6. ASSUME NEW x \in DatasetIds PROVE fits(bank'.datasets[x]) \/ x \in loose'
    <3>1. (fits(bank.datasets[x]) \/ x \in loose) /\ fits(NoDataset)
      BY DatasetIs
    <3>2. CASE x # d
      BY <1>3, <2>4, <3>1, <3>2
    <3>3. CASE x = d /\ bank.datasets[d] = NoDataset
      BY <2>5, <3>1, <3>3
    <3>4. CASE x = d /\ bank.datasets[d] # NoDataset
      <4>1. CASE r.set.tests = bank.datasets[d].tests
        BY <1>6, <2>5, <3>4, <4>1 DEF fits
      <4>2. CASE r.set.tests # bank.datasets[d].tests
        BY <1>3, <1>12, <3>4, <4>2
      <4> QED BY <4>1, <4>2
    <3> QED BY <3>2, <3>3, <3>4
  <2>7. ParamsFit'
    BY <2>6 DEF ParamsFit, fits
  <2>8. \A u \in TaskIds : /\ bank'.tasks[u].live = bank.tasks[u].live
                           /\ bank.tasks[u] = NoTask => bank'.tasks[u] = NoTask
    BY <1>4, <2>2 DEF TaskForm
  <2>9. \A x \in DatasetIds : /\ bank'.datasets[x].task = bank.datasets[x].task
                              /\ bank.datasets[x] = NoDataset => bank'.datasets[x] = NoDataset
    BY <2>4, <2>5
  <2>10. /\ bank' \in Banks /\ bank'.contests = bank.contests /\ bank'.lastTask = bank.lastTask
         /\ bank'.lastDataset = bank.lastDataset /\ bank'.lastContest = bank.lastContest
    BY <1>4, <1>8, <2>1 DEF OnlyDataset, TaskForm
  <2>11. DOMAIN home' = TaskIds /\ Allowed(bank')
    BY <1>3, <1>10, <1>12, <2>1
  <2> QED BY <1>3, <2>3, <2>7, <2>8, <2>9, <2>10, <2>11, RowsWritten
<1> QED BY <1>11, <1>12

\* handleDatasetUpdate, handleTaskOptions and the description applied.
LEMMA ParamsForms ==
    ASSUME ProblemsInv, NEW s \in Setters, handleDatasetUpdate(s) \/ handleTaskOptions(s) \/ ApplyConfig(s)
    PROVE  ProblemsInv'
<1>1. CASE handleDatasetUpdate(s)
  <2>1. PICK g \in SUBSET Codes : SaveParams(s, g, bank)
    BY <1>1 DEF handleDatasetUpdate
  <2>2. Loaded(s)
    BY <2>1 DEF SaveParams
  <2>3. TaskForm(bank, setting[s].task)
    BY <2>2, SettingIs, NoForm DEF Loaded
  <2> QED BY <2>1, <2>2, <2>3, ParamsSaved
<1>2. CASE handleTaskOptions(s) \/ ApplyConfig(s)
  <2>1. PICK r : r = setting[s]
    OBVIOUS
  <2>2. PICK g \in SUBSET Codes, n \in TaskNames :
           Loaded(s) /\ SaveParams(s, g, UpdateTask(bank, r.task, [r.row EXCEPT !.name = n]))
    BY <1>2, <2>1 DEF handleTaskOptions, ApplyConfig
  <2>3. r.task \in TaskIds /\ r.row \in TaskRow /\ Placed(r.row)
    BY <2>1, <2>2, SettingIs DEF Loaded
  <2>4. PICK row : row = [r.row EXCEPT !.name = n]
    OBVIOUS
  <2>5. row \in TaskRow /\ Placed(row)
    BY <2>3, <2>4 DEF TaskRow, Titles, Placed
  <2>6. PICK b : b = UpdateTask(bank, r.task, row)
    OBVIOUS
  <2>7. TaskForm(b, r.task)
    BY <2>3, <2>5, <2>6, FormWritten
  <2>8. SaveParams(s, g, b)
    BY <2>2, <2>4, <2>6
  <2> QED BY <2>1, <2>2, <2>7, <2>8, ParamsSaved
<1> QED BY <1>1, <1>2

\* What two writes to a dataset leave, they leave together.
LEMMA OnlyDatasetTwice ==
    ASSUME NEW b, NEW e, NEW f, NEW d, OnlyDataset(f, e, d), OnlyDataset(e, b, d)
    PROVE  OnlyDataset(f, b, d)
BY DEF OnlyDataset

\* Fill: the task and the dataset become the package's.
LEMMA Filled ==
    ASSUME ProblemsInv, NEW s \in Setters, Fill(s)
    PROVE  ProblemsInv'
<1>1. PICK p \in Packages, d \in DatasetIds :
         LET t == bank.datasets[d].task
             row == IF nameFree(bank, p.name, t) THEN [bank.tasks[t] EXCEPT !.name = p.name] ELSE bank.tasks[t]
         IN  /\ t # 0
             /\ bank' = writeDataset(DeleteDatasetManagers(DeleteDatasetTestcases(
                           UpdateDataset(UpdateTask(bank, t, row), d, p.groups), d), d), d, p)
             /\ loose' = loose \ {d}
             /\ UNCHANGED <<setting, home, pulled, stripped>>
  BY DEF Fill
<1>2. PICK t : t = bank.datasets[d].task
  OBVIOUS
<1>3. PICK row : row = IF nameFree(bank, p.name, t) THEN [bank.tasks[t] EXCEPT !.name = p.name] ELSE bank.tasks[t]
  OBVIOUS
<1>4. PICK b0, b1, b2, b3 : /\ b0 = UpdateTask(bank, t, row) /\ b1 = UpdateDataset(b0, d, p.groups)
                            /\ b2 = DeleteDatasetTestcases(b1, d) /\ b3 = DeleteDatasetManagers(b2, d)
  OBVIOUS
<1>5. t # 0 /\ bank' = writeDataset(b3, d, p) /\ loose' = loose \ {d} /\ UNCHANGED <<setting, home, pulled, stripped>>
  BY <1>1, <1>2, <1>3, <1>4
<1>6. bank.datasets[d] \in DatasetRow /\ bank.datasets[d] # NoDataset /\ t \in TaskIds
  BY <1>2, <1>5, DatasetIs DEF DatasetRow
<1>7. /\ bank.tasks[t] \in TaskRow /\ Placed(bank.tasks[t]) /\ p.name \in Titles
      /\ p.groups \in SUBSET Codes /\ p.groups \subseteq p.tests
  <2>1. Placed(NoTask)
    BY NoRowsOfBank DEF Placed
  <2> QED BY <1>6, <2>1, BankIs, ProblemsAssumption DEF Titles
<1>8. row \in TaskRow /\ row.contest = bank.tasks[t].contest /\ row.num = bank.tasks[t].num
      /\ row.name = IF nameFree(bank, p.name, t) THEN p.name ELSE bank.tasks[t].name
  <2>1. CASE nameFree(bank, p.name, t)
    <3>1. row = [bank.tasks[t] EXCEPT !.name = p.name]
      BY <1>3, <2>1
    <3> QED BY <1>7, <2>1, <3>1 DEF TaskRow
  <2>2. CASE ~nameFree(bank, p.name, t)
    BY <1>3, <1>7, <2>2
  <2> QED BY <2>1, <2>2
<1>9. Placed(row)
  BY <1>7, <1>8 DEF Placed
<1>10. TaskForm(b0, t) /\ (bank.tasks[t] # NoTask => /\ b0.tasks[t].name = row.name /\ b0.tasks[t].contest = row.contest
                                                    /\ b0.tasks[t].num = row.num)
  <2>1. TaskForm(b0, t)
    BY <1>4, <1>6, <1>8, <1>9, FormWritten
  <2>2. PICK T : /\ TasksOf(b0, bank, T)
                 /\ IF bank.tasks[t] = NoTask THEN T[t] = NoTask
                    ELSE T[t].name = row.name /\ T[t].contest = row.contest /\ T[t].num = row.num
    BY <1>4, <1>6, <1>8, BankIs, UpdateTaskIs
  <2> QED BY <2>1, <2>2 DEF TasksOf
<1>11. b0 \in Banks /\ b0.datasets = bank.datasets
  BY <1>10 DEF TaskForm
<1>12. /\ OnlyDataset(b1, b0, d) /\ b1.datasets[d].task = t /\ b1.datasets[d].groups = p.groups
  <2>1. /\ OnlyDataset(b1, b0, d)
        /\ IF b0.datasets[d] = NoDataset THEN b1.datasets[d] = NoDataset
           ELSE /\ b1.datasets[d].task = b0.datasets[d].task /\ b1.datasets[d].tests = b0.datasets[d].tests
                /\ b1.datasets[d].groups = p.groups
    BY <1>4, <1>7, <1>11, UpdateDatasetIs
  <2> QED BY <2>1, <1>2, <1>6, <1>11
<1>13. b1 \in Banks
  BY <1>12 DEF OnlyDataset
<1>14. /\ OnlyDataset(b2, b1, d) /\ b2.datasets[d].task = t /\ b2.datasets[d].groups = p.groups
       /\ b2.datasets[d].tests = {}
  BY <1>4, <1>12, <1>13, DeleteTestcaseIs
<1>15. b2 \in Banks
  BY <1>14 DEF OnlyDataset
<1>16. /\ OnlyDataset(b3, b2, d) /\ b3.datasets[d].task = t /\ b3.datasets[d].groups = p.groups
       /\ b3.datasets[d].tests = {}
  BY <1>4, <1>14, <1>15, DeleteDatasetManagersIs
<1>17. b3 \in Banks
  BY <1>16 DEF OnlyDataset
<1>18. /\ OnlyDataset(bank', b3, d) /\ bank'.datasets[d].task = t /\ bank'.datasets[d].groups = p.groups
       /\ bank'.datasets[d].tests = p.tests
  <2>1. /\ OnlyDataset(bank', b3, d) /\ bank'.datasets[d].task = b3.datasets[d].task
        /\ bank'.datasets[d].groups = b3.datasets[d].groups /\ bank'.datasets[d].tests = b3.datasets[d].tests \cup p.tests
    BY <1>5, <1>17, writeDatasetIs
  <2> QED BY <2>1, <1>16
<1>19. OnlyDataset(bank', b0, d)
  BY <1>12, <1>14, <1>16, <1>18, OnlyDatasetTwice
<1>20. bank'.tasks = b0.tasks
  BY <1>19 DEF OnlyDataset
<1>21. \A x \in DatasetIds \ {d} : bank'.datasets[x] = bank.datasets[x]
  BY <1>11, <1>19 DEF OnlyDataset
<1>22. \A u \in TaskIds : /\ bank'.tasks[u].live = bank.tasks[u].live
                          /\ bank.tasks[u] = NoTask => bank'.tasks[u] = NoTask
                          /\ u # t => bank'.tasks[u] = bank.tasks[u]
  BY <1>10, <1>20 DEF TaskForm
<1>23. bank.tasks[t] # NoTask => /\ bank'.tasks[t].contest = bank.tasks[t].contest
                                 /\ bank'.tasks[t].num = bank.tasks[t].num
                                 /\ bank'.tasks[t].name = row.name
  BY <1>8, <1>10, <1>20
<1>24. /\ bank' \in Banks /\ bank'.contests = bank.contests /\ bank'.lastTask = bank.lastTask
       /\ bank'.lastDataset = bank.lastDataset /\ bank'.lastContest = bank.lastContest
  BY <1>10, <1>19 DEF OnlyDataset, TaskForm
<1>25. \A u \in Tasks(bank)' : /\ u \in Tasks(bank) /\ bank'.tasks[u].contest = bank.tasks[u].contest
                               /\ bank'.tasks[u].num = bank.tasks[u].num
                               /\ bank'.tasks[u].name = IF u = t THEN row.name ELSE bank.tasks[u].name
  BY <1>22, <1>23 DEF Tasks
<1>26. \A u \in Tasks(bank) : u # t => row.name # bank.tasks[u].name \/ t \notin Tasks(bank)
  <2>1. ASSUME NEW u \in Tasks(bank), u # t, t \in Tasks(bank) PROVE row.name # bank.tasks[u].name
    <3>1. bank.tasks[u].name # bank.tasks[t].name
      BY <2>1 DEF ProblemsInv, Allowed
    <3>2. nameFree(bank, p.name, t) => bank.tasks[u].name # p.name
      BY <2>1 DEF nameFree, GetTaskByName
    <3> QED BY <1>8, <3>1, <3>2
  <2> QED BY <2>1
<1>27. Allowed(bank')
  <2>1. ASSUME NEW u \in Tasks(bank)', NEW v \in Tasks(bank)', u # v
        PROVE  /\ bank'.tasks[u].name # bank'.tasks[v].name
               /\ bank'.tasks[u].contest # 0 /\ bank'.tasks[u].contest = bank'.tasks[v].contest
                     /\ bank'.tasks[u].num # -1 => bank'.tasks[u].num # bank'.tasks[v].num
    <3>1. u \in Tasks(bank) /\ v \in Tasks(bank)
      BY <1>25
    <3>2. /\ bank.tasks[u].name # bank.tasks[v].name
          /\ bank.tasks[u].contest # 0 /\ bank.tasks[u].contest = bank.tasks[v].contest
                /\ bank.tasks[u].num # -1 => bank.tasks[u].num # bank.tasks[v].num
      BY <2>1, <3>1 DEF ProblemsInv, Allowed
    <3>3. bank'.tasks[u].name # bank'.tasks[v].name
      BY <1>25, <1>26, <2>1, <3>1, <3>2
    <3> QED BY <1>25, <3>2, <3>3
  <2>2. \A u \in Tasks(bank)' : bank'.tasks[u].contest \in bank'.contests \cup {0}
    BY <1>24, <1>25 DEF ProblemsInv, Allowed
  <2> QED BY <2>1, <2>2 DEF Allowed, Tasks
<1>28. PlacesKept'
  BY <1>5, <1>25 DEF ProblemsInv, PlacesKept
<1>29. ParamsFit'
  <2>1. ASSUME NEW x \in DatasetIds PROVE fits(bank'.datasets[x]) \/ x \in loose'
    <3>1. fits(bank.datasets[x]) \/ x \in loose
      BY DatasetIs
    <3>2. x = d => fits(bank'.datasets[x])
      BY <1>7, <1>18 DEF fits
    <3> QED BY <1>5, <1>21, <3>1, <3>2
  <2> QED BY <2>1 DEF ParamsFit, fits
<1>30. \A x \in DatasetIds : /\ bank'.datasets[x].task = bank.datasets[x].task
                             /\ bank.datasets[x] = NoDataset => bank'.datasets[x] = NoDataset
  BY <1>2, <1>6, <1>18, <1>21
<1>31. DOMAIN home' = TaskIds
  BY <1>5 DEF ProblemsInv, BankShape
<1> QED BY <1>5, <1>22, <1>24, <1>27, <1>28, <1>29, <1>30, <1>31, RowsWritten

\* Datasets come, go or become live, and tasks keep their names and places.
LEMMA DatasetsWritten ==
    ASSUME ProblemsInv, NEW s \in Setters, SetterDone(s) \/ setting' = setting,
           bank' \in Banks, bank'.contests = bank.contests, bank'.lastDataset >= bank.lastDataset,
           \A t \in TaskIds : bank'.tasks[t] # NoTask =>
              /\ bank.tasks[t] # NoTask /\ bank'.tasks[t].name = bank.tasks[t].name
              /\ bank'.tasks[t].contest = bank.tasks[t].contest /\ bank'.tasks[t].num = bank.tasks[t].num,
           \A d \in DatasetIds : d <= bank.lastDataset => bank'.datasets[d].task \in {0, bank.datasets[d].task},
           UNCHANGED <<home, pulled>>, IdsUnused', Owned', LiveIsOwn', ParamsFit'
    PROVE  ProblemsInv'
<1>1. SettingsFit' /\ DOMAIN setting' = Setters
  <2>1. bank'.lastDataset \in Nat
    BY DEF Banks
  <2> QED BY <2>1, SettingsStay
<1>2. BankShape'
  BY <1>1 DEF ProblemsInv, BankShape
<1>3. Allowed(bank')
  <2>1. \A u \in TaskIds : bank.tasks[u] # NoTask => bank.tasks[u].contest \in bank.contests \cup {0}
    BY DEF ProblemsInv, Allowed, Tasks
  <2> QED BY <2>1, AllowedFewer
<1>4. PlacesKept'
  BY DEF ProblemsInv, PlacesKept, Tasks
<1> QED BY <1>1, <1>2, <1>3, <1>4 DEF ProblemsInv

\* handleDatasetActivate: a dataset of the task that is there.
LEMMA DatasetActivated ==
    ASSUME ProblemsInv, NEW s \in Setters, handleDatasetActivate(s)
    PROVE  ProblemsInv'
<1>1. PICK t, d : t = setting[s].task /\ d = setting[s].dataset
  OBVIOUS
<1>2. /\ setting[s].at = "dataset"
      /\ IF bank.datasets[d] # NoDataset
         THEN bank' = SetActiveDataset(bank, t, d) /\ stripped' = stripped \ {t}
         ELSE UNCHANGED <<bank, stripped>>
      /\ SetterDone(s) /\ UNCHANGED <<home, pulled, loose>>
  BY <1>1 DEF handleDatasetActivate, Loaded
<1>3. t \in TaskIds /\ d \in DatasetIds /\ bank.datasets[d].task \in {0, t} /\ d # 0
  BY <1>1, <1>2, SettingIs, ProblemIds
<1>4. CASE bank.datasets[d] = NoDataset
  BY <1>2, <1>4, NothingTouched
<1>5. CASE bank.datasets[d] # NoDataset
  <2>1. bank.datasets[d].task = t
    BY <1>3, <1>5, DatasetIs
  <2>2. PICK T : /\ TasksOf(bank', bank, T) /\ \A u \in TaskIds \ {t} : T[u] = bank.tasks[u]
                 /\ IF bank.tasks[t] = NoTask THEN T[t] = NoTask
                    ELSE /\ T[t].live = d /\ T[t].name = bank.tasks[t].name /\ T[t].contest = bank.tasks[t].contest
                         /\ T[t].num = bank.tasks[t].num
    BY <1>2, <1>3, <1>5, BankIs, SetActiveDatasetIs
  <2>3. /\ bank' \in Banks /\ bank'.contests = bank.contests /\ bank'.tasks = T /\ bank'.datasets = bank.datasets
        /\ bank'.lastTask = bank.lastTask /\ bank'.lastDataset = bank.lastDataset /\ bank'.lastContest = bank.lastContest
    BY <2>2 DEF TasksOf
  <2>4. IdsUnused'
    BY <2>2, <2>3 DEF ProblemsInv, IdsUnused
  <2>5. Owned' /\ ParamsFit'
    BY <1>2, <2>3 DEF ProblemsInv, Owned, ParamsFit
  <2>6. LiveIsOwn'
    <3>1. ASSUME NEW u \in Tasks(bank)'
          PROVE  IF bank'.tasks[u].live = 0 THEN u \in stripped' ELSE bank'.datasets[bank'.tasks[u].live].task = u
      <4>1. u \in TaskIds /\ T[u] # NoTask
        BY <2>3 DEF Tasks
      <4>2. CASE u = t
        BY <1>3, <2>1, <2>2, <2>3, <4>1, <4>2
      <4>3. CASE u # t
        <5>1. T[u] = bank.tasks[u] /\ u \in Tasks(bank)
          BY <2>2, <4>1, <4>3 DEF Tasks
        <5>2. IF bank.tasks[u].live = 0 THEN u \in stripped ELSE bank.datasets[bank.tasks[u].live].task = u
          BY <5>1 DEF ProblemsInv, LiveIsOwn
        <5> QED BY <1>2, <1>5, <2>3, <4>3, <5>1, <5>2
      <4> QED BY <4>2, <4>3
    <3> QED BY <3>1 DEF LiveIsOwn
  <2>7. bank'.lastDataset >= bank.lastDataset
    BY <2>3, BankIs
  <2>8. \A u \in TaskIds : bank'.tasks[u] # NoTask =>
              /\ bank.tasks[u] # NoTask /\ bank'.tasks[u].name = bank.tasks[u].name
              /\ bank'.tasks[u].contest = bank.tasks[u].contest /\ bank'.tasks[u].num = bank.tasks[u].num
    BY <2>2, <2>3
  <2>9. \A x \in DatasetIds : bank'.datasets[x].task \in {0, bank.datasets[x].task}
    BY <2>3
  <2> QED BY <1>2, <2>3, <2>4, <2>5, <2>6, <2>7, <2>8, <2>9, DatasetsWritten
<1> QED BY <1>4, <1>5

\* handleDatasetDelete: a task that had it live since it was loaded is
\* stripped.
LEMMA DatasetDeleted ==
    ASSUME ProblemsInv, NEW s \in Setters, handleDatasetDelete(s)
    PROVE  ProblemsInv'
<1>1. PICK d : d = setting[s].dataset
  OBVIOUS
<1>2. /\ setting[s].at = "dataset" /\ setting[s].row.live # d /\ bank' = DeleteDataset(bank, d)
      /\ stripped' = stripped \cup {t \in Tasks(bank) : bank.tasks[t].live = d /\ setting[s].row.live # d}
      /\ loose' = loose \ {d} /\ SetterDone(s) /\ UNCHANGED <<home, pulled>>
  BY <1>1 DEF handleDatasetDelete, Loaded, MayDelete
<1>3. d \in DatasetIds /\ d # 0
  BY <1>1, <1>2, SettingIs, ProblemIds
<1>4. /\ bank' \in Banks /\ bank'.contests = bank.contests
      /\ bank'.lastTask = bank.lastTask /\ bank'.lastDataset = bank.lastDataset /\ bank'.lastContest = bank.lastContest
      /\ bank'.datasets[d] = NoDataset /\ \A x \in DatasetIds \ {d} : bank'.datasets[x] = bank.datasets[x]
      /\ \A t \in TaskIds : /\ bank.tasks[t].live # d => bank'.tasks[t] = bank.tasks[t]
                            /\ bank'.tasks[t].live = IF bank.tasks[t].live = d THEN 0 ELSE bank.tasks[t].live
                            /\ bank'.tasks[t].name = bank.tasks[t].name /\ bank'.tasks[t].contest = bank.tasks[t].contest
                            /\ bank'.tasks[t].num = bank.tasks[t].num
  BY <1>2, <1>3, BankIs, DeleteDatasetIs
<1>5. NoTask.live = 0 /\ NoDataset.task = 0 /\ fits(NoDataset)
  BY NoRowsOfBank
<1>6. \A t \in TaskIds : bank.tasks[t] = NoTask => bank'.tasks[t] = NoTask
  BY <1>3, <1>4, <1>5
<1>7. IdsUnused' /\ Owned'
  BY <1>4, <1>6 DEF ProblemsInv, IdsUnused, Owned
<1>8. ParamsFit'
  <2>1. ASSUME NEW x \in DatasetIds PROVE fits(bank'.datasets[x]) \/ x \in loose'
    <3>1. fits(bank.datasets[x]) \/ x \in loose
      BY DatasetIs
    <3> QED BY <1>2, <1>4, <1>5, <3>1
  <2> QED BY <2>1 DEF ParamsFit, fits
<1>9. LiveIsOwn'
  <2>1. ASSUME NEW u \in Tasks(bank)'
        PROVE  IF bank'.tasks[u].live = 0 THEN u \in stripped' ELSE bank'.datasets[bank'.tasks[u].live].task = u
    <3>1. u \in TaskIds /\ u \in Tasks(bank)
      BY <1>6 DEF Tasks
    <3>2. IF bank.tasks[u].live = 0 THEN u \in stripped ELSE bank.datasets[bank.tasks[u].live].task = u
      BY <3>1 DEF ProblemsInv, LiveIsOwn
    <3>3. bank.tasks[u].live \in DatasetIds \cup {0}
      BY <3>1, BankIs DEF TaskRow
    <3>4. CASE bank.tasks[u].live = d
      BY <1>2, <1>4, <3>1, <3>4
    <3>5. CASE bank.tasks[u].live # d
      BY <1>2, <1>4, <3>1, <3>2, <3>3, <3>5
    <3> QED BY <3>4, <3>5
  <2> QED BY <2>1 DEF LiveIsOwn
<1>10. bank'.lastDataset >= bank.lastDataset
  BY <1>4, BankIs
<1>11. \A u \in TaskIds : bank'.tasks[u] # NoTask =>
             /\ bank.tasks[u] # NoTask /\ bank'.tasks[u].name = bank.tasks[u].name
             /\ bank'.tasks[u].contest = bank.tasks[u].contest /\ bank'.tasks[u].num = bank.tasks[u].num
  BY <1>4, <1>6
<1>12. \A x \in DatasetIds : bank'.datasets[x].task \in {0, bank.datasets[x].task}
  BY <1>4, <1>5
<1> QED BY <1>2, <1>4, <1>7, <1>8, <1>9, <1>10, <1>11, <1>12, DatasetsWritten

\* A new dataset of a task that is not live yet.
LEMMA DatasetAdded ==
    ASSUME ProblemsInv, NEW s \in Setters, SetterDone(s) \/ setting' = setting,
           NEW d \in DatasetIds, d = bank.lastDataset + 1, bank' \in Banks, bank'.tasks = bank.tasks,
           bank'.contests = bank.contests, bank'.lastTask = bank.lastTask, bank'.lastContest = bank.lastContest,
           bank'.lastDataset = d, \A x \in DatasetIds \ {d} : bank'.datasets[x] = bank.datasets[x],
           bank'.datasets[d].task \in TaskIds, fits(bank'.datasets[d]) \/ d \in loose',
           loose \subseteq loose', UNCHANGED <<home, pulled, stripped>>
    PROVE  ProblemsInv'
<1>1. d \in Nat /\ bank.lastDataset \in Nat /\ (\A x \in DatasetIds : x \in Nat) /\ (\A t \in TaskIds : t # 0)
  BY ProblemIds, BankIs
<1>2. IdsUnused'
  BY <1>1 DEF ProblemsInv, IdsUnused
<1>3. Owned'
  BY <1>1 DEF ProblemsInv, Owned
<1>4. ParamsFit'
  <2>1. ASSUME NEW x \in DatasetIds PROVE fits(bank'.datasets[x]) \/ x \in loose'
    <3>1. fits(bank.datasets[x]) \/ x \in loose
      BY DatasetIs
    <3> QED BY <3>1
  <2> QED BY <2>1 DEF ParamsFit, fits
<1>5. LiveIsOwn'
  <2>1. ASSUME NEW u \in Tasks(bank)'
        PROVE  IF bank'.tasks[u].live = 0 THEN u \in stripped' ELSE bank'.datasets[bank'.tasks[u].live].task = u
    <3>1. u \in TaskIds /\ u \in Tasks(bank)
      BY DEF Tasks
    <3>2. IF bank.tasks[u].live = 0 THEN u \in stripped ELSE bank.datasets[bank.tasks[u].live].task = u
      BY <3>1 DEF ProblemsInv, LiveIsOwn
    <3>3. bank.tasks[u].live \in DatasetIds \cup {0}
      BY <3>1, BankIs DEF TaskRow
    <3>4. bank.tasks[u].live # d
      <4>1. bank.datasets[d] = NoDataset /\ NoDataset.task = 0
        BY <1>1, NoRowsOfBank DEF ProblemsInv, IdsUnused
      <4> QED BY <1>1, <3>1, <3>2, <4>1
    <3> QED BY <3>1, <3>2, <3>3, <3>4
  <2> QED BY <2>1 DEF LiveIsOwn
<1>6. bank'.lastDataset >= bank.lastDataset
  BY <1>1
<1>7. \A x \in DatasetIds : x <= bank.lastDataset => bank'.datasets[x].task \in {0, bank.datasets[x].task}
  BY <1>1
<1> QED BY <1>2, <1>3, <1>4, <1>5, <1>6, <1>7, DatasetsWritten

\* FreshDataset: the id after the last one.
LEMMA FreshDatasetIs ==
    ASSUME ProblemsInv, NEW d, d = FreshDataset(bank), d # 0
    PROVE  d \in DatasetIds /\ d = bank.lastDataset + 1 /\ d \in Nat /\ bank.lastDataset \in Nat
<1>1. d \in DatasetIds /\ d = bank.lastDataset + 1
  BY DEF FreshDataset
<1> QED BY <1>1, ProblemIds, BankIs

\* FreshTask: the id after the last one.
LEMMA FreshTaskIs ==
    ASSUME ProblemsInv, NEW t, t = FreshTask(bank), t # 0
    PROVE  t \in TaskIds /\ t = bank.lastTask + 1 /\ t \in Nat /\ bank.lastTask \in Nat
<1>1. t \in TaskIds /\ t = bank.lastTask + 1
  BY DEF FreshTask
<1> QED BY <1>1, ProblemIds, BankIs

\* handleDatasetCreate: an empty dataset, or a copy of what was loaded and
\* what is there now.
LEMMA DatasetCreated ==
    ASSUME ProblemsInv, NEW s \in Setters, handleDatasetCreate(s)
    PROVE  ProblemsInv'
<1>1. PICK r, d, f : r = setting[s] /\ d = FreshDataset(bank) /\ f = setting[s].dataset
  OBVIOUS
<1>2. PICK clone \in BOOLEAN :
        /\ r.at = "dataset" /\ d # 0
        /\ IF bank.tasks[r.task] # NoTask
           THEN /\ bank' = IF clone THEN CloneDatasetContents(CreateDataset(bank, d,
                                             [NoDataset EXCEPT !.task = r.task,
                                                               !.groups = IF clone THEN r.set.groups ELSE {}]), f, d)
                           ELSE CreateDataset(bank, d, [NoDataset EXCEPT !.task = r.task,
                                                               !.groups = IF clone THEN r.set.groups ELSE {}])
                /\ loose' = IF clone /\ (bank.datasets[f] # r.set \/ f \in loose) THEN loose \cup {d} ELSE loose
           ELSE UNCHANGED <<bank, loose>>
        /\ SetterDone(s) /\ UNCHANGED <<home, pulled, stripped>>
  BY <1>1, Zenon DEF handleDatasetCreate, Loaded, Unmoved
<1>3. /\ r.task \in TaskIds /\ f \in DatasetIds /\ f <= bank.lastDataset /\ r.set \in DatasetRow
      /\ d \in DatasetIds /\ d = bank.lastDataset + 1 /\ d \in Nat /\ bank.lastDataset \in Nat /\ f \in Nat
  BY <1>1, <1>2, SettingIs, FreshDatasetIs, ProblemIds
<1>4. PICK g : g = IF clone THEN r.set.groups ELSE {}
  OBVIOUS
<1>5. g \in SUBSET Codes
  BY <1>3, <1>4 DEF DatasetRow
<1>6. PICK w : w = [NoDataset EXCEPT !.task = r.task, !.groups = g]
  OBVIOUS
<1>7. w \in DatasetRow /\ w.task = r.task /\ w.groups = g /\ w.tests = {}
  BY <1>3, <1>5, <1>6, NoRowsOfBank DEF DatasetRow, NoDataset
<1>8. CASE bank.tasks[r.task] = NoTask
  BY <1>2, <1>8, NothingTouched
<1>9. CASE bank.tasks[r.task] # NoTask
  <2>1. PICK m : m = CreateDataset(bank, d, w)
    OBVIOUS
  <2>2. /\ m \in Banks /\ m.tasks = bank.tasks /\ m.contests = bank.contests /\ m.lastTask = bank.lastTask
        /\ m.lastContest = bank.lastContest /\ m.lastDataset = d
        /\ m.datasets[d] = w /\ \A x \in DatasetIds \ {d} : m.datasets[x] = bank.datasets[x]
    <3>1. bank \in Banks /\ d \in DatasetIds /\ w \in DatasetRow
      BY <1>3, <1>7, BankIs
    <3> QED BY <3>1, <2>1, CreateDatasetIs
  <2>3. /\ bank' = IF clone THEN CloneDatasetContents(m, f, d) ELSE m
        /\ loose' = IF clone /\ (bank.datasets[f] # r.set \/ f \in loose) THEN loose \cup {d} ELSE loose
    BY <1>2, <1>4, <1>6, <1>9, <2>1, Zenon
  <2>4. /\ bank' \in Banks /\ bank'.tasks = bank.tasks
        /\ bank'.contests = bank.contests /\ bank'.lastTask = bank.lastTask /\ bank'.lastContest = bank.lastContest
        /\ bank'.lastDataset = d /\ \A x \in DatasetIds \ {d} : bank'.datasets[x] = bank.datasets[x]
        /\ bank'.datasets[d].task = r.task
        /\ fits(bank'.datasets[d]) \/ d \in loose'
    <3>1. CASE ~clone
      <4>1. bank' = m
        BY <2>3, <3>1
      <4>2. fits(w)
        BY <1>7 DEF fits
      <4> QED BY <1>7, <2>2, <4>1, <4>2
    <3>2. CASE clone
      <4>1. bank' = CloneDatasetContents(m, f, d)
        BY <2>3, <3>2
      <4>2. PICK e : e = CloneDatasetContents(m, f, d)
        OBVIOUS
      <4>3. /\ OnlyDataset(e, m, d) /\ e.datasets[d].task = m.datasets[d].task
            /\ e.datasets[d].groups = m.datasets[d].groups /\ e.datasets[d].tests = m.datasets[f].tests
        BY <1>3, <2>2, <4>2, CloneDatasetContentsIs
      <4>4. f # d /\ m.datasets[f] = bank.datasets[f]
        BY <1>3, <2>2
      <4>5. fits(e.datasets[d]) \/ d \in loose'
        <5>1. CASE bank.datasets[f] # r.set \/ f \in loose
          BY <2>3, <3>2, <5>1
        <5>2. CASE bank.datasets[f] = r.set /\ f \notin loose
          <6>1. fits(bank.datasets[f])
            BY <1>3, <5>2, DatasetIs
          <6>2. g = r.set.groups
            BY <1>4, <3>2
          <6>3. e.datasets[d].groups = r.set.groups /\ e.datasets[d].tests = r.set.tests
            BY <1>7, <2>2, <4>3, <4>4, <5>2, <6>2
          <6> QED BY <5>2, <6>1, <6>3 DEF fits
        <5> QED BY <5>1, <5>2
      <4>6. bank' = e
        BY <4>1, <4>2
      <4> QED BY <1>7, <2>2, <4>3, <4>5, <4>6 DEF OnlyDataset
    <3> QED BY <3>1, <3>2
  <2>5. loose \subseteq loose' /\ bank'.datasets[d].task \in TaskIds
    BY <1>3, <2>3, <2>4
  <2> QED BY <1>2, <1>3, <2>4, <2>5, DatasetAdded
<1> QED BY <1>8, <1>9

\* A row more in the tables that takes no name and no place of another one.
LEMMA AllowedNew ==
    ASSUME Allowed(bank), NEW t \in TaskIds, NEW e, \A u \in TaskIds \ {t} : e.tasks[u] = bank.tasks[u],
           bank.contests \subseteq e.contests,
           e.tasks[t] # NoTask =>
              /\ e.tasks[t].contest \in e.contests \cup {0}
              /\ \A u \in Tasks(bank) : /\ bank.tasks[u].name # e.tasks[t].name
                                        /\ e.tasks[t].contest # 0 /\ bank.tasks[u].contest = e.tasks[t].contest
                                              => bank.tasks[u].num # e.tasks[t].num
    PROVE  Allowed(e)
<1>1. \A u \in Tasks(e) : u # t => u \in Tasks(bank) /\ e.tasks[u] = bank.tasks[u]
  BY DEF Tasks
<1>2. t \in Tasks(e) => e.tasks[t] # NoTask
  BY DEF Tasks
<1>3. ASSUME NEW x \in Tasks(e), NEW y \in Tasks(e), x # y
      PROVE  /\ e.tasks[x].name # e.tasks[y].name
             /\ e.tasks[x].contest # 0 /\ e.tasks[x].contest = e.tasks[y].contest /\ e.tasks[x].num # -1
                   => e.tasks[x].num # e.tasks[y].num
  <2>1. CASE x # t /\ y # t
    BY <1>1, <1>3, <2>1 DEF Allowed
  <2>2. CASE x = t
    BY <1>1, <1>2, <1>3, <2>2
  <2>3. CASE y = t
    BY <1>1, <1>2, <1>3, <2>3
  <2> QED BY <2>1, <2>2, <2>3
<1>4. \A u \in Tasks(e) : e.tasks[u].contest \in e.contests \cup {0}
  BY <1>1, <1>2 DEF Allowed
<1> QED BY <1>3, <1>4 DEF Allowed

\* Tables e with a new task t and its live dataset d, which fits.
Born(e, t, d, c) ==
    /\ e \in Banks /\ e.contests = bank.contests /\ e.lastTask = t /\ e.lastDataset = d
    /\ e.lastContest = bank.lastContest
    /\ \A u \in TaskIds \ {t} : e.tasks[u] = bank.tasks[u]
    /\ \A x \in DatasetIds \ {d} : e.datasets[x] = bank.datasets[x]
    /\ e.tasks[t] = NoTask \/ (e.tasks[t].live = d /\ e.tasks[t].contest = c /\ Placed(e.tasks[t]))
    /\ e.datasets[d].task = t /\ fits(e.datasets[d])

\* A new task takes its step.
LEMMA TaskNew ==
    ASSUME ProblemsInv, NEW s \in Setters, SetterDone(s) \/ setting' = setting,
           NEW t \in TaskIds, t = bank.lastTask + 1, NEW d \in DatasetIds, d = bank.lastDataset + 1,
           NEW c, Born(bank', t, d, c), Allowed(bank'), home' = [home EXCEPT ![t] = c],
           UNCHANGED <<pulled, stripped, loose>>
    PROVE  ProblemsInv'
<1>1. /\ t \in Nat /\ d \in Nat /\ bank.lastTask \in Nat /\ bank.lastDataset \in Nat
      /\ (\A x \in DatasetIds : x \in Nat /\ x # 0) /\ (\A u \in TaskIds : u \in Nat /\ u # 0)
  BY ProblemIds, BankIs
<1>2. /\ bank' \in Banks /\ bank'.contests = bank.contests /\ bank'.lastTask = t /\ bank'.lastDataset = d
      /\ bank'.lastContest = bank.lastContest
      /\ (\A u \in TaskIds \ {t} : bank'.tasks[u] = bank.tasks[u])
      /\ (\A x \in DatasetIds \ {d} : bank'.datasets[x] = bank.datasets[x])
      /\ bank'.tasks[t] = NoTask \/ (bank'.tasks[t].live = d /\ bank'.tasks[t].contest = c /\ Placed(bank'.tasks[t]))
      /\ bank'.datasets[d].task = t /\ fits(bank'.datasets[d])
  BY DEF Born
<1>3. DOMAIN home = TaskIds
  BY DEF ProblemsInv, BankShape
<1>4. DOMAIN home' = TaskIds /\ home'[t] = c /\ \A u \in TaskIds \ {t} : home'[u] = home[u]
  BY <1>3
<1>5. SettingsFit' /\ DOMAIN setting' = Setters
  <2>1. bank'.lastDataset \in Nat /\ bank'.lastDataset >= bank.lastDataset
    BY <1>1, <1>2
  <2>2. \A x \in DatasetIds : x <= bank.lastDataset => bank'.datasets[x].task \in {0, bank.datasets[x].task}
    BY <1>1, <1>2
  <2> QED BY <2>1, <2>2, SettingsStay
<1>6. BankShape'
  BY <1>2, <1>4, <1>5 DEF BankShape
<1>7. IdsUnused'
  BY <1>1, <1>2 DEF ProblemsInv, IdsUnused
<1>8. Owned'
  BY <1>1, <1>2 DEF ProblemsInv, Owned
<1>9. ParamsFit'
  <2>1. ASSUME NEW x \in DatasetIds PROVE fits(bank'.datasets[x]) \/ x \in loose'
    <3>1. fits(bank.datasets[x]) \/ x \in loose
      BY DatasetIs
    <3> QED BY <1>2, <3>1
  <2> QED BY <2>1 DEF ParamsFit, fits
<1>10. ASSUME NEW u \in Tasks(bank)'
       PROVE  /\ IF bank'.tasks[u].live = 0 THEN u \in stripped' ELSE bank'.datasets[bank'.tasks[u].live].task = u
              /\ bank'.tasks[u].contest = home'[u] \/ u \in pulled'
              /\ Placed(bank'.tasks[u])
  <2>1. u \in TaskIds /\ bank'.tasks[u] # NoTask
    BY DEF Tasks
  <2>2. CASE u = t
    BY <1>1, <1>2, <1>4, <2>1, <2>2
  <2>3. CASE u # t
    <3>1. bank'.tasks[u] = bank.tasks[u] /\ u \in Tasks(bank)
      BY <1>2, <2>1, <2>3 DEF Tasks
    <3>2. IF bank.tasks[u].live = 0 THEN u \in stripped ELSE bank.datasets[bank.tasks[u].live].task = u
      BY <3>1 DEF ProblemsInv, LiveIsOwn
    <3>3. bank.tasks[u].live \in DatasetIds \cup {0}
      BY <2>1, BankIs DEF TaskRow
    <3>4. bank.tasks[u].live # d
      <4>1. bank.datasets[d] = NoDataset /\ NoDataset.task = 0
        BY <1>1, NoRowsOfBank DEF ProblemsInv, IdsUnused
      <4> QED BY <1>1, <2>1, <3>2, <4>1
    <3>5. (bank.tasks[u].contest = home[u] \/ u \in pulled) /\ Placed(bank.tasks[u])
      BY <3>1 DEF ProblemsInv, PlacesKept, Placed
    <3>6. IF bank'.tasks[u].live = 0 THEN u \in stripped' ELSE bank'.datasets[bank'.tasks[u].live].task = u
      <4>1. PICK l : l = bank.tasks[u].live
        OBVIOUS
      <4>2. bank'.tasks[u].live = l /\ l \in DatasetIds \cup {0} /\ l # d
        BY <3>1, <3>3, <3>4, <4>1
      <4>3. l \in DatasetIds => bank'.datasets[l] = bank.datasets[l]
        BY <1>2, <4>2
      <4>4. IF l = 0 THEN u \in stripped ELSE bank.datasets[l].task = u
        BY <3>2, <4>1
      <4> QED BY <4>2, <4>3, <4>4
    <3> QED BY <1>4, <2>1, <2>3, <3>1, <3>5, <3>6
  <2> QED BY <2>2, <2>3
<1>11. LiveIsOwn'
  BY <1>10 DEF LiveIsOwn
<1>12. PlacesKept'
  BY <1>10 DEF PlacesKept, Placed
<1> QED BY <1>5, <1>6, <1>7, <1>8, <1>9, <1>11, <1>12 DEF ProblemsInv

\* SetActiveDataset of a new task with a dataset of its own.
LEMMA TaskBorn ==
    ASSUME ProblemsInv, NEW t \in TaskIds, NEW d \in DatasetIds, NEW n \in Titles, GetTaskByName(bank, n) = {},
           NEW c \in bank.contests \cup {0}, NEW m, m = CreateTask(bank, t, n, c),
           NEW b \in Banks, b.tasks = m.tasks, b.contests = bank.contests, b.lastTask = t, b.lastDataset = d,
           b.lastContest = bank.lastContest, \A x \in DatasetIds \ {d} : b.datasets[x] = bank.datasets[x],
           b.datasets[d].task = t, fits(b.datasets[d]), NEW e, e = SetActiveDataset(b, t, d)
    PROVE  Born(e, t, d, c) /\ Allowed(e)
<1>1. bank \in Banks /\ c \in ContestIds \cup {0} /\ (\A x \in ContestIds : x \in Nat /\ x # 0)
  BY BankIs, ProblemIds
<1>2. PICK k : k = AdminNextTaskNum(bank, c)
  OBVIOUS
<1>3. c # 0 => /\ k \in Nat
               /\ \A u \in Tasks(bank) : bank.tasks[u].contest = c => bank.tasks[u].num # k
  BY <1>1, <1>2, NextPlaceIs
<1>4. c # 0 => AdminNextTaskNum(bank, c) \in Nat
  BY <1>2, <1>3
<1>5. /\ m.tasks[t].name = n /\ m.tasks[t].contest = c
      /\ m.tasks[t].num = (IF c = 0 THEN -1 ELSE k)
      /\ \A u \in TaskIds \ {t} : m.tasks[u] = bank.tasks[u]
  BY <1>1, <1>2, <1>4, CreateTaskIs
<1>6. PICK T : /\ TasksOf(e, b, T) /\ \A u \in TaskIds \ {t} : T[u] = b.tasks[u]
               /\ IF b.tasks[t] = NoTask THEN T[t] = NoTask
                  ELSE /\ T[t].live = d /\ T[t].name = b.tasks[t].name /\ T[t].contest = b.tasks[t].contest
                       /\ T[t].num = b.tasks[t].num
  BY SetActiveDatasetIs
<1>7. /\ e \in Banks /\ e.tasks = T /\ e.contests = bank.contests /\ e.lastTask = t /\ e.lastDataset = d
      /\ e.lastContest = bank.lastContest /\ e.datasets = b.datasets
  BY <1>6 DEF TasksOf
<1>8. \A u \in TaskIds \ {t} : e.tasks[u] = bank.tasks[u]
  BY <1>5, <1>6, <1>7
<1>9. \/ e.tasks[t] = NoTask
      \/ /\ e.tasks[t].live = d /\ e.tasks[t].name = n /\ e.tasks[t].contest = c
         /\ e.tasks[t].num = (IF c = 0 THEN -1 ELSE k)
  BY <1>5, <1>6, <1>7
<1>10. e.tasks[t] = NoTask \/ (e.tasks[t].live = d /\ e.tasks[t].contest = c /\ Placed(e.tasks[t]))
  BY <1>3, <1>9 DEF Placed
<1>11. Born(e, t, d, c)
  BY <1>7, <1>8, <1>10 DEF Born
<1>12. \A u \in Tasks(bank) : bank.tasks[u].name # n
  BY DEF GetTaskByName
<1>13. e.tasks[t] # NoTask =>
          /\ e.tasks[t].contest \in e.contests \cup {0}
          /\ \A u \in Tasks(bank) : /\ bank.tasks[u].name # e.tasks[t].name
                                    /\ e.tasks[t].contest # 0 /\ bank.tasks[u].contest = e.tasks[t].contest
                                          => bank.tasks[u].num # e.tasks[t].num
  BY <1>3, <1>7, <1>9, <1>12
<1>14. Allowed(bank) /\ bank.contests \subseteq e.contests
  BY <1>7 DEF ProblemsInv
<1>15. Allowed(e)
  BY <1>8, <1>13, <1>14, AllowedNew
<1> QED BY <1>11, <1>15

\* handleTaskCreate: the task, its default dataset and the choice of it.
LEMMA TaskCreated ==
    ASSUME ProblemsInv, NEW s \in Setters, handleTaskCreate(s)
    PROVE  ProblemsInv'
<1>1. PICK t, d : t = FreshTask(bank) /\ d = FreshDataset(bank)
  OBVIOUS
<1>2. PICK n \in TaskNames, c \in bank.contests \cup {0} :
        /\ t # 0 /\ d # 0 /\ GetTaskByName(bank, n) = {}
        /\ Write(SetActiveDataset(CreateDataset(CreateTask(bank, t, n, c), d, [NoDataset EXCEPT !.task = t]), t, d))
        /\ home' = [home EXCEPT ![t] = c] /\ UNCHANGED <<setting, pulled, stripped, loose>>
  BY <1>1, Zenon DEF handleTaskCreate
<1>3. t \in TaskIds /\ t = bank.lastTask + 1 /\ d \in DatasetIds /\ d = bank.lastDataset + 1
  BY <1>1, <1>2, FreshTaskIs, FreshDatasetIs
<1>4. n \in Titles /\ bank \in Banks /\ c \in ContestIds \cup {0}
  BY BankIs DEF Titles
<1>5. PICK w : w = [NoDataset EXCEPT !.task = t]
  OBVIOUS
<1>6. w \in DatasetRow /\ w.task = t /\ fits(w)
  BY <1>3, <1>5, NoRowsOfBank DEF DatasetRow, NoDataset, fits
<1>7. PICK m, b, e : m = CreateTask(bank, t, n, c) /\ b = CreateDataset(m, d, w) /\ e = SetActiveDataset(b, t, d)
  OBVIOUS
<1>8. /\ m \in Banks /\ m.datasets = bank.datasets /\ m.contests = bank.contests /\ m.lastTask = t
      /\ m.lastContest = bank.lastContest
  <2>1. c # 0 => AdminNextTaskNum(bank, c) \in Nat
    BY <1>4, NextPlaceIs
  <2> QED BY <1>3, <1>4, <1>7, <2>1, CreateTaskIs
<1>9. /\ b \in Banks /\ b.tasks = m.tasks /\ b.contests = m.contests /\ b.lastTask = m.lastTask
      /\ b.lastContest = m.lastContest /\ b.lastDataset = d
      /\ b.datasets[d] = w /\ \A x \in DatasetIds \ {d} : b.datasets[x] = m.datasets[x]
  BY <1>3, <1>6, <1>7, <1>8, CreateDatasetIs
<1>10. Born(e, t, d, c) /\ Allowed(e)
  <2>1. \A x \in DatasetIds \ {d} : b.datasets[x] = bank.datasets[x]
    BY <1>8, <1>9
  <2>2. b.contests = bank.contests /\ b.lastTask = t /\ b.lastContest = bank.lastContest
    BY <1>8, <1>9
  <2>3. b.datasets[d].task = t /\ fits(b.datasets[d])
    BY <1>6, <1>9
  <2> QED BY <1>2, <1>3, <1>4, <1>7, <1>9, <2>1, <2>2, <2>3, TaskBorn
<1>11. bank' = e
  <2>1. Write(e)
    BY <1>2, <1>5, <1>7
  <2> QED BY <1>10, <2>1 DEF Write
<1> QED BY <1>2, <1>3, <1>10, <1>11, TaskNew

\* Import: a new task with the package's dataset live, or another dataset of
\* a task.
LEMMA Imported ==
    ASSUME ProblemsInv, NEW s \in Setters, Import(s)
    PROVE  ProblemsInv'
<1>1. PICK new, d : new = FreshTask(bank) /\ d = FreshDataset(bank)
  OBVIOUS
<1>2. PICK p \in Packages, t \in Tasks(bank) \cup {0}, c \in bank.contests \cup {0} :
        /\ d # 0 /\ IF t = 0 THEN new # 0 /\ GetTaskByName(bank, p.name) = {} ELSE c = 0
        /\ bank' = IF t = 0
                   THEN SetActiveDataset(writeDataset(CreateDataset(IF t = 0 THEN CreateTask(bank, new, p.name, c) ELSE bank,
                            d, PackageRow(p, IF t = 0 THEN new ELSE t)), d, p), new, d)
                   ELSE writeDataset(CreateDataset(IF t = 0 THEN CreateTask(bank, new, p.name, c) ELSE bank,
                            d, PackageRow(p, IF t = 0 THEN new ELSE t)), d, p)
        /\ home' = IF t = 0 THEN [home EXCEPT ![new] = c] ELSE home
        /\ UNCHANGED <<setting, pulled, stripped, loose>>
  BY <1>1, Zenon DEF Import
<1>3. d \in DatasetIds /\ d = bank.lastDataset + 1
  BY <1>1, <1>2, FreshDatasetIs
<1>4. bank \in Banks /\ c \in ContestIds \cup {0} /\ p.groups \subseteq p.tests /\ p.tests \subseteq Codes
      /\ p.name \in Titles
  BY BankIs, ProblemsAssumption DEF Titles
<1>5. PICK id : id = IF t = 0 THEN new ELSE t
  OBVIOUS
<1>6. id \in TaskIds /\ (t = 0 => new \in TaskIds /\ new = bank.lastTask + 1 /\ id = new)
  <2>1. t # 0 => t \in TaskIds
    BY DEF Tasks
  <2>2. t = 0 => new \in TaskIds /\ new = bank.lastTask + 1
    BY <1>1, <1>2, FreshTaskIs
  <2> QED BY <1>5, <2>1, <2>2
<1>7. PICK w : w = PackageRow(p, id)
  OBVIOUS
<1>8. w \in DatasetRow /\ w.task = id /\ w.groups = p.groups /\ w.tests = {}
  <2>1. w = [NoDataset EXCEPT !.task = id, !.groups = p.groups]
    BY <1>7 DEF PackageRow
  <2>2. p.groups \in SUBSET Codes
    BY <1>4
  <2> QED BY <1>6, <2>1, <2>2, NoRowsOfBank DEF DatasetRow, NoDataset
<1>9. PICK m : m = IF t = 0 THEN CreateTask(bank, new, p.name, c) ELSE bank
  OBVIOUS
<1>10. /\ m \in Banks /\ m.datasets = bank.datasets /\ m.contests = bank.contests
       /\ m.lastContest = bank.lastContest /\ m.lastTask = (IF t = 0 THEN new ELSE bank.lastTask)
  <2>1. CASE t # 0
    BY <1>4, <1>9, <2>1
  <2>2. CASE t = 0
    <3>1. c # 0 => AdminNextTaskNum(bank, c) \in Nat
      BY <1>4, NextPlaceIs
    <3>2. m = CreateTask(bank, new, p.name, c) /\ new \in TaskIds
      BY <1>6, <1>9, <2>2
    <3> QED BY <1>4, <2>2, <3>1, <3>2, CreateTaskIs
  <2> QED BY <2>1, <2>2
<1>11. PICK f, b : f = CreateDataset(m, d, w) /\ b = writeDataset(f, d, p)
  OBVIOUS
<1>12. /\ f \in Banks /\ f.tasks = m.tasks /\ f.contests = m.contests /\ f.lastTask = m.lastTask
       /\ f.lastContest = m.lastContest /\ f.lastDataset = d
       /\ f.datasets[d] = w /\ \A x \in DatasetIds \ {d} : f.datasets[x] = m.datasets[x]
  BY <1>3, <1>8, <1>10, <1>11, CreateDatasetIs
<1>13. /\ OnlyDataset(b, f, d) /\ b.datasets[d].task = f.datasets[d].task
       /\ b.datasets[d].groups = f.datasets[d].groups /\ b.datasets[d].tests = f.datasets[d].tests \cup p.tests
  BY <1>3, <1>11, <1>12, writeDatasetIs
<1>14. /\ b \in Banks /\ b.tasks = m.tasks /\ b.contests = bank.contests /\ b.lastTask = m.lastTask
       /\ b.lastContest = bank.lastContest /\ b.lastDataset = d
       /\ \A x \in DatasetIds \ {d} : b.datasets[x] = bank.datasets[x]
  BY <1>10, <1>12, <1>13 DEF OnlyDataset
<1>15. b.datasets[d].task = id /\ fits(b.datasets[d])
  BY <1>4, <1>8, <1>12, <1>13 DEF fits
<1>16. bank' = IF t = 0 THEN SetActiveDataset(b, new, d) ELSE b
  BY <1>2, <1>5, <1>7, <1>9, <1>11, Zenon
<1>17. CASE t = 0
  <2>1. m = CreateTask(bank, new, p.name, c) /\ GetTaskByName(bank, p.name) = {} /\ b.lastTask = new
        /\ new \in TaskIds /\ new = bank.lastTask + 1 /\ id = new /\ home' = [home EXCEPT ![new] = c]
    BY <1>2, <1>6, <1>9, <1>10, <1>14, <1>17
  <2>2. PICK e : e = SetActiveDataset(b, new, d)
    OBVIOUS
  <2>3. b.datasets[d].task = new
    BY <1>15, <2>1
  <2>4. Born(e, new, d, c) /\ Allowed(e)
    BY <1>3, <1>4, <1>14, <1>15, <2>1, <2>2, <2>3, TaskBorn
  <2>5. bank' = e
    BY <1>16, <1>17, <2>2
  <2>6. Born(bank', new, d, c) /\ Allowed(bank')
    BY <2>4, <2>5
  <2>7. setting' = setting /\ UNCHANGED <<pulled, stripped, loose>>
    BY <1>2
  <2> QED BY <1>3, <2>1, <2>6, <2>7, TaskNew
<1>18. CASE t # 0
  <2>1. bank' = b /\ m = bank /\ home' = home
    BY <1>2, <1>9, <1>16, <1>18
  <2>2. bank' \in Banks /\ bank'.tasks = bank.tasks /\ bank'.lastTask = bank.lastTask
    BY <1>14, <2>1
  <2> QED BY <1>2, <1>3, <1>6, <1>14, <1>15, <2>1, <2>2, DatasetAdded
<1> QED BY <1>17, <1>18

\* The id a clone gives to the copy of a dataset of olds.
CopyId(olds, x) == bank.lastDataset + Cardinality({e \in olds : e <= x})

\* The copies come after every dataset there was.
LEMMA CopiesComeAfter ==
    ASSUME ProblemsInv, NEW olds \in SUBSET DatasetIds, NEW x \in olds
    PROVE  /\ CopyId(olds, x) \in Nat /\ CopyId(olds, x) > bank.lastDataset
           /\ CopyId(olds, x) <= bank.lastDataset + Cardinality(olds)
<1>1. PICK S : S = {e \in olds : e <= x}
  OBVIOUS
<1>2. x \in Nat /\ IsFiniteSet(olds) /\ bank.lastDataset \in Nat
  BY ProblemIds, BankIs, FS_Subset
<1>3. S \subseteq olds /\ x \in S
  BY <1>1, <1>2
<1>4. IsFiniteSet(S) /\ Cardinality(S) \in Nat /\ Cardinality(olds) \in Nat /\ Cardinality(S) <= Cardinality(olds)
  BY <1>2, <1>3, FS_Subset, FS_CardinalityType
<1>5. Cardinality(S) # 0
  BY <1>3, <1>4, FS_EmptySet
<1> QED BY <1>1, <1>2, <1>4, <1>5 DEF CopyId

\* Tables e with a contest c more, a task t of it, and the datasets olds
\* again as datasets of t.
Cloned(e, c, t, row, olds) ==
    /\ e \in Banks /\ e.contests = bank.contests \cup {c} /\ e.lastContest = c /\ e.lastTask = t
    /\ e.lastDataset = bank.lastDataset + Cardinality(olds)
    /\ e.tasks[t] = row /\ \A u \in TaskIds \ {t} : e.tasks[u] = bank.tasks[u]
    /\ \A x \in DatasetIds :
          IF \E y \in olds : x = CopyId(olds, y)
          THEN \E y \in olds : /\ x = CopyId(olds, y) /\ e.datasets[x].task = t
                               /\ e.datasets[x].tests = bank.datasets[y].tests
                               /\ e.datasets[x].groups = bank.datasets[y].groups
          ELSE e.datasets[x] = bank.datasets[x]

\* The tables a clone of a contest writes.
LEMMA ClonedIs ==
    ASSUME ProblemsInv, NEW c \in ContestIds, NEW t \in TaskIds, NEW row \in TaskRow, NEW olds \in SUBSET DatasetIds,
           NEW e,
           e = [bank EXCEPT
                  !.contests = @ \cup {c}, !.lastContest = c, !.lastTask = t, !.tasks[t] = row,
                  !.lastDataset = @ + Cardinality(olds),
                  !.datasets = [d \in DatasetIds |->
                      IF \E y \in olds : d = CopyId(olds, y)
                      THEN [bank.datasets[CHOOSE y \in olds : d = CopyId(olds, y)] EXCEPT !.task = t]
                      ELSE bank.datasets[d]]]
    PROVE  Cloned(e, c, t, row, olds)
<1>1. PICK D : D = [d \in DatasetIds |->
                      IF \E y \in olds : d = CopyId(olds, y)
                      THEN [bank.datasets[CHOOSE y \in olds : d = CopyId(olds, y)] EXCEPT !.task = t]
                      ELSE bank.datasets[d]]
  OBVIOUS
<1>2. /\ bank \in Banks /\ bank.tasks \in [TaskIds -> TaskRow] /\ bank.datasets \in [DatasetIds -> DatasetRow]
      /\ c \in Nat /\ t \in Nat
  BY BankIs, ProblemIds
<1>3. ASSUME NEW x \in DatasetIds
      PROVE  /\ D[x] \in DatasetRow
             /\ IF \E y \in olds : x = CopyId(olds, y)
                THEN \E y \in olds : /\ x = CopyId(olds, y) /\ D[x].task = t
                                     /\ D[x].tests = bank.datasets[y].tests
                                     /\ D[x].groups = bank.datasets[y].groups
                ELSE D[x] = bank.datasets[x]
  <2>1. CASE \E y \in olds : x = CopyId(olds, y)
    <3>1. PICK y : y = CHOOSE z \in olds : x = CopyId(olds, z)
      OBVIOUS
    <3>2. y \in olds /\ x = CopyId(olds, y)
      BY <2>1, <3>1, Zenon
    <3>3. D[x] = [bank.datasets[CHOOSE z \in olds : x = CopyId(olds, z)] EXCEPT !.task = t]
      BY <1>1, <2>1
    <3>4. D[x] = [bank.datasets[y] EXCEPT !.task = t]
      BY <3>1, <3>3, Zenon
    <3>5. bank.datasets[y] \in DatasetRow
      BY <1>2, <3>2
    <3>6. /\ D[x] \in DatasetRow /\ D[x].task = t /\ D[x].tests = bank.datasets[y].tests
          /\ D[x].groups = bank.datasets[y].groups
      BY <3>4, <3>5 DEF DatasetRow
    <3> QED BY <2>1, <3>2, <3>6
  <2>2. CASE ~(\E y \in olds : x = CopyId(olds, y))
    <3>1. D[x] = bank.datasets[x]
      BY <1>1, <2>2
    <3> QED BY <1>2, <2>2, <3>1
  <2> QED BY <2>1, <2>2
<1>4. D \in [DatasetIds -> DatasetRow]
  <2>1. \A x \in DatasetIds : D[x] \in DatasetRow
    BY <1>3
  <2>2. D = [d \in DatasetIds |-> D[d]]
    BY <1>1
  <2> QED BY <2>1, <2>2
<1>5. PICK T, k, g : T = [bank.tasks EXCEPT ![t] = row] /\ k = bank.lastDataset + Cardinality(olds)
                     /\ g = bank.contests \cup {c}
  OBVIOUS
<1>6. T \in [TaskIds -> TaskRow] /\ T[t] = row /\ \A u \in TaskIds \ {t} : T[u] = bank.tasks[u]
  BY <1>2, <1>5
<1>7. k \in Nat /\ g \in SUBSET ContestIds
  <2>1. IsFiniteSet(olds)
    BY ProblemIds, FS_Subset
  <2>2. Cardinality(olds) \in Nat /\ bank.lastDataset \in Nat
    BY <2>1, FS_CardinalityType, BankIs
  <2> QED BY <1>5, <2>2, BankIs
<1>8. e = [bank EXCEPT !.contests = g, !.lastContest = c, !.lastTask = t, !.tasks = T, !.lastDataset = k, !.datasets = D]
  <2>1. e = [bank EXCEPT !.contests = @ \cup {c}, !.lastContest = c, !.lastTask = t, !.tasks[t] = row,
                         !.lastDataset = @ + Cardinality(olds), !.datasets = D]
    BY <1>1, Zenon
  <2> HIDE DEF CopyId
  <2> QED BY <1>2, <1>5, <2>1 DEF Banks
<1>9. /\ e \in Banks /\ e.tasks = T /\ e.datasets = D /\ e.contests = g /\ e.lastContest = c /\ e.lastTask = t
      /\ e.lastDataset = k
  BY <1>2, <1>4, <1>6, <1>7, <1>8 DEF Banks
<1>10. e.tasks[t] = row /\ \A u \in TaskIds \ {t} : e.tasks[u] = bank.tasks[u]
  BY <1>6, <1>9
<1>11. \A x \in DatasetIds :
          IF \E y \in olds : x = CopyId(olds, y)
          THEN \E y \in olds : /\ x = CopyId(olds, y) /\ e.datasets[x].task = t
                               /\ e.datasets[x].tests = bank.datasets[y].tests
                               /\ e.datasets[x].groups = bank.datasets[y].groups
          ELSE e.datasets[x] = bank.datasets[x]
  <2>1. e.datasets = D
    BY <1>9
  <2> QED BY <1>3, <2>1, Zenon
<1>12. /\ e.contests = bank.contests \cup {c} /\ e.lastDataset = bank.lastDataset + Cardinality(olds)
  BY <1>5, <1>9
<1> QED BY <1>9, <1>10, <1>11, <1>12, Zenon DEF Cloned

\* The row of the copy of a task, in the contest c.
CopyRow(old, n, c) ==
    [bank.tasks[old] EXCEPT !.name = n, !.contest = c,
                            !.live = IF @ = 0 THEN 0 ELSE CopyId(DatasetsOf(bank, old), @)]

\* The row that a clone of a contest gives to the copy of its task.
LEMMA CloneRow ==
    ASSUME ProblemsInv, NEW old \in Tasks(bank), NEW n \in TaskNames, NEW c \in ContestIds, bank.tasks[old].contest # 0,
           NEW row, {CopyId(DatasetsOf(bank, old), d) : d \in DatasetsOf(bank, old)} \subseteq DatasetIds,
           row = CopyRow(old, n, c)
    PROVE  /\ row \in TaskRow /\ row.name = n /\ row.contest = c /\ row.num # -1
           /\ IF row.live = 0 THEN old \in stripped
              ELSE \E d \in DatasetsOf(bank, old) : row.live = CopyId(DatasetsOf(bank, old), d)
<1>1. PICK r, l : r = bank.tasks[old] /\ l = IF bank.tasks[old].live = 0 THEN 0
                                             ELSE CopyId(DatasetsOf(bank, old), bank.tasks[old].live)
  OBVIOUS
<1>2. old \in TaskIds /\ r \in TaskRow /\ r.num # -1
  <2>1. old \in TaskIds /\ bank.tasks[old] # NoTask
    BY DEF Tasks
  <2> QED BY <1>1, <2>1, BankIs DEF Placed
<1>3. IF r.live = 0 THEN old \in stripped ELSE r.live \in DatasetsOf(bank, old)
  <2>1. IF bank.tasks[old].live = 0 THEN old \in stripped ELSE bank.datasets[bank.tasks[old].live].task = old
    BY DEF ProblemsInv, LiveIsOwn
  <2>2. r.live \in DatasetIds \cup {0}
    BY <1>2 DEF TaskRow
  <2> QED BY <1>1, <2>1, <2>2 DEF DatasetsOf
<1>4. l \in DatasetIds \cup {0} /\ IF l = 0 THEN old \in stripped
                                   ELSE \E d \in DatasetsOf(bank, old) : l = CopyId(DatasetsOf(bank, old), d)
  <2>1. CASE r.live = 0
    BY <1>1, <1>3, <2>1
  <2>2. CASE r.live # 0
    <3>1. l = CopyId(DatasetsOf(bank, old), r.live) /\ r.live \in DatasetsOf(bank, old)
      BY <1>1, <1>3, <2>2
    <3>2. l \in DatasetIds
      BY <3>1
    <3>3. l # 0
      BY <3>2, ProblemIds
    <3> QED BY <3>1, <3>2, <3>3
  <2> QED BY <2>1, <2>2
<1>5. row = [r EXCEPT !.name = n, !.contest = c, !.live = l]
  BY <1>1 DEF CopyRow
<1>6. row \in TaskRow /\ row.name = n /\ row.contest = c /\ row.num = r.num /\ row.live = l
  BY <1>2, <1>4, <1>5 DEF TaskRow, Titles
<1> QED BY <1>2, <1>4, <1>6

\* cloneContest: the contest's task under a new name, with copies of its
\* datasets.
LEMMA ContestCloned ==
    ASSUME ProblemsInv, NEW s \in Setters, cloneContest(s)
    PROVE  ProblemsInv'
<1>1. PICK new, t : new = bank.lastContest + 1 /\ t = FreshTask(bank)
  OBVIOUS
<1>2. PICK c \in bank.contests, n \in TaskNames, old \in Tasks(bank) :
        /\ new \in ContestIds /\ t # 0
        /\ {x.id : x \in ListTasksByContest(bank, c)} = {old}
        /\ {CopyId(DatasetsOf(bank, old), d) : d \in DatasetsOf(bank, old)} \subseteq DatasetIds
        /\ GetTaskByName(bank, n) = {}
        /\ bank' = [bank EXCEPT
              !.contests = @ \cup {new}, !.lastContest = new, !.lastTask = t,
              !.tasks[t] = CopyRow(old, n, new),
              !.lastDataset = @ + Cardinality(DatasetsOf(bank, old)),
              !.datasets = [d \in DatasetIds |->
                  IF \E y \in DatasetsOf(bank, old) : d = CopyId(DatasetsOf(bank, old), y)
                  THEN [bank.datasets[CHOOSE y \in DatasetsOf(bank, old) : d = CopyId(DatasetsOf(bank, old), y)]
                           EXCEPT !.task = t]
                  ELSE bank.datasets[d]]]
        /\ home' = [home EXCEPT ![t] = new]
        /\ loose' = loose \cup {CopyId(DatasetsOf(bank, old), d) : d \in DatasetsOf(bank, old) \cap loose}
        /\ stripped' = IF old \in stripped THEN stripped \cup {t} ELSE stripped
        /\ UNCHANGED <<setting, pulled>>
  BY <1>1, Zenon DEF cloneContest, CopyId, CopyRow
<1>3. PICK olds : olds = DatasetsOf(bank, old)
  OBVIOUS
<1>4. PICK row : row = CopyRow(old, n, new)
  OBVIOUS
<1>5. t \in TaskIds /\ t = bank.lastTask + 1
  BY <1>1, <1>2, FreshTaskIs
<1>6. olds \in SUBSET DatasetIds
  BY <1>3 DEF DatasetsOf
<1>7. bank.tasks[old].contest = c /\ c # 0 /\ old \in TaskIds
  <2>1. old \in {x.id : x \in ListTasksByContest(bank, c)}
    BY <1>2
  <2>2. PICK x \in ListTasksByContest(bank, c) : x.id = old
    BY <2>1
  <2>3. bank.tasks[old].contest = c
    BY <2>2 DEF ListTasksByContest
  <2> QED BY <2>3, BankIs, ProblemIds DEF Tasks
<1>8. /\ row \in TaskRow /\ row.name = n /\ row.contest = new /\ row.num # -1
      /\ IF row.live = 0 THEN old \in stripped ELSE \E d \in olds : row.live = CopyId(olds, d)
  <2>1. new \in ContestIds /\ bank.tasks[old].contest # 0
        /\ {CopyId(DatasetsOf(bank, old), d) : d \in DatasetsOf(bank, old)} \subseteq DatasetIds
    BY <1>2, <1>7
  <2>2. /\ row \in TaskRow /\ row.name = n /\ row.contest = new /\ row.num # -1
        /\ IF row.live = 0 THEN old \in stripped
           ELSE \E d \in DatasetsOf(bank, old) : row.live = CopyId(DatasetsOf(bank, old), d)
    BY <1>4, <2>1, CloneRow
  <2> QED BY <1>3, <2>2
<1>9. Cloned(bank', new, t, row, olds)
  <2>1. bank' = [bank EXCEPT
                  !.contests = @ \cup {new}, !.lastContest = new, !.lastTask = t, !.tasks[t] = row,
                  !.lastDataset = @ + Cardinality(olds),
                  !.datasets = [d \in DatasetIds |->
                      IF \E y \in olds : d = CopyId(olds, y)
                      THEN [bank.datasets[CHOOSE y \in olds : d = CopyId(olds, y)] EXCEPT !.task = t]
                      ELSE bank.datasets[d]]]
    BY <1>2, <1>3, <1>4, Zenon
  <2>2. new \in ContestIds /\ row \in TaskRow
    BY <1>2, <1>8
  <2>3. PICK e : e = bank'
    OBVIOUS
  <2>4. Cloned(e, new, t, row, olds)
    BY <1>5, <1>6, <2>1, <2>2, <2>3, ClonedIs, Zenon
  <2> QED BY <2>3, <2>4
<1>10. PICK k : k = Cardinality(olds)
  OBVIOUS
<1>11. /\ k \in Nat /\ bank.lastDataset \in Nat /\ bank.lastTask \in Nat /\ bank.lastContest \in Nat
       /\ (\A x \in DatasetIds : x \in Nat /\ x # 0) /\ (\A u \in TaskIds : u \in Nat /\ u # 0)
       /\ (\A x \in ContestIds : x \in Nat /\ x # 0)
  <2>1. IsFiniteSet(olds)
    BY <1>6, ProblemIds, FS_Subset
  <2> QED BY <1>10, <2>1, FS_CardinalityType, ProblemIds, BankIs
<1>12. \A y \in olds : CopyId(olds, y) \in Nat /\ CopyId(olds, y) > bank.lastDataset
                       /\ CopyId(olds, y) <= bank.lastDataset + k
  BY <1>6, <1>10, CopiesComeAfter
<1>13. /\ bank' \in Banks /\ bank'.contests = bank.contests \cup {new} /\ bank'.lastContest = new /\ bank'.lastTask = t
       /\ bank'.lastDataset = bank.lastDataset + k
       /\ bank'.tasks[t] = row /\ \A u \in TaskIds \ {t} : bank'.tasks[u] = bank.tasks[u]
  BY <1>9, <1>10 DEF Cloned
<1>14. ASSUME NEW x \in DatasetIds
       PROVE  \/ /\ bank'.datasets[x] = bank.datasets[x]
                 /\ \A y \in olds : x # CopyId(olds, y)
              \/ \E y \in olds : /\ x = CopyId(olds, y) /\ bank'.datasets[x].task = t
                                 /\ bank'.datasets[x].tests = bank.datasets[y].tests
                                 /\ bank'.datasets[x].groups = bank.datasets[y].groups
  BY <1>9, Zenon DEF Cloned
<1>15. ASSUME NEW x \in DatasetIds, x <= bank.lastDataset
       PROVE  bank'.datasets[x] = bank.datasets[x]
  BY <1>11, <1>12, <1>14, <1>15
<1>16. \A y \in olds : CopyId(olds, y) \in DatasetIds => bank'.datasets[CopyId(olds, y)].task = t
  BY <1>14
<1>17. DOMAIN home' = TaskIds /\ home'[t] = new /\ \A u \in TaskIds \ {t} : home'[u] = home[u]
  BY <1>2, <1>5 DEF ProblemsInv, BankShape
<1>18. SettingsFit' /\ DOMAIN setting' = Setters
  <2>1. bank'.lastDataset \in Nat /\ bank'.lastDataset >= bank.lastDataset
    BY <1>11, <1>13
  <2>2. \A x \in DatasetIds : x <= bank.lastDataset => bank'.datasets[x].task \in {0, bank.datasets[x].task}
    BY <1>15
  <2> QED BY <1>2, <2>1, <2>2, SettingsStay
<1>19. BankShape'
  BY <1>13, <1>17, <1>18 DEF BankShape
<1>20. IdsUnused'
  <2>1. \A u \in TaskIds : u > bank'.lastTask => bank'.tasks[u] = NoTask
    BY <1>5, <1>11, <1>13 DEF ProblemsInv, IdsUnused
  <2>2. ASSUME NEW x \in DatasetIds, x > bank'.lastDataset PROVE bank'.datasets[x] = NoDataset
    <3>1. x > bank.lastDataset /\ x > bank.lastDataset + k
      BY <1>11, <1>13, <2>2
    <3>2. bank'.datasets[x] = bank.datasets[x]
      BY <1>11, <1>12, <1>14, <3>1
    <3> QED BY <3>1, <3>2 DEF ProblemsInv, IdsUnused
  <2>3. \A x \in bank'.contests : x <= bank'.lastContest
    <3>1. \A x \in bank.contests : x \in Nat /\ x <= bank.lastContest
      BY <1>11, BankIs DEF ProblemsInv, IdsUnused
    <3> QED BY <1>1, <1>11, <1>13, <3>1
  <2> QED BY <2>1, <2>2, <2>3 DEF IdsUnused
<1>21. Owned'
  <2>1. ASSUME NEW x \in DatasetIds, bank'.datasets[x].task = 0 PROVE bank'.datasets[x] = NoDataset
    <3>1. bank'.datasets[x] = bank.datasets[x]
      BY <1>5, <1>11, <1>14, <2>1
    <3> QED BY <2>1, <3>1 DEF ProblemsInv, Owned
  <2> QED BY <2>1 DEF Owned
<1>22. Allowed(bank')
  <2>1. \A u \in Tasks(bank) : bank.tasks[u].name # n
    BY <1>2 DEF GetTaskByName
  <2>2. \A u \in Tasks(bank) : bank.tasks[u].contest # new
    <3>1. \A u \in Tasks(bank) : bank.tasks[u].contest \in bank.contests \cup {0}
      BY DEF ProblemsInv, Allowed
    <3>2. new \notin bank.contests
      <4>1. \A x \in bank.contests : x <= bank.lastContest
        BY DEF ProblemsInv, IdsUnused
      <4> QED BY <1>1, <1>11, <4>1
    <3>3. new # 0
      BY <1>1, <1>11
    <3> QED BY <3>1, <3>2, <3>3
  <2>3. bank'.tasks[t] # NoTask =>
          /\ bank'.tasks[t].contest \in bank'.contests \cup {0}
          /\ \A u \in Tasks(bank) : /\ bank.tasks[u].name # bank'.tasks[t].name
                                    /\ bank'.tasks[t].contest # 0 /\ bank.tasks[u].contest = bank'.tasks[t].contest
                                          => bank.tasks[u].num # bank'.tasks[t].num
    BY <1>8, <1>13, <2>1, <2>2
  <2>4. Allowed(bank) /\ bank.contests \subseteq bank'.contests
    BY <1>13 DEF ProblemsInv
  <2> QED BY <1>5, <1>13, <2>3, <2>4, AllowedNew
<1>23. ParamsFit'
  <2>1. ASSUME NEW x \in DatasetIds PROVE fits(bank'.datasets[x]) \/ x \in loose'
    <3>1. CASE bank'.datasets[x] = bank.datasets[x]
      BY <1>2, <3>1, DatasetIs
    <3>2. CASE bank'.datasets[x] # bank.datasets[x]
      <4>1. PICK y \in olds : /\ x = CopyId(olds, y)
                              /\ bank'.datasets[x].tests = bank.datasets[y].tests
                              /\ bank'.datasets[x].groups = bank.datasets[y].groups
        BY <1>14, <3>2
      <4>2. fits(bank.datasets[y]) \/ y \in loose
        BY <1>6, DatasetIs
      <4>3. fits(bank.datasets[y]) => fits(bank'.datasets[x])
        BY <4>1 DEF fits
      <4>4. y \in loose => x \in loose'
        BY <1>2, <1>3, <4>1
      <4> QED BY <4>2, <4>3, <4>4
    <3> QED BY <3>1, <3>2
  <2> QED BY <2>1 DEF ParamsFit, fits
<1>24. ASSUME NEW u \in Tasks(bank)'
       PROVE  /\ IF bank'.tasks[u].live = 0 THEN u \in stripped' ELSE bank'.datasets[bank'.tasks[u].live].task = u
              /\ bank'.tasks[u].contest = home'[u] \/ u \in pulled'
              /\ Placed(bank'.tasks[u])
  <2>1. u \in TaskIds /\ bank'.tasks[u] # NoTask
    BY DEF Tasks
  <2>2. CASE u = t
    <3>1. IF row.live = 0 THEN t \in stripped' ELSE bank'.datasets[row.live].task = t
      <4>1. CASE row.live = 0
        BY <1>2, <1>8, <4>1
      <4>2. CASE row.live # 0
        <5>1. PICK d \in olds : row.live = CopyId(olds, d)
          BY <1>8, <4>2
        <5>2. CopyId(olds, d) \in DatasetIds
          BY <1>2, <1>3
        <5> QED BY <1>16, <4>2, <5>1, <5>2
      <4> QED BY <4>1, <4>2
    <3> QED BY <1>8, <1>13, <1>17, <2>2, <3>1 DEF Placed
  <2>3. CASE u # t
    <3>1. bank'.tasks[u] = bank.tasks[u] /\ u \in Tasks(bank)
      BY <1>13, <2>1, <2>3 DEF Tasks
    <3>2. PICK l : l = bank.tasks[u].live
      OBVIOUS
    <3>3. IF l = 0 THEN u \in stripped ELSE bank.datasets[l].task = u
      BY <3>1, <3>2 DEF ProblemsInv, LiveIsOwn
    <3>4. l \in DatasetIds \cup {0}
      BY <2>1, <3>2, BankIs DEF TaskRow
    <3>5. l # 0 => bank'.datasets[l] = bank.datasets[l]
      <4>1. SUFFICES ASSUME l # 0 PROVE l <= bank.lastDataset
        BY <1>15, <3>4
      <4>2. l > bank.lastDataset => bank.datasets[l] = NoDataset
        BY <3>4, <4>1 DEF ProblemsInv, IdsUnused
      <4>3. NoDataset.task = 0 /\ u # 0
        BY <1>11, <2>1, NoRowsOfBank
      <4> QED BY <1>11, <3>3, <3>4, <4>1, <4>2, <4>3
    <3>6. (bank.tasks[u].contest = home[u] \/ u \in pulled) /\ Placed(bank.tasks[u])
      BY <3>1 DEF ProblemsInv, PlacesKept, Placed
    <3>7. IF bank'.tasks[u].live = 0 THEN u \in stripped' ELSE bank'.datasets[bank'.tasks[u].live].task = u
      BY <1>2, <3>1, <3>2, <3>3, <3>5
    <3> QED BY <1>2, <1>17, <2>1, <2>3, <3>1, <3>6, <3>7
  <2> QED BY <2>2, <2>3
<1>25. LiveIsOwn'
  BY <1>24 DEF LiveIsOwn
<1>26. PlacesKept'
  BY <1>24 DEF PlacesKept, Placed
<1> QED BY <1>18, <1>19, <1>20, <1>21, <1>22, <1>23, <1>25, <1>26 DEF ProblemsInv

(***************************************************************************)
(* The problems in every behaviour.                                        *)
(***************************************************************************)
\* Two tasks have two names.
LEMMA FirstNames ==
    ASSUME NEW names, names = SetToSeq(TaskNames)
    PROVE  names[1] \in TaskNames /\ names[2] \in TaskNames /\ names[1] # names[2]
<1>1. IsFiniteSet(TaskNames) /\ Cardinality(TaskNames) >= 2
  BY ProblemsAssumption
<1>2. PICK n : n = Cardinality(TaskNames)
  OBVIOUS
<1>3. n \in Nat /\ n >= 2 /\ ExistsBijection(1 .. n, TaskNames)
  BY <1>1, <1>2, FS_CardinalityType
<1>4. \E f \in [1 .. n -> TaskNames] : IsInjective(f)
  BY <1>3 DEF ExistsBijection, Bijection, Injection
<1>5. names = CHOOSE f \in [1 .. n -> TaskNames] : IsInjective(f)
  BY <1>2, Zenon DEF SetToSeq
<1>6. names \in [1 .. n -> TaskNames] /\ IsInjective(names)
  BY <1>4, <1>5, Zenon
<1>7. 1 \in 1 .. n /\ 2 \in 1 .. n
  BY <1>3
<1>8. names[1] # names[2]
  BY <1>6, <1>7 DEF IsInjective
<1> QED BY <1>6, <1>7, <1>8

\* One contest with one task, and a task of no contest.
LEMMA ProblemsInitial == ProblemsInit => ProblemsInv
<1> SUFFICES ASSUME ProblemsInit PROVE ProblemsInv
  OBVIOUS
<1> DEFINE names == SetToSeq(TaskNames)
           T == [t \in TaskIds |->
                      CASE t = 1 -> [name |-> names[1], contest |-> 1, num |-> 0, live |-> 1, primary |-> FALSE]
                        [] t = 2 -> [name |-> names[2], contest |-> 0, num |-> -1, live |-> 2, primary |-> FALSE]
                        [] OTHER -> NoTask]
           D == [d \in DatasetIds |-> IF d \in {1, 2} THEN [NoDataset EXCEPT !.task = d, !.tests = Codes]
                                     ELSE NoDataset]
<1>5. /\ bank = [tasks |-> T, datasets |-> D, contests |-> {1}, lastTask |-> 2, lastDataset |-> 2, lastContest |-> 1]
      /\ setting = [s \in Setters |-> SettingIdle]
      /\ home = [t \in TaskIds |-> IF t = 1 THEN 1 ELSE 0] /\ loose = {}
  BY DEF ProblemsInit
<1>2. names[1] \in TaskNames /\ names[2] \in TaskNames /\ names[1] # names[2]
  BY FirstNames
<1> HIDE DEF names
<1>6. 1 \in TaskIds /\ 2 \in TaskIds /\ 1 \in DatasetIds /\ 2 \in DatasetIds /\ 1 \in ContestIds
  <2>1. ContestIds = 1 .. Cardinality(ContestIds) /\ ContestIds # {} /\ IsFiniteSet(ContestIds)
    BY ProblemsAssumption
  <2>2. Cardinality(ContestIds) \in Nat
    BY <2>1, FS_CardinalityType
  <2>3. PICK n \in Nat : n = Cardinality(ContestIds)
    BY <2>2
  <2>4. ContestIds = 1 .. n /\ ContestIds # {}
    BY <2>1, <2>3
  <2> QED BY <2>4, ProblemsAssumption
<1>7. /\ T[1].name = names[1] /\ T[1].contest = 1 /\ T[1].num = 0 /\ T[1].live = 1 /\ T[1] \in TaskRow
      /\ T[2].name = names[2] /\ T[2].contest = 0 /\ T[2].num = -1 /\ T[2].live = 2 /\ T[2] \in TaskRow
      /\ \A t \in TaskIds : t \notin {1, 2} => T[t] = NoTask
  BY <1>2, <1>6 DEF TaskRow, Titles
<1>8. ASSUME NEW d \in DatasetIds
      PROVE  /\ D[d] \in DatasetRow /\ D[d].groups = {} /\ D[d].task = (IF d \in {1, 2} THEN d ELSE 0)
             /\ d \notin {1, 2} => D[d] = NoDataset
  <2>1. NoDataset \in DatasetRow /\ NoDataset.groups = {} /\ NoDataset.task = 0
    BY NoRowsOfBank DEF NoDataset
  <2>2. CASE d \in {1, 2}
    <3>1. D[d] = [NoDataset EXCEPT !.task = d, !.tests = Codes] /\ d \in TaskIds
      BY <1>6, <2>2
    <3> QED BY <2>1, <2>2, <3>1 DEF DatasetRow
  <2>3. CASE d \notin {1, 2}
    <3>1. D[d] = NoDataset
      BY <2>3
    <3> QED BY <2>1, <2>3, <3>1
  <2> QED BY <2>2, <2>3
<1>9. T \in [TaskIds -> TaskRow] /\ D \in [DatasetIds -> DatasetRow]
  <2>1. \A t \in TaskIds : T[t] \in TaskRow
    BY <1>7, NoRowsOfBank
  <2>2. T = [t \in TaskIds |-> T[t]] /\ D = [d \in DatasetIds |-> D[d]]
    OBVIOUS
  <2>3. \A d \in DatasetIds : D[d] \in DatasetRow
    BY <1>8
  <2> QED BY <2>1, <2>2, <2>3
<1> HIDE DEF T, D
<1>10. /\ bank.tasks = T /\ bank.datasets = D /\ bank.contests = {1} /\ bank.lastTask = 2 /\ bank.lastDataset = 2
       /\ bank.lastContest = 1 /\ bank \in Banks
  BY <1>5, <1>6, <1>9 DEF Banks
<1>11. (\A t \in TaskIds : t \in Nat) /\ (\A d \in DatasetIds : d \in Nat)
  BY ProblemIds
<1>12. \A t \in Tasks(bank) : t \in {1, 2}
  BY <1>7, <1>10 DEF Tasks
<1>13. BankShape
  BY <1>5, <1>10 DEF BankShape
<1>14. IdsUnused
  BY <1>7, <1>8, <1>10, <1>11 DEF IdsUnused
<1>15. Owned
  BY <1>8, <1>10, <1>11 DEF Owned
<1>16. Allowed(bank)
  <2>1. \A t, u \in Tasks(bank) : t # u =>
          /\ bank.tasks[t].name # bank.tasks[u].name
          /\ bank.tasks[t].contest # 0 /\ bank.tasks[t].contest = bank.tasks[u].contest /\ bank.tasks[t].num # -1
                => bank.tasks[t].num # bank.tasks[u].num
    BY <1>2, <1>7, <1>10, <1>12
  <2>2. \A t \in Tasks(bank) : bank.tasks[t].contest \in bank.contests \cup {0}
    BY <1>7, <1>10, <1>12
  <2> QED BY <2>1, <2>2 DEF Allowed
<1>17. SettingsFit
  BY <1>5, SettingRests DEF SettingsFit
<1>18. LiveIsOwn
  BY <1>6, <1>7, <1>8, <1>10, <1>12 DEF LiveIsOwn
<1>19. ParamsFit
  BY <1>8, <1>10 DEF ParamsFit, fits
<1>20. PlacesKept
  BY <1>5, <1>6, <1>7, <1>10, <1>12 DEF PlacesKept
<1> QED BY <1>13, <1>14, <1>15, <1>16, <1>17, <1>18, <1>19, <1>20 DEF ProblemsInv

\* A step that leaves the problems alone keeps them sound.
LEMMA ProblemsStutters == ProblemsInv /\ UNCHANGED problemsVars => ProblemsInv'
<1> SUFFICES ASSUME ProblemsInv, UNCHANGED problemsVars PROVE ProblemsInv'
  OBVIOUS
<1>1. UNCHANGED <<bank, setting, home, pulled, stripped, loose>>
  BY DEF problemsVars
<1>2. BankShape' /\ IdsUnused' /\ Owned' /\ Allowed(bank)'
  BY <1>1 DEF ProblemsInv, BankShape, IdsUnused, Owned, Allowed, Tasks
<1>3. SettingsFit'
  BY <1>1 DEF ProblemsInv, SettingsFit, SettingFits
<1>4. LiveIsOwn' /\ ParamsFit' /\ PlacesKept'
  BY <1>1 DEF ProblemsInv, LiveIsOwn, ParamsFit, PlacesKept, Tasks, fits
<1> QED BY <1>2, <1>3, <1>4 DEF ProblemsInv

\* Every step of the pages of the problems keeps the invariant.
LEMMA ProblemsStep == ProblemsInv /\ [ProblemsNext]_problemsVars => ProblemsInv'
<1> SUFFICES ASSUME ProblemsInv, [ProblemsNext]_problemsVars PROVE ProblemsInv'
  OBVIOUS
<1>1. CASE UNCHANGED problemsVars
  BY <1>1, ProblemsStutters
<1>2. CASE ProblemsNext
  <2>1. PICK s \in Setters :
        \/ loadTask(s) \/ loadDataset(s) \/ listTasks(s)
        \/ handleTaskCreate(s) \/ handleTaskUpdate(s) \/ setPrimary(s) \/ handleTaskDelete(s)
        \/ handleContestAddTask(s) \/ handleContestRemoveTask(s) \/ handleContestMoveTask(s)
        \/ handleContestDelete(s)
        \/ handleDatasetCreate(s) \/ handleDatasetUpdate(s) \/ handleTaskOptions(s) \/ ApplyConfig(s)
        \/ handleDatasetRename(s)
        \/ handleDatasetActivate(s) \/ handleDatasetDelete(s)
        \/ handleManagerUpload(s) \/ handleManagerDelete(s) \/ importArchive(s) \/ handleTestcaseDelete(s)
        \/ handleTestcasesClear(s)
        \/ Import(s) \/ Fill(s) \/ cloneContest(s)
    BY <1>2, Zenon DEF ProblemsNext
  <2>2. CASE loadTask(s) \/ loadDataset(s) \/ listTasks(s)
    BY <2>2, RowsLoaded
  <2>3. CASE handleTaskCreate(s)
    BY <2>3, TaskCreated
  <2>4. CASE handleTaskUpdate(s) \/ setPrimary(s)
    BY <2>4, FormSaved
  <2>5. CASE handleTaskDelete(s)
    BY <2>5, TaskDeleted
  <2>6. CASE handleContestAddTask(s) \/ handleContestRemoveTask(s)
    BY <2>6, TaskMoved
  <2>7. CASE handleContestMoveTask(s)
    BY <2>7, TasksSwapped
  <2>8. CASE handleContestDelete(s)
    BY <2>8, ContestDeleted
  <2>9. CASE handleDatasetCreate(s)
    BY <2>9, DatasetCreated
  <2>10. CASE handleDatasetUpdate(s) \/ handleTaskOptions(s) \/ ApplyConfig(s)
    BY <2>10, ParamsForms
  <2>11. CASE handleDatasetRename(s)
    BY <2>11, DatasetRenamed
  <2>12. CASE handleDatasetActivate(s)
    BY <2>12, DatasetActivated
  <2>13. CASE handleDatasetDelete(s)
    BY <2>13, DatasetDeleted
  <2>14. CASE handleManagerUpload(s) \/ handleManagerDelete(s)
    BY <2>14, ManagersChanged
  <2>15. CASE importArchive(s) \/ handleTestcaseDelete(s) \/ handleTestcasesClear(s)
    BY <2>15, TestcasesChanged
  <2>16. CASE Import(s)
    BY <2>16, Imported
  <2>17. CASE Fill(s)
    BY <2>17, Filled
  <2>18. CASE cloneContest(s)
    BY <2>18, ContestCloned
  <2> QED BY <2>1, <2>2, <2>3, <2>4, <2>5, <2>6, <2>7, <2>8, <2>9, <2>10, <2>11, <2>12, <2>13, <2>14, <2>15,
             <2>16, <2>17, <2>18, Zenon
<1> QED BY <1>1, <1>2

\* Administrators who work on the same tasks, datasets and contests, each
\* with rows read before, leave every task with a live dataset of its own
\* (but where another one was live when a deletion was checked), parameters
\* that fit the testcases (but where testcases changed under them) and each
\* task in the contest and the place it was put in (handlers of
\* internal/adminweb, internal/problempkg).
THEOREM ProblemsKept == ProblemsSpec => []ProblemsSound
<1>1. ProblemsInv => ProblemsSound
  BY DEF ProblemsInv, ProblemsSound
<1> QED BY <1>1, ProblemsInitial, ProblemsStep, PTL DEF ProblemsSpec
=============================================================================
