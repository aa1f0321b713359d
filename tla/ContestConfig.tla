---------------------------- MODULE ContestConfig ----------------------------
(***************************************************************************)
(* A contest kept in a directory, and applied to the database              *)
(* (contestconfig/contestconfig.go, cli/ctl_contestconfig.go): the command *)
(* reads the contest and the tasks, plans, and writes in several           *)
(* transactions, one for the contest, one for each task, one for the       *)
(* order, while the organizers' pages go on.  It may fail between any two  *)
(* of them, and it is then run again.                                      *)
(***************************************************************************)
EXTENDS ContestSettings, SequencesExt

CONSTANTS
    Directories,   \* a name, settings, the tasks in order, and the content of each package
    ConfigTasks,   \* names of tasks
    FirstTasks,    \* the tasks at the start
    PackageContents, \* contents of packages
    \* Bounds of the model
    MaxApplies, MaxTouches, MaxApplyFailures

VARIABLES
    tasks,         \* the tasks by name, with their datasets in order
    begun,         \* the contest has started
    apply,         \* the command under way
    heard,         \* per task: the live dataset the dispatcher knows of
    applies, touches, applyFailures,
    \* History
    edited,        \* tasks whose statements or datasets were edited by hand
    disturbed,     \* something else was written since the command began
    matched        \* the directory and option of the last command that was completed, unless something was written since

configVars ==
    <<settingsVars, tasks, begun, apply, heard, applies, touches, applyFailures, edited, disturbed, matched>>

NoConfigTask == [exists |-> FALSE, contest |-> 0, num |-> 0, words |-> "none", live |-> 0, datasets |-> << >>]
NoPlan == << >>
NoApply == [at |-> "idle", dir |-> << >>, activate |-> FALSE, id |-> 0, cur |-> NoContest, started |-> FALSE,
            plan |-> NoPlan, pos |-> 1, reordered |-> FALSE, live |-> {}, before |-> << >>]

ASSUME ContestConfigAssumption ==
    /\ \A d \in Directories :
         /\ d.name \in ContestNames
         /\ {"start", "stop"} \subseteq DOMAIN d.settings
         /\ DOMAIN d.settings \subseteq {"start", "stop", "perUser", "other"}
         /\ \A i, j \in DOMAIN d.tasks : i # j => d.tasks[i] # d.tasks[j]
         /\ d.content \in [ConfigTasks -> PackageContents]
    /\ FirstTasks \in [ConfigTasks -> {NoConfigTask} \cup
         {[NoConfigTask EXCEPT !.exists = TRUE, !.words = c, !.live = 1, !.datasets = <<[tag |-> "none", content |-> c]>>] :
            c \in PackageContents}]
    /\ MaxApplies \in Nat /\ MaxTouches \in Nat /\ MaxApplyFailures \in Nat

ConfigInit ==
    /\ SettingsInit
    /\ tasks = FirstTasks /\ begun = FALSE /\ apply = NoApply
    /\ heard = [n \in ConfigTasks |-> tasks[n].live]
    /\ applies = 0 /\ touches = 0 /\ applyFailures = 0
    /\ edited = {} /\ disturbed = FALSE /\ matched = << >>

ListTasksByContest(ts, id) ==
    SetToSortSeq({n \in ConfigTasks : ts[n].exists /\ ts[n].contest = id}, LAMBDA m, n : ts[m].num < ts[n].num)

\* The last number of the contest again.
AdminNextTaskNumLast(id) ==
    LET names == ListTasksByContest(tasks, id) IN IF names = << >> THEN -1 ELSE tasks[Last(names)].num

AdminNextTaskNum(id) ==
    LET names == ListTasksByContest(tasks, id) IN IF names = << >> THEN 0 ELSE tasks[Last(names)].num + 1
SetTaskContest(t, id, num) == [t EXCEPT !.contest = id, !.num = num]

\* The settings of the directory over those of a row.
merge(row, settings) == [k \in DOMAIN row |-> IF k \in DOMAIN settings THEN settings[k] ELSE row[k]]

\* Any dataset of this content counts, live or not.
currentAny(t, c) ==
    [live |-> \E i \in DOMAIN t.datasets : t.datasets[i].tag = c, imported |-> 0]

\* Whether the live dataset is of the package: it was imported from it, or
\* exporting the task gives the same files; and if not, the dataset that
\* was imported from it earlier.
current(t, c) ==
    LET tagged == {i \in DOMAIN t.datasets : t.datasets[i].tag = c}
        live == t.live \in tagged \/ (t.live # 0 /\ t.words = c /\ t.datasets[t.live].content = c)
    IN [live |-> live, imported |-> IF live \/ tagged = {} THEN 0 ELSE CHOOSE i \in tagged : \A j \in tagged : i <= j]

TaskChange(n, d, mayGoLive) ==
    LET t == tasks[n]
        now == current(t, d.content[n])
        action == CASE ~t.exists -> "created"
                    [] t.exists /\ now.live -> "unchanged"
                    [] t.exists /\ ~now.live /\ now.imported # 0 -> IF mayGoLive THEN "activated" ELSE "pending"
                    [] OTHER -> "updated"
    IN [name |-> n, action |-> action, imported |-> now.imported, attached |-> t.contest # 0,
        goes |-> action = "created" \/ mayGoLive]

-----------------------------------------------------------------------------
(* The command.                                                            *)

stays == UNCHANGED <<settingsVars, begun>>
tasksStay == UNCHANGED <<tasks, heard, edited, touches>>
Ends == apply' = NoApply

\* Load, and the contest as it is.
readContest(d, activate) ==
    /\ apply.at = "idle" /\ applies < MaxApplies
    /\ applies' = applies + 1 /\ disturbed' = FALSE
    /\ LET ids == GetContestByName(d.name)
           id == IF ids = {} THEN 0 ELSE CHOOSE i \in ids : TRUE
       IN apply' = [NoApply EXCEPT !.at = "read", !.dir = d, !.activate = activate, !.id = id,
                      !.cur = IF id = 0 THEN CreateContest(d.name, d.settings.start, d.settings.stop) ELSE GetContest(id),
                      !.started = id # 0 /\ begun]
    /\ UNCHANGED <<applyFailures, matched>> /\ stays /\ tasksStay

\* Every package is checked before anything is written.
planTasks ==
    LET d == apply.dir
        listed == ToSet(d.tasks)
        now == ListTasksByContest(tasks, apply.id)
        order == SelectSeq(now, LAMBDA n : n \in listed)
    IN /\ apply.at = "read"
       /\ IF \E n \in listed : tasks[n].exists /\ tasks[n].contest \notin {0, apply.id}
          THEN Ends
          ELSE apply' = [apply EXCEPT !.at = "planned",
                   !.plan = [i \in DOMAIN d.tasks |-> TaskChange(d.tasks[i], d, ~apply.started \/ apply.activate)],
                   !.before = [n \in ConfigTasks |-> tasks[n].live],
                   !.reordered = IF apply.id = 0 THEN d.tasks # << >>
                                 ELSE order # d.tasks \/ (Len(order) < Len(now) /\ ~IsPrefix(d.tasks, now))]
       /\ UNCHANGED <<applies, applyFailures, disturbed, matched>> /\ stays /\ tasksStay

\* What the plan changes, as the report says.
changesSettings == apply.id = 0 \/ merge(apply.cur, apply.dir.settings) # apply.cur
ReportsChange ==
    \/ changesSettings \/ apply.reordered
    \/ \E i \in DOMAIN apply.plan : apply.plan[i].action \notin {"unchanged", "pending"}

\* The transaction of the contest: the whole row, from what was read.  The
\* web servers are not told.
writeContest ==
    LET id == IF apply.id = 0 THEN lastContest + 1 ELSE apply.id
        row == IF apply.id = 0 THEN apply.cur ELSE contest[id]
        new == [UpdateContest(row, merge(apply.cur, apply.dir.settings)) EXCEPT !.name = apply.dir.name]
        refused == \/ apply.id # 0 /\ ~ContestExists(id)
                   \/ ~ValidContest(new) \/ GetContestByName(new.name) \ {id} # {}
    IN /\ apply.at = "planned" /\ id \in ContestKeys
       /\ IF ~changesSettings
          THEN apply' = [apply EXCEPT !.at = "tasks"] /\ UNCHANGED <<settingsVars, matched>>
          ELSE IF refused
          THEN Ends /\ UNCHANGED <<settingsVars, matched>>
          ELSE /\ WriteContest(id, new)
               /\ lastContest' = IF apply.id = 0 THEN id ELSE lastContest
               /\ saved' = [saved EXCEPT ![id] = new] /\ granted' = [granted EXCEPT ![id] = 0]
               /\ switched' = IF apply.id = 0 THEN [switched EXCEPT ![id] = Operational] ELSE switched
               /\ apply' = [apply EXCEPT !.at = "tasks", !.id = id]
               /\ matched' = << >>
               /\ UNCHANGED <<formOf, editing, views, viewLoad, contestEvents, served, edits, viewTicks, lostEvents>>
       /\ UNCHANGED <<begun, applies, applyFailures, disturbed>> /\ tasksStay

\* The dataset a package makes; its statements and settings go to the task.
Imported(t, c, goes) ==
    [t EXCEPT !.words = c, !.datasets = Append(@, [tag |-> c, content |-> c]),
              !.live = IF goes THEN Len(t.datasets) + 1 ELSE @]

\* The next task of the plan, in a transaction of its own.
writeTask ==
    LET p == apply.plan[apply.pos]
        c == apply.dir.content[p.name]
        t == tasks[p.name]
        \* told: the dispatcher must hear of it
        Done(new, live) ==
            /\ tasks' = [tasks EXCEPT ![p.name] = new]
            /\ heard' = IF p.action = "created" THEN [heard EXCEPT ![p.name] = new.live] ELSE heard
            /\ apply' = [apply EXCEPT !.pos = @ + 1, !.live = IF live THEN @ \cup {p.name} ELSE @,
                           !.reordered = @ \/ (p.action = "updated" /\ ~p.attached)]
            /\ matched' = << >>
    IN /\ apply.at = "tasks" /\ apply.pos <= Len(apply.plan)
       /\ \/ /\ p.action \in {"unchanged", "pending"}
             /\ apply' = [apply EXCEPT !.pos = @ + 1] /\ UNCHANGED <<tasks, heard, matched>>
          \/ /\ p.action = "activated"
             /\ Done([t EXCEPT !.live = p.imported], TRUE)
          \/ /\ p.action = "updated"
             /\ Done(Imported(t, c, p.goes), p.goes)
          \/ /\ p.action = "created" /\ ~t.exists
             /\ Done(Imported([SetTaskContest(NoConfigTask, apply.id, AdminNextTaskNum(apply.id)) EXCEPT !.exists = TRUE],
                              c, TRUE), FALSE)
          \/ /\ p.action = "created" /\ t.exists
             /\ Ends /\ UNCHANGED <<tasks, heard, matched>>
       /\ UNCHANGED <<applies, applyFailures, edited, touches, disturbed>> /\ stays

\* The listed tasks first, in order; the others keep their order after them.
reorder(names) ==
    LET rest == SelectSeq(ListTasksByContest(tasks, apply.id), LAMBDA n : n \notin ToSet(names))
        all == names \o rest
    IN [n \in ConfigTasks |-> IF n \in ToSet(all)
                              THEN SetTaskContest(tasks[n], apply.id, (CHOOSE i \in DOMAIN all : all[i] = n) - 1)
                              ELSE tasks[n]]

writeOrder ==
    /\ apply.at = "tasks" /\ apply.pos > Len(apply.plan)
    /\ tasks' = IF apply.reordered THEN reorder(apply.dir.tasks) ELSE tasks
    /\ apply' = [apply EXCEPT !.at = "notify"]
    /\ matched' = IF apply.reordered THEN << >> ELSE matched
    /\ UNCHANGED <<applies, applyFailures, heard, edited, touches, disturbed>> /\ stays

\* The dispatcher is told of the tasks that have another live dataset.
notify ==
    /\ apply.at = "notify"
    /\ \/ \E n \in apply.live :
            /\ heard' = [heard EXCEPT ![n] = tasks[n].live]
            /\ apply' = [apply EXCEPT !.live = @ \ {n}] /\ UNCHANGED matched
       \/ /\ apply.live = {} /\ apply' = [apply EXCEPT !.at = "done"] /\ UNCHANGED heard
          /\ matched' = IF disturbed THEN << >> ELSE <<apply.dir, apply.activate>>
    /\ UNCHANGED <<tasks, applies, applyFailures, edited, touches, disturbed>> /\ stays

Return ==
    /\ apply.at = "done" /\ Ends
    /\ UNCHANGED <<applies, applyFailures, disturbed, matched>> /\ stays /\ tasksStay

\* A statement fails, or the process dies: what was written stays, and what
\* the dispatcher was to be told is lost.
applyFails ==
    /\ apply.at \in {"planned", "tasks", "notify"} /\ applyFailures < MaxApplyFailures
    /\ applyFailures' = applyFailures + 1
    /\ Ends
    /\ UNCHANGED <<applies, disturbed, matched>> /\ stays /\ tasksStay

-----------------------------------------------------------------------------
(* The organizers, meanwhile.                                              *)

Touched == touches < MaxTouches /\ touches' = touches + 1 /\ disturbed' = TRUE /\ matched' = << >>

\* Another dataset is made live, a statement or a dataset is edited, a task
\* leaves its contest or joins another.
touch(n) ==
    /\ tasks[n].exists /\ Touched
    /\ \/ \E i \in DOMAIN tasks[n].datasets \ {tasks[n].live} :
            /\ tasks' = [tasks EXCEPT ![n].live = i] /\ heard' = [heard EXCEPT ![n] = i] /\ UNCHANGED edited
       \/ \E c \in PackageContents :
            /\ tasks' = [tasks EXCEPT ![n].datasets[tasks[n].live].content = c]
            /\ edited' = edited \cup {n} /\ UNCHANGED heard
       \/ \E id \in {0} \cup {i \in ContestKeys : ContestExists(i)} :
            /\ (id = 0) # (tasks[n].contest = 0)
            /\ tasks' = [tasks EXCEPT ![n] = SetTaskContest(@, id, IF id = 0 THEN 0 ELSE AdminNextTaskNum(id))]
            /\ UNCHANGED <<heard, edited>>
    /\ UNCHANGED <<apply, applies, applyFailures>> /\ stays

starts ==
    /\ ~begun /\ begun' = TRUE
    /\ UNCHANGED <<settingsVars, apply, applies, applyFailures, disturbed, matched>> /\ tasksStay

\* The pages of ContestSettings.
settingsPages ==
    /\ SettingsNext
    /\ disturbed' = (disturbed \/ contest' # contest)
    /\ matched' = IF contest' # contest THEN << >> ELSE matched
    /\ UNCHANGED <<begun, apply, applies, applyFailures>> /\ tasksStay

ConfigNext ==
    \/ \E d \in Directories, activate \in BOOLEAN : readContest(d, activate)
    \/ planTasks \/ writeContest \/ writeTask \/ writeOrder \/ notify \/ Return \/ applyFails
    \/ \E n \in ConfigTasks : touch(n)
    \/ starts \/ settingsPages

ConfigSpec == ConfigInit /\ [][ConfigNext]_configVars

-----------------------------------------------------------------------------

ConfigTypeOK ==
    /\ apply.at \in {"idle", "read", "planned", "tasks", "notify", "done"}
    /\ \A n \in ConfigTasks :
         /\ tasks[n].contest \in {0} \cup ContestKeys /\ tasks[n].num \in Nat
         /\ tasks[n].live \in 0 .. Len(tasks[n].datasets)
    /\ edited \subseteq ConfigTasks

LiveContent(n) == tasks[n].datasets[tasks[n].live].content

Completed == apply.at = "done" /\ ~disturbed

\* "Apply makes the database match [the directory]": once the command is
\* complete, whatever failed before, the contest has the settings of the
\* file, its tasks come first and in order, and the live dataset of each is
\* of the content of its package, unless the contest had started or the
\* dataset was edited by hand.
ConfigMatches ==
    Completed =>
        /\ \A k \in DOMAIN apply.dir.settings : contest[apply.id][k] = apply.dir.settings[k]
        /\ IsPrefix(apply.dir.tasks, ListTasksByContest(tasks, apply.id))
        /\ \A i \in DOMAIN apply.plan :
             apply.plan[i].goes /\ apply.plan[i].name \notin edited
                => LiveContent(apply.plan[i].name) = apply.dir.content[apply.plan[i].name]

\* "Applying the same directory twice changes nothing the second time."
ConfigIdempotent ==
    apply.at = "planned" /\ matched = <<apply.dir, apply.activate>> => ~ReportsChange

\* Once the contest has started, only -activate changes what is judged with.
LiveKept ==
    Completed /\ apply.started /\ ~apply.activate =>
        \A n \in ConfigTasks : apply.before[n] # 0 => tasks[n].live = apply.before[n]

\* The dispatcher hears of every live dataset the command changed, unless it
\* failed before the end.
DispatcherHears ==
    apply.at = "idle" /\ applyFailures = 0 => \A n \in ConfigTasks : heard[n] = tasks[n].live

ConfigSound == ConfigMatches /\ ConfigIdempotent /\ LiveKept /\ DispatcherHears
=============================================================================
