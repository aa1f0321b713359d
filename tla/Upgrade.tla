------------------------------ MODULE Upgrade ------------------------------
(***************************************************************************)
(* cmsctl upgrade (upgrade/upgrade.go, cli/ctl_upgrade.go, db/migrate.go): *)
(* the releases on disk, the link to the one in use, the schema of the     *)
(* database and the services, while upgrades to newer versions are tried,  *)
(* steps fail and an operator interrupts them.  A version is a number; its *)
(* schema has that number, and every version brings one migration.         *)
(***************************************************************************)
EXTENDS Integers, Sequences, SequencesExt

CONSTANTS
    Versions,          \* 1 to some number, the installed one first
    KeepReleases,      \* releases kept on disk
    \* Bounds of the model
    MaxStepFailures,   \* steps that fail by themselves
    MaxInterrupts      \* SIGINT or SIGTERM to cmsctl

ASSUME UpgradeAssumption ==
    /\ Versions \in SUBSET (Nat \ {0}) /\ 1 \in Versions
    /\ \A v \in Versions : 1 .. v \subseteq Versions
    /\ KeepReleases \in Nat \ {0, 1}
    /\ MaxStepFailures \in Nat /\ MaxInterrupts \in Nat

VARIABLES
    current,     \* the release the link names
    releases,    \* the releases on disk, the one unpacked last at the end
    schema,      \* the last migration of the database, 0 when it was dropped
    running,     \* the release whose services run, 0 when they are stopped
    upgrade,     \* the upgrade under way
    outcome,     \* what the last upgrade said
    failures, interruptions

upgradeVars == <<current, releases, schema, running, upgrade, outcome, failures, interruptions>>

RollbackStages == {"rollback", "roll_switch", "roll_restore", "roll_start"}
UpgradeStages ==
    {"none", "fetched", "backed_up", "stopped", "switched", "migrated", "started"}
        \cup RollbackStages

NoUpgrade == [at |-> "none", prev |-> 0, target |-> 0, cancelled |-> FALSE, problems |-> FALSE]

UpgradeInit ==
    /\ current = 1 /\ releases = <<1>> /\ schema = 1 /\ running = 1
    /\ upgrade = NoUpgrade /\ outcome = "none"
    /\ failures = 0 /\ interruptions = 0

At(at) == upgrade.at = at
GoTo(at) == upgrade' = [upgrade EXCEPT !.at = at]
Problem(at) == upgrade' = [upgrade EXCEPT !.at = at, !.problems = TRUE]

\* The upgrade returns; its steps are forgotten, what it told is not.
Return(said) ==
    /\ upgrade' = [upgrade EXCEPT !.at = "none"]
    /\ outcome' = said

\* A step that is given the context fails at once when it is cancelled.
Works == ~upgrade.cancelled /\ UNCHANGED failures
Fails ==
    \/ upgrade.cancelled /\ UNCHANGED failures
    \/ failures < MaxStepFailures /\ failures' = failures + 1

(***************************************************************************)
(* Before the services are touched.                                        *)
(***************************************************************************)
Without(v) ==
    IF v \in ToSet(releases)
    THEN RemoveAt(releases, CHOOSE i \in DOMAIN releases : releases[i] = v) ELSE releases

\* Mutant: the release in use is unpacked again over itself.
fetchOver(v) ==
    /\ upgrade.at = "none" /\ v >= current
    /\ \/ UNCHANGED failures /\ releases' = Append(Without(v), v)
          /\ upgrade' = [NoUpgrade EXCEPT !.at = "fetched", !.prev = current, !.target = v]
          /\ UNCHANGED outcome
       \/ failures < MaxStepFailures /\ failures' = failures + 1
          /\ releases' = Without(v)
          /\ upgrade' = [NoUpgrade EXCEPT !.prev = current, !.target = v]
          /\ outcome' = "nothing_changed"
    /\ UNCHANGED <<current, schema, running, interruptions>>

\* Run's checks and fetch: a newer version, or the same one to reinstall it,
\* which then stays as it is; the rename may fail after the old directory of
\* the version was removed.
fetch(v) ==
    /\ upgrade.at = "none" /\ v >= current
    /\ \/ /\ UNCHANGED <<failures, outcome>>
          /\ releases' = IF v = current THEN releases ELSE Append(Without(v), v)
          /\ upgrade' = [NoUpgrade EXCEPT !.at = "fetched", !.prev = current, !.target = v]
       \/ /\ failures < MaxStepFailures /\ failures' = failures + 1
          /\ releases' \in {releases, IF v = current THEN releases ELSE Without(v)}
          /\ upgrade' = [NoUpgrade EXCEPT !.prev = current, !.target = v]
          /\ outcome' = "nothing_changed"
    /\ UNCHANGED <<current, schema, running, interruptions>>

BackUp ==
    /\ At("fetched")
    /\ \/ Works /\ GoTo("backed_up") /\ UNCHANGED outcome
       \/ Fails /\ Return("nothing_changed")
    /\ UNCHANGED <<current, releases, schema, running, interruptions>>

\* Mutant: after a failed Stop the services are left as they are.
StopAlone ==
    /\ At("backed_up")
    /\ \/ Works /\ running' = 0 /\ GoTo("stopped") /\ UNCHANGED outcome
       \/ Fails /\ running' \in {0, running} /\ Return("nothing_changed")
    /\ UNCHANGED <<current, releases, schema, interruptions>>

\* A failed Stop is followed by a Start whose error is ignored.
StopStep ==
    /\ At("backed_up")
    /\ \/ Works /\ running' = 0 /\ GoTo("stopped") /\ UNCHANGED outcome
       \/ Fails /\ running' = current /\ Return("nothing_changed")
       \/ /\ \/ upgrade.cancelled /\ UNCHANGED failures
             \/ failures + 1 < MaxStepFailures /\ failures' = failures + 2
          /\ running' = 0 /\ Return("nothing_changed")
    /\ UNCHANGED <<current, releases, schema, interruptions>>

(***************************************************************************)
(* The switch.                                                             *)
(***************************************************************************)
switchTo ==
    /\ At("stopped")
    /\ \/ UNCHANGED failures /\ current' = upgrade.target /\ GoTo("switched")
       \/ /\ failures < MaxStepFailures /\ failures' = failures + 1
          /\ UNCHANGED current /\ GoTo("rollback")
    /\ UNCHANGED <<releases, schema, running, outcome, interruptions>>

\* Mutant: the services are started on the schema there is.
MigrateNothing ==
    /\ At("switched")
    /\ GoTo("migrated")
    /\ UNCHANGED <<current, releases, schema, running, outcome, failures, interruptions>>

\* Each migration is a transaction of its own.
Migrate ==
    /\ At("switched")
    /\ \/ /\ Works
          /\ IF schema < upgrade.target
             THEN schema' = schema + 1 /\ UNCHANGED upgrade
             ELSE UNCHANGED schema /\ GoTo("migrated")
       \/ Fails /\ UNCHANGED schema /\ GoTo("rollback")
    /\ UNCHANGED <<current, releases, running, outcome, interruptions>>

StartStep ==
    /\ At("migrated")
    /\ \/ Works /\ running' = current /\ GoTo("started")
       \/ Fails /\ running' \in {0, current} /\ GoTo("rollback")
    /\ UNCHANGED <<current, releases, schema, outcome, interruptions>>

\* prune: the newest of the other releases stay, besides the one in use.
kept ==
    LET others == Without(current)
        n == Len(others)
    IN  IF n <= KeepReleases - 1 THEN others ELSE SubSeq(others, n - KeepReleases + 2, n)

HealthStep ==
    /\ At("started")
    /\ \/ /\ Works
          /\ releases' = Append(kept, current)
          /\ Return("upgraded")
       \/ Fails /\ GoTo("rollback") /\ UNCHANGED <<releases, outcome>>
    /\ UNCHANGED <<current, schema, running, interruptions>>

(***************************************************************************)
(* rollback: every step is tried, whatever became of the one before, and   *)
(* with the context of the upgrade.                                        *)
(***************************************************************************)
rollbackStop ==
    /\ At("rollback")
    /\ \/ Works /\ running' = 0 /\ GoTo("roll_switch")
       \/ Fails /\ UNCHANGED running /\ Problem("roll_switch")
    /\ UNCHANGED <<current, releases, schema, outcome, interruptions>>

rollbackSwitch ==
    /\ At("roll_switch")
    /\ \/ UNCHANGED failures /\ current' = upgrade.prev /\ GoTo("roll_restore")
       \/ /\ failures < MaxStepFailures /\ failures' = failures + 1
          /\ UNCHANGED current /\ Problem("roll_restore")
    /\ UNCHANGED <<releases, schema, running, outcome, interruptions>>

\* Mutant: the database is left as the new release had it.
rollbackKeep ==
    /\ At("roll_restore")
    /\ GoTo("roll_start")
    /\ UNCHANGED <<current, releases, schema, running, outcome, failures, interruptions>>

\* Restore with force: the schema is dropped before the data is loaded.
rollbackRestore ==
    /\ At("roll_restore")
    /\ \/ Works /\ schema' = upgrade.prev /\ GoTo("roll_start")
       \/ /\ Fails
          /\ schema' \in {schema, 0}
          /\ Problem("roll_start")
    /\ UNCHANGED <<current, releases, running, outcome, interruptions>>

\* Start and Health, and what the operator is told.
rollbackStart ==
    /\ At("roll_start")
    /\ \/ /\ Works
          /\ running' = IF running = 0 THEN current ELSE running
          /\ Return(IF upgrade.problems THEN "rollback_incomplete" ELSE "rolled_back")
       \/ Fails /\ UNCHANGED running /\ Return("rollback_incomplete")
    /\ UNCHANGED <<current, releases, schema, interruptions>>

\* The operator interrupts cmsctl: its context is cancelled.
Interrupt ==
    /\ upgrade.at # "none" /\ ~upgrade.cancelled /\ interruptions < MaxInterrupts
    /\ interruptions' = interruptions + 1
    /\ upgrade' = [upgrade EXCEPT !.cancelled = TRUE]
    /\ UNCHANGED <<current, releases, schema, running, outcome, failures>>

UpgradeNext ==
    \/ \E v \in Versions : outcome # "rollback_incomplete" /\ fetch(v)
    \/ BackUp \/ StopStep \/ switchTo \/ Migrate \/ StartStep \/ HealthStep
    \/ rollbackStop \/ rollbackSwitch \/ rollbackRestore \/ rollbackStart
    \/ Interrupt

UpgradeSpec == UpgradeInit /\ [][UpgradeNext]_upgradeVars

(***************************************************************************)
(* Properties.                                                             *)
(***************************************************************************)
\* Every variable of the upgrade has its type, and the release in use is on
\* disk, whatever is unpacked over it and pruned.
UpgradeTypeOK ==
    /\ current \in Versions /\ releases \in Seq(Versions)
    /\ schema \in Versions \cup {0} /\ running \in Versions \cup {0}
    /\ upgrade \in [at : UpgradeStages, prev : Versions \cup {0}, target : Versions \cup {0},
                    cancelled : BOOLEAN, problems : BOOLEAN]
    /\ outcome \in {"none", "nothing_changed", "upgraded", "rolled_back", "rollback_incomplete"}
    /\ failures \in Nat /\ interruptions \in Nat
    /\ current \in ToSet(releases)

\* What the operator is told is so: an upgrade that says it is done runs the
\* new release on its schema, one that says it went back or changed nothing
\* left the old release on the old schema, and they run after a rollback.
OutcomeTrue ==
    upgrade.at = "none" =>
        /\ outcome = "upgraded" =>
             current = upgrade.target /\ schema = current /\ running = current
        /\ outcome = "rolled_back" =>
             current = upgrade.prev /\ schema = current /\ running = current
        /\ outcome = "nothing_changed" => current = upgrade.prev /\ schema = current

\* The services of a release never run on the schema of another one, "the
\* old release cannot run on a newer schema", unless a step of the rollback
\* itself failed.
SchemaFits == running # 0 /\ ~upgrade.problems => schema = running

\* One failing step, whichever it is, leaves a release running on its own
\* schema.
OneFailureRecovered ==
    upgrade.at = "none" /\ failures <= 1 /\ interruptions = 0 =>
        running = current /\ schema = current

\* An upgrade tells the truth about how it ended, leaves a schema the running
\* release understands, and undoes a single failure completely.
UpgradeSound == OutcomeTrue /\ SchemaFits /\ OneFailureRecovered

=============================================================================
